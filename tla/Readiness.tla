------------------------------- MODULE Readiness -------------------------------
(***************************************************************************)
(* What planning needs to know of assets and subcontractors: the type of   *)
(* the one and the trade of the other, confirmed by a user or read off     *)
(* names (services/metadata_confidence_service.py, and its callers in      *)
(* crud/asset.py and crud/subcontractor.py), the types a project may add   *)
(* (crud/asset_type.py), and the completeness a project is shown.          *)
(*                                                                         *)
(* A call loads a row, computes from it, and at its commit writes the      *)
(* columns that differ from what it loaded.                                 *)
(***************************************************************************)
EXTENDS Office, Integers, FiniteSets, FiniteSetsExt

CONSTANTS
    Projects, Fleet, Firms,   \* Fleet: the assets; Firms: the subcontractors
    GlobalTypes, Slugs, MaxSuffix,
    TypeHints, TradeHints,    \* what names may say
    Trades, Unset,
    Crew,                     \* the subcontractors of each project
    Used,                     \* assets and firms booked in the next six weeks
    Demand                    \* projects whose snapshot shows demand in them

ASSUME ReadinessAssumption ==
    /\ IsFiniteSet(Fleet) /\ IsFiniteSet(Firms)
    /\ TypeHints \subseteq SUBSET GlobalTypes /\ TradeHints \subseteq SUBSET Trades
    /\ Crew \in [Projects -> SUBSET Firms]

VARIABLES
    types,    \* of a code: None or [project, slug, active]
    fleet,    \* of an asset: None or [project, says, type, status]
    firms     \* of a subcontractor: None or [says, trade, suggested, status]
              \* says: the types named by an asset's own type, name and code, or
              \* the trades a company's name and e-mail hint at

readiness == <<types, fleet, firms>>

Codes == GlobalTypes \cup (Projects \X Slugs \X (1..MaxSuffix))

\* What a commit leaves of a row: the columns the call has changed are its own.
Written(row, old, new) == [f \in DOMAIN row |-> IF new[f] # old[f] THEN new[f] ELSE row[f]]

ReadinessInit ==
    /\ types \in [Codes -> {None, [project |-> None, slug |-> None, active |-> TRUE]}]
    /\ \A c \in Codes : types[c] # None <=> c \in GlobalTypes
    /\ fleet = [a \in Fleet |-> None]
    /\ firms = [f \in Firms |-> None]

-----------------------------------------------------------------------------
(* infer_asset_type_resolution: one type among all that are named, or none. *)
TypeInferred(row) ==
    IF Cardinality(row.says) = 1
    THEN [row EXCEPT !.type = CHOOSE t \in row.says : TRUE, !.status = "inferred"]
    ELSE [row EXCEPT !.type = None, !.status = "unknown"]

TypeConfirmed(row, t) == [row EXCEPT !.type = t, !.status = "confirmed"]

Fits(t, p) == types[t] # None /\ types[t].active /\ types[t].project \in {None, p}

\* choice: a code, None for a null, Unset if the call does not mention the type
TypeResolved(row, choice) ==
    CASE choice \in Codes -> TypeConfirmed(row, choice)
      [] choice = None -> TypeInferred(row)
      [] OTHER -> row

(* Faulty variant: a rename infers the type again, whoever had confirmed it. *)
RenamedAfresh(row, says) == IF says = Unset THEN row ELSE TypeInferred([row EXCEPT !.says = says])

(* A rename infers the type again unless a user had confirmed it. *)
Renamed(row, says) ==
    IF says = Unset THEN row
    ELSE IF row.status = "confirmed" THEN [row EXCEPT !.says = says]
    ELSE TypeInferred([row EXCEPT !.says = says])

CreateAssetRow(s) ==
    \E a \in Unused(fleet), p \in Projects, says \in TypeHints, choice \in Codes \cup {None} :
        /\ choice # None => Fits(choice, p)
        /\ fleet' = [fleet EXCEPT ![a] = TypeResolved([project |-> p, says |-> says, type |-> None,
                                                      status |-> "unknown"], choice)]
        /\ Answers(s)
        /\ UNCHANGED <<types, firms>>

\* The project may come with the call too.
BeginAsset(s) ==
    \E a \in Fleet \ Unused(fleet), says \in TypeHints \cup {Unset},
       choice \in Codes \cup {None, Unset}, p \in Projects :
        LET moved == [fleet[a] EXCEPT !.project = p]
            named == IF says = Unset THEN moved ELSE [moved EXCEPT !.says = says]
        IN
        /\ choice \in Codes => Fits(choice, p)
        /\ Begins(s, [op |-> "asset", at |-> "commit", of |-> a, old |-> fleet[a], names |-> choice # Unset,
                      new |-> IF choice = Unset THEN Renamed(moved, says) ELSE TypeResolved(named, choice)])
        /\ UNCHANGED readiness

CommitAsset(s) ==
    /\ At(s, "asset", "commit")
    /\ LET c == call[s] IN fleet' = [fleet EXCEPT ![c.of] = Written(@, c.old, c.new)]
    /\ Ends(s)
    /\ UNCHANGED <<types, firms>>

(* transfer_asset: the type goes along, a local one too. *)
TransferAsset(s) ==
    \E a \in Fleet \ Unused(fleet), p \in Projects :
        /\ fleet' = [fleet EXCEPT ![a].project = p]
        /\ Answers(s)
        /\ UNCHANGED <<types, firms>>

-----------------------------------------------------------------------------
(* infer_subcontractor_trade_resolution: a hint, and only if nothing        *)
(* contradicts it.                                                           *)
TradeInferred(row) ==
    IF Cardinality(row.says) = 1
    THEN [row EXCEPT !.trade = None, !.suggested = CHOOSE t \in row.says : TRUE, !.status = "suggested"]
    ELSE [row EXCEPT !.trade = None, !.suggested = None, !.status = "unknown"]

\* choice: a trade, None for a null and for "general" and "other", or Unset
TradeResolved(row, choice) ==
    IF choice \in Trades
    THEN [row EXCEPT !.trade = choice, !.suggested = None, !.status = "confirmed"]
    ELSE TradeInferred(row)

CreateFirm(s) ==
    \E f \in Unused(firms), says \in TradeHints, choice \in Trades \cup {None} :
        /\ firms' = [firms EXCEPT ![f] = TradeResolved([says |-> says, trade |-> None, suggested |-> None,
                                                       status |-> "unknown"], choice)]
        /\ Answers(s)
        /\ UNCHANGED <<types, fleet>>

(* update_subcontractor, by a manager or by the firm itself. *)
BeginFirm(s) ==
    \E f \in Firms \ Unused(firms), says \in TradeHints \cup {Unset}, choice \in Trades \cup {None, Unset} :
        LET old == firms[f]
            named == IF says = Unset THEN old ELSE [old EXCEPT !.says = says]
        IN
        /\ Begins(s, [op |-> "firm", at |-> "commit", of |-> f, old |-> old, names |-> choice # Unset,
                      new |-> IF choice = Unset /\ (says = Unset \/ old.status = "confirmed") THEN named
                              ELSE TradeResolved(named, choice)])
        /\ UNCHANGED readiness

CommitFirm(s) ==
    /\ At(s, "firm", "commit")
    /\ LET c == call[s] IN firms' = [firms EXCEPT ![c.of] = Written(@, c.old, c.new)]
    /\ Ends(s)
    /\ UNCHANGED <<types, fleet>>

-----------------------------------------------------------------------------
(* The types of a project: a name gives a slug, unique in the project, and  *)
(* the slug a code, unique everywhere and kept when the type is renamed.    *)
SameSlug(p, slug) == {c \in Codes : types[c] # None /\ types[c].project = p /\ types[c].slug = slug}

FreeCodes(p, slug) == {n \in 1..MaxSuffix : types[<<p, slug, n>>] = None}

BeginType(s) ==
    \E p \in Projects, slug \in Slugs :
        /\ SameSlug(p, slug) = {} /\ FreeCodes(p, slug) # {}
        /\ Begins(s, [op |-> "type", at |-> "commit", of |-> <<p, slug, Min(FreeCodes(p, slug))>>,
                      new |-> [project |-> p, slug |-> slug, active |-> TRUE]])
        /\ UNCHANGED readiness

\* A clash of slug or code is answered with a conflict.
CommitType(s) ==
    /\ At(s, "type", "commit")
    /\ LET c == call[s] IN
       types' = IF types[c.of] = None /\ SameSlug(c.new.project, c.new.slug) = {}
                THEN [types EXCEPT ![c.of] = c.new] ELSE types
    /\ Ends(s)
    /\ UNCHANGED <<fleet, firms>>

(* update_project_local, and update for the types of all projects. *)
BeginTypeEdit(s) ==
    \E t \in Codes \ Unused(types), slug \in Slugs \cup {None}, active \in BOOLEAN :
        /\ slug = None <=> types[t].project = None
        /\ slug # None => SameSlug(types[t].project, slug) \subseteq {t}
        /\ Begins(s, [op |-> "edit", at |-> "commit", of |-> t, old |-> types[t],
                      new |-> [types[t] EXCEPT !.slug = slug, !.active = active]])
        /\ UNCHANGED readiness

CommitTypeEdit(s) ==
    /\ At(s, "edit", "commit")
    /\ LET c == call[s]
           row == Written(types[c.of], c.old, c.new)
       IN types' = IF row.slug = None \/ SameSlug(row.project, row.slug) \subseteq {c.of}
                   THEN [types EXCEPT ![c.of] = row] ELSE types
    /\ Ends(s)
    /\ UNCHANGED <<fleet, firms>>

ReadinessNext ==
    \E s \in Sessions :
        \/ CreateAssetRow(s) \/ BeginAsset(s) \/ CommitAsset(s) \/ TransferAsset(s)
        \/ CreateFirm(s) \/ BeginFirm(s) \/ CommitFirm(s)
        \/ BeginType(s) \/ CommitType(s) \/ BeginTypeEdit(s) \/ CommitTypeEdit(s)

ReadinessSpec == OfficeInit /\ ReadinessInit /\ [][ReadinessNext]_<<office, readiness>>

-----------------------------------------------------------------------------
(* get_project_planning_completeness *)
(* Faulty variant: the status alone says that there is a type. *)
AssetResolved(a) == fleet[a].status \in {"inferred", "confirmed"}
AssetReady(a) == fleet[a].type # None /\ fleet[a].status \in {"inferred", "confirmed"}

FirmReady(f) == firms[f].trade # None /\ firms[f].status = "confirmed"

FleetOf(p) == {a \in Fleet : fleet[a] # None /\ fleet[a].project = p}
CrewOf(p) == {f \in Crew[p] : firms[f] # None}

Completeness(p) ==
    LET assets == {a \in FleetOf(p) : ~AssetReady(a)}
        crew == {f \in CrewOf(p) : ~FirmReady(f)}
        suggested == {f \in crew : firms[f].status = "suggested"}
        blockingAssets == assets \cap Used
        blockingCrew == {f \in crew : p \in Demand \/ f \in Used}
        score == 100 - 18 * Cardinality(assets) - 12 * Cardinality(blockingAssets)
                     - 8 * Cardinality(suggested) - 14 * Cardinality(crew \ suggested)
                     - 10 * Cardinality(blockingCrew)
    IN  [tasks |-> assets \cup crew,
         blocking |-> blockingAssets \cup blockingCrew,
         score |-> Max({0, Min({100, score})}),
         status |-> IF blockingAssets \cup blockingCrew # {} THEN "blocked"
                    ELSE IF assets \cup crew # {} THEN "attention" ELSE "ready"]

(* What a user has confirmed, the type of an asset or the trade of a        *)
(* subcontractor, no other call takes back by what it infers from names:    *)
(* it goes only with a call that says what is to hold instead, or with one  *)
(* that had loaded the row before it was confirmed.                          *)
Confirmed(row) == row # None /\ row.status = "confirmed"

ConfirmationsStay ==
    [][/\ \A a \in Fleet : Confirmed(fleet[a]) /\ <<fleet'[a].type, fleet'[a].status>> # <<fleet[a].type, fleet[a].status>> =>
             \E s \in Sessions : CommitAsset(s) /\ call[s].of = a /\ (call[s].names \/ ~Confirmed(call[s].old))
       /\ \A f \in Firms : Confirmed(firms[f]) /\ <<firms'[f].trade, firms'[f].status>> # <<firms[f].trade, firms[f].status>> =>
             \E s \in Sessions : CommitFirm(s) /\ call[s].of = f /\ (call[s].names \/ ~Confirmed(call[s].old))
      ]_<<office, readiness>>

(* A project is shown as ready only if every asset of it has a type and     *)
(* every subcontractor a trade that planning counts, also in rows two calls *)
(* have written halves of: a rename that finds no type and a confirmation   *)
(* of the type the name had before leave "confirmed" without a type.  It is *)
(* shown with every thing that is missing, and it is blocked when one of    *)
(* them is in use.                                                           *)
ReadyMeansPlannable ==
    \A p \in Projects :
        LET c == Completeness(p) IN
        /\ c.status = "ready" => /\ \A a \in FleetOf(p) : fleet[a].type # None
                                 /\ \A f \in CrewOf(p) : firms[f].trade # None
        /\ c.status = "ready" <=> c.score = 100
        /\ c.status = "ready" <=> c.tasks = {}
        /\ \A f \in CrewOf(p) \cap Used : firms[f].trade = None => c.status = "blocked"
        /\ \A a \in FleetOf(p) \cap Used : fleet[a].type = None => c.status = "blocked"
================================================================================
