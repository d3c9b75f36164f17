------------------------------- MODULE AiService -------------------------------
(***************************************************************************)
(* The calls an upload makes to the AI provider (services/ai_service.py):  *)
(* permits shared by all calls of the process, timeouts and errors, the    *)
(* quota that ends the provider's use for the rest of the upload, the      *)
(* classification of its activities in batches and what is made of the     *)
(* answers.                                                                 *)
(*                                                                         *)
(* A permit is waited for in a thread and followed by a pause that spaces  *)
(* the calls; the pause takes as long as it takes here.                     *)
(***************************************************************************)
EXTENDS Integers, FiniteSets, Sequences, SequencesExt

CONSTANTS
    Blank,        \* nothing: an empty cell, hours nobody gave
    Slots,        \* AI_PROVIDER_MAX_CONCURRENT_REQUESTS
    BatchSize, Threshold, MaxParallel,
    AllTypes,     \* ALLOWED_ASSET_TYPES without "none" and "other"
    Keywords,     \* of a text: the types of its keywords, the longest first
    Phrases,      \* of a text: what _MULTI_ASSET_PHRASE_RULES say of it
    Replies,      \* what may be answered about one activity
    Detections    \* what may be answered about the columns, Blank for what is not a mapping

(* What is said of an activity: that it needs a type, how surely, and the   *)
(* hours if they are known, which no phrase knows.                          *)
Claim == [type : STRING, score : Int, hours : Nat \cup {Blank}]

ASSUME AiAssumption ==
    /\ BatchSize \in Nat \ {0}
    /\ \A text \in DOMAIN Phrases : Phrases[text] \in Seq({x \in Claim : x.hours = Blank})
    /\ \A text \in DOMAIN Keywords : Keywords[text] \in Seq(STRING)
    /\ Replies \subseteq Seq(Claim)

VARIABLES
    enabled,      \* AI_ENABLED, and there is a key
    suppressed,   \* suppress_ai of the upload's AIExecutionContext
    free,         \* permits
    at,           \* of a call: "waiting", "holding", "asking", "answered" or "failed"
    got           \* of an answered call: the answer

ai == <<enabled, suppressed, free, at, got>>

AiInit ==
    /\ enabled \in BOOLEAN
    /\ suppressed = FALSE
    /\ free = Slots
    /\ at = <<>> /\ got = <<>>

Calls == DOMAIN at
Running == {c \in Calls : at[c] \in {"waiting", "holding", "asking"}}

Extended(f, c, x) == [d \in DOMAIN f \cup {c} |-> IF d = c THEN x ELSE f[d]]

-----------------------------------------------------------------------------
(* _call_api; nothing asks for one while the provider is switched off.      *)
Ask(c) == at' = Extended(at, c, IF enabled /\ ~suppressed THEN "waiting" ELSE "failed")

Acquire(c) ==
    /\ at[c] = "waiting"
    /\ free > 0
    /\ free' = free - 1
    /\ at' = [at EXCEPT ![c] = "holding"]
    /\ UNCHANGED <<enabled, suppressed, got>>

(* Faulty variant: a call that fails keeps its permit. *)
KeptByFailure == free
ReturnedByFailure == free + 1

(* Faulty variant: the quota is not looked at after the wait. *)
NeverStopped == FALSE
Stopped == suppressed

Enter(c) ==
    /\ at[c] = "holding"
    /\ IF Stopped
       THEN at' = [at EXCEPT ![c] = "failed"] /\ free' = ReturnedByFailure
       ELSE at' = [at EXCEPT ![c] = "asking"] /\ UNCHANGED free
    /\ UNCHANGED <<enabled, suppressed, got>>

(* An answer about the columns, about some activities of a batch, or about  *)
(* the hours of a context; of an answer cut short what can be read counts.   *)
Answers(c, asked) ==
    CASE c[1] = "structure" -> Detections
      [] c[1] = "batch" -> UNION {[S -> Replies] : S \in (SUBSET asked) \ {{}}}
      [] c[1] = "profile" -> {"valid", "invalid"}

Answer(c, asked) ==
    /\ at[c] = "asking"
    /\ \E a \in Answers(c, asked) : got' = Extended(got, c, a)
    /\ at' = [at EXCEPT ![c] = "answered"]
    /\ free' = free + 1
    /\ UNCHANGED <<enabled, suppressed>>

(* A timeout, an error, an empty or unreadable answer; or the quota.        *)
Fail(c) ==
    /\ at[c] = "asking"
    /\ at' = [at EXCEPT ![c] = "failed"]
    /\ free' = ReturnedByFailure
    /\ suppressed' \in {suppressed, TRUE}
    /\ UNCHANGED <<enabled, got>>

-----------------------------------------------------------------------------
(* Batches.  Tasks are the texts of activities, a text being the name       *)
(* without its "Day 3 - ": of one text, the first is asked about.            *)
Asked(tasks) ==
    {i \in DOMAIN tasks : \A j \in DOMAIN tasks : tasks[j] = tasks[i] => i <= j}

Representative(tasks, i) == CHOOSE j \in Asked(tasks) : tasks[j] = tasks[i]

BatchCount(tasks) == (Cardinality(Asked(tasks)) + BatchSize - 1) \div BatchSize

Batch(tasks, k) ==
    {i \in Asked(tasks) : Cardinality({j \in Asked(tasks) : j < i}) \div BatchSize = k - 1}

Batches(tasks) == {<<"batch", k>> : k \in 1..BatchCount(tasks)}

(* Many activities are asked about in parallel, few one batch at a time.    *)
Limit(tasks) == IF Cardinality(Asked(tasks)) > Threshold THEN MaxParallel ELSE 1

AskBatch(tasks) ==
    \E k \in 1..BatchCount(tasks) :
        /\ <<"batch", k>> \notin Calls
        /\ \A j \in 1..(k - 1) : <<"batch", j>> \in Calls
        /\ Cardinality(Running) < Limit(tasks)
        /\ Ask(<<"batch", k>>)
        /\ UNCHANGED <<enabled, suppressed, free, got>>

Ended(S) == S \subseteq Calls \ Running

-----------------------------------------------------------------------------
(* What the name of an activity says: the first keyword of a valid type,    *)
(* and the phrases; of one type the better score.                            *)
Allowed(site) == IF site = {} THEN AllTypes ELSE site

Entry(table, text) == IF text \in DOMAIN table THEN table[text] ELSE <<>>

ByKeyword(text, site) ==
    LET hits == Entry(Keywords, text)
        valid == {n \in DOMAIN hits : hits[n] \in Allowed(site)}
    IN  {[type |-> hits[n], score |-> 78, hours |-> Blank] :
            n \in {m \in valid : \A l \in valid : m <= l}}

Better(found, x, types) ==
    IF x.type \notin types \/ \E y \in found : y.type = x.type /\ y.score >= x.score
    THEN found
    ELSE {y \in found : y.type # x.type} \cup {x}

Deterministic(text, site) ==
    LET said == Entry(Phrases, text)
        upto[n \in 0..Len(said)] ==
            IF n = 0 THEN ByKeyword(text, site)
            ELSE Better(upto[n - 1], said[n], Allowed(site))
    IN  upto[Len(said)]

(* _classify_assets_real: an item of an answer joins what is known.  Hours  *)
(* are inherited both ways (and so is the shape of the profile).             *)
(* Faulty variant: the weaker item's hours are lost. *)
JoinedAlone(found, x, types) ==
    Better({y \in found : y.type # x.type \/ y.score > x.score}, x, types)

Joined(found, x, types) ==
    LET old == {y \in found : y.type = x.type}
        Inheriting(y, z) == [y EXCEPT !.hours = IF @ = Blank THEN z.hours ELSE @]
    IN  IF x.type \notin types THEN found
        ELSE {y \in found : y.type # x.type}
             \cup (IF old = {} THEN {x}
                   ELSE {IF x.score >= y.score THEN Inheriting(x, y) ELSE Inheriting(y, x) : y \in old})

Answered(tasks) == {c \in Batches(tasks) \cap Calls : at[c] = "answered"}

RepliesFor(tasks, i) ==
    LET id == Representative(tasks, i)
        batches == {c \in Answered(tasks) : id \in DOMAIN got[c]}
    IN  IF batches = {} THEN <<>> ELSE got[CHOOSE c \in batches : TRUE][id]

Classified(tasks, site) ==
    [i \in DOMAIN tasks |->
        LET said == RepliesFor(tasks, i)
            upto[n \in 0..Len(said)] ==
                IF n = 0 THEN Deterministic(tasks[i], site)
                ELSE Joined(upto[n - 1], said[n], Allowed(site))
        IN  upto[Len(said)]]

(* _classify_assets_fallback *)
ByKeywords(tasks, site) == [i \in DOMAIN tasks |-> Deterministic(tasks[i], site)]
================================================================================
