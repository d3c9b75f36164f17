-------------------------------- MODULE Tokens --------------------------------
(***************************************************************************)
(* Tokens of users and subcontractors: core/security.py and                *)
(* api/v1/auth.py.  A token is signed and never stored; what a process     *)
(* keeps is the blacklist of the tokens it revoked, until they expire.     *)
(*                                                                         *)
(* Time runs in halves of a second, because the signature library compares *)
(* whole seconds and the blacklist does not: an even time is the start of a *)
(* second.                                                                  *)
(***************************************************************************)
EXTENDS Office, FiniteSets

CONSTANTS
    Accounts, Owners,   \* Owners: the users, the other accounts are subcontractors
    TokenIds, Issued, Accounts0,
    Processes,
    Keep,               \* entries a blacklist holds before it is cleaned up
    MaxTime

ASSUME TokensAssumption ==
    /\ DOMAIN Accounts0 = Accounts
    /\ Issued \in [TokenIds -> {None} \cup [type : {"access", "refresh"}, of : Accounts, exp : Nat]]

VARIABLES
    now,
    account,   \* None or [active, password, verified]
    token,     \* tokens that were issued: [type, of, exp]
    blacklist, \* of a process: the tokens in its dictionary
    revoked    \* of a process: all it ever revoked

tokens == <<now, account, token, blacklist, revoked>>

Life == [access |-> 1, refresh |-> 2, reset |-> 1, verify |-> 2]

TokensInit ==
    /\ now = 0
    /\ account = Accounts0
    /\ token = Issued
    /\ blacklist = [p \in Processes |-> {}]
    /\ revoked = [p \in Processes |-> {}]

New(type, a) == [type |-> type, of |-> a, exp |-> now \div 2 + Life[type]]

(* build_token_response: an access and a refresh token. *)
Pairs(a) ==
    {[token EXCEPT ![kl[1]] = New("access", a), ![kl[2]] = New("refresh", a)] :
        kl \in {xy \in Unused(token) \X Unused(token) : xy[1] # xy[2]}}

(* create_verification_token, create_password_reset_token *)
Mails(type, a) == {[token EXCEPT ![k] = New(type, a)] : k \in Unused(token)}

-----------------------------------------------------------------------------
(* TokenBlacklist: entries are forgotten once they are past their expiry    *)
(* time, by the lookup that meets them or by the clean-up of a full one.    *)
Past(k) == now > 2 * token[k].exp

Looked(p, k) == [blacklist EXCEPT ![p] = IF Past(k) THEN @ \ {k} ELSE @]

Blacklisted(p, k) == k \in blacklist[p] /\ ~Past(k)

(* Faulty variant: a full blacklist is emptied. *)
Emptied(entries) == {}
CleanedUp(entries) == {k \in entries : 2 * token[k].exp > now}

Added(p, k) ==
    LET entries == blacklist[p] \cup {k}
    IN  [blacklist EXCEPT ![p] = IF Cardinality(entries) > Keep THEN CleanedUp(entries) ELSE entries]

Revoke(p, k) ==
    /\ blacklist' = Added(p, k)
    /\ revoked' = [revoked EXCEPT ![p] = @ \cup {k}]

(* verify_token: a token is good through its last second; only the ones     *)
(* without an identity, those that verify an address, are never looked up.   *)
Good(p, k, type) ==
    /\ token[k] # None /\ token[k].type = type
    /\ token[k].exp >= now \div 2
    /\ type # "verify" => ~Blacklisted(p, k)

(* A call that presents a good token, and what it does next. *)
Presents(s, p, k, type, op, at) ==
    /\ Good(p, k, type)
    /\ blacklist' = Looked(p, k)
    /\ Begins(s, [op |-> op, at |-> at, in |-> p, token |-> k, of |-> token[k].of])
    /\ UNCHANGED <<now, token, revoked>>

-----------------------------------------------------------------------------
Login(s) ==
    \E a \in Accounts \ Unused(account) :
        /\ account[a].active
        /\ token' \in Pairs(a)
        /\ Answers(s)
        /\ UNCHANGED <<now, account, blacklist, revoked>>

Register(s) ==
    \E a \in Unused(account) \cap Owners :
        /\ account' = [account EXCEPT ![a] = [active |-> TRUE, password |-> 0, verified |-> FALSE]]
        /\ token' \in Mails("verify", a)
        /\ Answers(s)
        /\ UNCHANGED <<now, blacklist, revoked>>

(* forgot_password, resend_verification *)
SendMail(s) ==
    \E a \in Accounts \ Unused(account), type \in {"reset", "verify"} :
        /\ type = "verify" => a \in Owners /\ ~account[a].verified
        /\ token' \in Mails(type, a)
        /\ Answers(s)
        /\ UNCHANGED <<now, account, blacklist, revoked>>

VerifyEmail(s) ==
    \E p \in Processes, k \in TokenIds :
        /\ Good(p, k, "verify")
        /\ account' = [account EXCEPT ![token[k].of].verified = TRUE]
        /\ Answers(s)
        /\ UNCHANGED <<now, token, blacklist, revoked>>

(* refresh_token: it looks up subcontractors in a way that always fails.    *)
VerifyRefresh(s) ==
    \E p \in Processes, k \in TokenIds :
        /\ Presents(s, p, k, "refresh", "refresh", "rotate")
        /\ token[k].of \in Owners
        /\ account[token[k].of].active
        /\ UNCHANGED account

Rotate(s) ==
    /\ At(s, "refresh", "rotate")
    /\ Revoke(call[s].in, call[s].token)
    /\ token' \in Pairs(call[s].of)
    /\ Ends(s)
    /\ UNCHANGED <<now, account>>

(* logout verifies the token its guard has verified once more. *)
AskLogout(s) ==
    \E p \in Processes, k \in TokenIds :
        Presents(s, p, k, "access", "logout", "revoke") /\ UNCHANGED account

Logout(s) ==
    /\ At(s, "logout", "revoke")
    /\ LET c == call[s]
       IN  IF Good(c.in, c.token, "access") THEN Revoke(c.in, c.token)
           ELSE UNCHANGED <<blacklist, revoked>>
    /\ Ends(s)
    /\ UNCHANGED <<now, account, token>>

-----------------------------------------------------------------------------
(* change_password and reset_password: the tokens issued before stay good.  *)
AskPassword(s) ==
    \E p \in Processes, k \in TokenIds, type \in {"access", "reset"} :
        Presents(s, p, k, type, IF type = "access" THEN "change" ELSE "reset", "write") /\ UNCHANGED account

(* Another password, which is all that matters of it. *)
WritePassword(s) ==
    /\ \E op \in {"change", "reset"} :
         /\ At(s, op, "write")
         /\ IF op = "reset" THEN call' = [call EXCEPT ![s].at = "activate"] /\ UNCHANGED calls ELSE Ends(s)
    /\ account' = [account EXCEPT ![call[s].of].password = 1 - @]
    /\ UNCHANGED <<now, token, blacklist, revoked>>

(* A reset also activates the account. *)
Reactivate(s) ==
    /\ At(s, "reset", "activate")
    /\ account' = [account EXCEPT ![call[s].of].active = TRUE]
    /\ Ends(s)
    /\ UNCHANGED <<now, token, blacklist, revoked>>

(* An administrator activates or deactivates an account. *)
Toggle(s) ==
    \E a \in Accounts \ Unused(account) :
        /\ account' = [account EXCEPT ![a].active = ~@]
        /\ Answers(s)
        /\ UNCHANGED <<now, token, blacklist, revoked>>

Restart(p) ==
    /\ blacklist' = [blacklist EXCEPT ![p] = {}]
    /\ revoked' = [revoked EXCEPT ![p] = {}]
    /\ call' = [s \in Sessions |-> IF call[s] # Idle /\ call[s].in = p THEN Idle ELSE call[s]]
    /\ UNCHANGED <<calls, now, account, token>>

PassTime ==
    /\ now < MaxTime
    /\ now' = now + 1
    /\ UNCHANGED <<office, account, token, blacklist, revoked>>

TokensNext ==
    \/ \E s \in Sessions :
         \/ Login(s) \/ Register(s) \/ SendMail(s) \/ VerifyEmail(s)
         \/ VerifyRefresh(s) \/ Rotate(s)
         \/ AskLogout(s) \/ Logout(s)
         \/ AskPassword(s) \/ WritePassword(s) \/ Reactivate(s)
         \/ Toggle(s)
    \/ \E p \in Processes : Restart(p)
    \/ PassTime

TokensSpec == OfficeInit /\ TokensInit /\ [][TokensNext]_<<office, tokens>>

-----------------------------------------------------------------------------
(* A process never accepts a token again that it revoked, by logout or by   *)
(* rotation, however often its blacklist was cleaned up, but for the last   *)
(* moments of the token's last second.                                       *)
RevocationsHold ==
    [][\A s \in Sessions :
          call[s] = Idle /\ call'[s] # Idle /\ "token" \in DOMAIN call'[s] =>
              LET c == call'[s]
              IN  c.token \in revoked[c.in] => now >= 2 * token[c.token].exp]_<<office, tokens>>
================================================================================
