----------------------------- MODULE TokenStore -----------------------------
(***************************************************************************)
(* The OAuth tokens of one HighLevel location: its row of oauth_tokens,    *)
(* the calls to HighLevel that read it and refresh it (when it is about to *)
(* expire, or on HTTP 401), and the installations that replace it, each    *)
(* started with a row of oauth_states.                                     *)
(*                                                                         *)
(* A refresh is a transaction that locks the row, asks HighLevel for new   *)
(* tokens and writes them.  HighLevel takes a refresh token once: if it    *)
(* answers with another one, the old one is used up.  Which access token a *)
(* call carries does not matter here; HighLevel may answer 401 to any.     *)
(***************************************************************************)
EXTENDS Naturals

CONSTANTS
    Calls,     \* HighLevelClient.doJSON calls, of the API and the workers
    Callbacks, \* requests to /oauth/callback
    States,    \* oauth_states.state values
    None,      \* nobody
    MaxTokens, \* bound on the refresh tokens HighLevel issues in a behaviour
    MaxFaults  \* bound on crashes and failed store calls in a behaviour

ASSUME TokenAssumption ==
    /\ None \notin Calls
    /\ MaxTokens \in Nat /\ MaxFaults \in Nat

VARIABLES
    row,       \* oauth_tokens: is there a row, is it about to expire, refresh_token
    lock,      \* the call that has locked the row
    states,    \* oauth_states: each state's row
    at,        \* each call: where it is, at which try, and the refresh tokens
               \*   it has read and got
    cb,        \* each callback: where it is, and the refresh token it got
    issued,    \* external: how many refresh tokens HighLevel has issued
    good,      \* external: those it would still take
    exchanges, \* history: codes exchanged on the strength of each state
    broken,    \* history: has a refresh token been lost since the installation?
    faults     \* how many crashes and store errors have happened

highlevel == <<issued, good>>
history == <<exchanges, broken>>
tokenVars == <<row, lock, states, at, cb, highlevel, history, faults>>
-----------------------------------------------------------------------------
Tokens == 0..MaxTokens   \* refresh tokens in the order of issue; 0 is the empty string

Row  == [status: {"absent", "fresh", "stale"}, refresh: Tokens]
Slot == [pc: {"idle", "lock", "refresh", "replace", "call"}, try: {1, 2},
         read: Tokens, got: Tokens]
Desk == [pc: {"idle", "exchange", "save"}, got: Tokens]

NoCall == [pc |-> "idle", try |-> 1, read |-> 0, got |-> 0]
Done == [pc |-> "idle", got |-> 0]

TokenInit ==
    /\ row = [status |-> "absent", refresh |-> 0]
    /\ lock = None
    /\ states = [s \in States |-> "absent"]
    /\ at = [p \in Calls |-> NoCall]
    /\ cb = [b \in Callbacks |-> Done]
    /\ issued = 0 /\ good = {}
    /\ exchanges = [s \in States |-> 0]
    /\ broken = FALSE
    /\ faults = 0

Fault == faults < MaxFaults /\ faults' = faults + 1

(* The row is about to expire: within 2 minutes.                           *)
Expire ==
    /\ row.status = "fresh"
    /\ row' = [row EXCEPT !.status = "stale"]
    /\ UNCHANGED <<lock, states, at, cb, highlevel, history, faults>>
-----------------------------------------------------------------------------
(* Installation.                                                           *)
CreateOAuthState(s) ==
    /\ states[s] = "absent"
    /\ states' = [states EXCEPT ![s] = "live"]
    /\ UNCHANGED <<row, lock, at, cb, highlevel, history, faults>>

StateExpires(s) ==
    /\ states[s] = "live"
    /\ states' = [states EXCEPT ![s] = "expired"]
    /\ UNCHANGED <<row, lock, at, cb, highlevel, history, faults>>

(* Mutant: the number of deleted rows is not looked at.                    *)
ConsumeOAuthState_AnyRows(b, s) ==
    /\ cb[b].pc = "idle"
    /\ states[s] \in {"live", "used"}
    /\ states' = [states EXCEPT ![s] = "used"]
    /\ cb' = [cb EXCEPT ![b] = [pc |-> "exchange", got |-> 0]]
    /\ exchanges' = [exchanges EXCEPT ![s] = @ + 1]
    /\ UNCHANGED <<row, lock, at, highlevel, broken, faults>>

(* One DELETE of a state that has not expired; without it the callback is  *)
(* refused.  Exchanging the code follows.                                  *)
ConsumeOAuthState(b, s) ==
    /\ cb[b].pc = "idle"
    /\ states[s] = "live"
    /\ states' = [states EXCEPT ![s] = "used"]
    /\ cb' = [cb EXCEPT ![b] = [pc |-> "exchange", got |-> 0]]
    /\ exchanges' = [exchanges EXCEPT ![s] = @ + 1]
    /\ UNCHANGED <<row, lock, at, highlevel, broken, faults>>

Issue == /\ issued < MaxTokens
         /\ issued' = issued + 1

(* HighLevel's answer has a refresh token, or none.                        *)
Exchange(b) ==
    /\ cb[b].pc = "exchange"
    /\ \/ /\ Issue
          /\ good' = good \cup {issued'}
          /\ cb' = [cb EXCEPT ![b] = [pc |-> "save", got |-> issued']]
       \/ /\ cb' = [cb EXCEPT ![b].pc = "save"]
          /\ UNCHANGED highlevel
    /\ UNCHANGED <<row, lock, states, at, history, faults>>

(* The exchange fails, SaveOAuthToken fails or the process dies.           *)
CallbackFails(b) ==
    /\ \/ cb[b].pc = "exchange" /\ UNCHANGED faults
       \/ cb[b].pc # "idle" /\ Fault
    /\ cb' = [cb EXCEPT ![b] = Done]
    /\ UNCHANGED <<row, lock, states, at, highlevel, history>>

(* Mutant: the row is overwritten under the lock of a refresh.             *)
SaveOAuthToken_Unlocked(b) ==
    /\ cb[b].pc = "save"
    /\ row' = [status |-> "fresh",
               refresh |-> IF cb[b].got = 0 THEN row.refresh ELSE cb[b].got]
    /\ broken' = (broken /\ cb[b].got = 0)
    /\ cb' = [cb EXCEPT ![b] = Done]
    /\ UNCHANGED <<lock, states, at, highlevel, exchanges, faults>>

(* The upsert waits for the lock of a refresh.  An empty refresh token     *)
(* leaves the one of an earlier installation.                              *)
SaveOAuthToken(b) ==
    /\ cb[b].pc = "save"
    /\ lock = None
    /\ row' = [status |-> "fresh",
               refresh |-> IF cb[b].got = 0 THEN row.refresh ELSE cb[b].got]
    /\ broken' = (broken /\ cb[b].got = 0)
    /\ cb' = [cb EXCEPT ![b] = Done]
    /\ UNCHANGED <<lock, states, at, highlevel, exchanges, faults>>
-----------------------------------------------------------------------------
(* A call to HighLevel.                                                    *)
GoTo(p, step) == at' = [at EXCEPT ![p].pc = step]
Release(p)    == at' = [at EXCEPT ![p] = NoCall]

(* Without a row there is a configured token or an error, and no refresh.  *)
Token(p) ==
    /\ at[p].pc = "idle"
    /\ row.status # "absent"
    /\ GoTo(p, IF row.status = "fresh" THEN "call" ELSE "lock")
    /\ UNCHANGED <<row, lock, states, cb, highlevel, history, faults>>

(* Mutant: the row is read without FOR UPDATE.                             *)
LockRow_Shared(p) ==
    /\ at[p].pc = "lock"
    /\ lock' = p
    /\ at' = [at EXCEPT ![p].pc = "refresh", ![p].read = row.refresh]
    /\ UNCHANGED <<row, states, cb, highlevel, history, faults>>

(* ReplaceOAuthToken begins: SELECT .. FOR UPDATE waits for its turn and   *)
(* returns the row as it is then.                                          *)
LockRow(p) ==
    /\ at[p].pc = "lock"
    /\ lock = None
    /\ lock' = p
    /\ at' = [at EXCEPT ![p].pc = "refresh", ![p].read = row.refresh]
    /\ UNCHANGED <<row, states, cb, highlevel, history, faults>>

(* HighLevel takes the refresh token, and uses it up if it issues another. *)
Rotate(p) ==
    /\ at[p].read \in good
    /\ Issue
    /\ good' = (good \ {at[p].read}) \cup {issued'}

(* An answer without a refresh token leaves the one there was.             *)
Refresh(p) ==
    /\ at[p].pc = "refresh"
    /\ \/ /\ Rotate(p)
          /\ at' = [at EXCEPT ![p].pc = "replace", ![p].got = issued']
       \/ /\ at[p].read \in good
          /\ at' = [at EXCEPT ![p].pc = "replace", ![p].got = at[p].read]
          /\ UNCHANGED highlevel
    /\ UNCHANGED <<row, lock, states, cb, history, faults>>

(* The row's transaction is rolled back and the call ends with an error.   *)
GiveUp(p) ==
    /\ lock' = (IF lock = p THEN None ELSE lock)
    /\ Release(p)
    /\ UNCHANGED <<row, states, cb, exchanges>>

(* Mutant: the transaction is left open.                                   *)
RefreshFails_LeftOpen(p) ==
    /\ at[p].pc = "refresh"
    /\ Release(p)
    /\ UNCHANGED <<row, lock, states, cb, highlevel, history, faults>>

(* HighLevel does not take the token, or there is none, or no answer.      *)
RefreshFails(p) ==
    /\ at[p].pc = "refresh"
    /\ GiveUp(p)
    /\ UNCHANGED <<highlevel, broken, faults>>

(* HighLevel has issued a token, but its answer is lost.                   *)
RefreshLost(p) ==
    /\ at[p].pc = "refresh"
    /\ Rotate(p)
    /\ GiveUp(p)
    /\ broken' = TRUE
    /\ UNCHANGED faults

(* Mutant: the new refresh token is not written.                           *)
ReplaceOAuthToken_AccessOnly(p) ==
    /\ at[p].pc = "replace"
    /\ row' = [row EXCEPT !.status = "fresh"]
    /\ lock' = None
    /\ GoTo(p, "call")
    /\ UNCHANGED <<states, cb, highlevel, history, faults>>

ReplaceOAuthToken(p) ==
    /\ at[p].pc = "replace"
    /\ row' = [status |-> "fresh", refresh |-> at[p].got]
    /\ lock' = None
    /\ GoTo(p, "call")
    /\ UNCHANGED <<states, cb, highlevel, history, faults>>

(* UPDATE or COMMIT fails, or the process dies: what was got is lost.      *)
Abort(p) ==
    /\ at[p].pc # "idle"
    /\ Fault
    /\ GiveUp(p)
    /\ broken' = (broken \/ (at[p].pc = "replace" /\ at[p].got # at[p].read))
    /\ UNCHANGED highlevel

(* The request to HighLevel.  A 401 is answered by one forced refresh and  *)
(* a second try.                                                           *)
Call(p) ==
    /\ at[p].pc = "call"
    /\ \/ Release(p)
       \/ /\ at[p].try = 1
          /\ at' = [at EXCEPT ![p].pc = "lock", ![p].try = 2]
    /\ UNCHANGED <<row, lock, states, cb, highlevel, history, faults>>

Step(p) == \/ Refresh(p) \/ RefreshFails(p) \/ RefreshLost(p)
           \/ ReplaceOAuthToken(p) \/ Call(p)

TokenNext ==
    \/ Expire
    \/ \E s \in States : CreateOAuthState(s) \/ StateExpires(s)
    \/ \E b \in Callbacks, s \in States : ConsumeOAuthState(b, s)
    \/ \E b \in Callbacks : Exchange(b) \/ CallbackFails(b) \/ SaveOAuthToken(b)
    \/ \E p \in Calls : Token(p) \/ LockRow(p) \/ Step(p) \/ Abort(p)

TokenSpec == TokenInit /\ [][TokenNext]_tokenVars

(* Fairness.  HTTP calls have timeouts; PostgreSQL gives a row lock to     *)
(* those who wait for it in turn.                                          *)
TokenFairness == \A p \in Calls : WF_tokenVars(Step(p)) /\ SF_tokenVars(LockRow(p))

-----------------------------------------------------------------------------
(* Properties.                                                             *)

TokenTypeOK ==
    /\ row \in Row
    /\ lock \in Calls \cup {None}
    /\ lock # None => row.status # "absent"
    /\ states \in [States -> {"absent", "live", "expired", "used"}]
    /\ at \in [Calls -> Slot]
    /\ cb \in [Callbacks -> Desk]
    /\ issued \in Tokens
    /\ good \in SUBSET (1..issued)
    /\ exchanges \in [States -> Nat]
    /\ broken \in BOOLEAN
    /\ faults \in 0..MaxFaults

(* A refresh replaces the tokens it was made from: neither another refresh *)
(* nor an installation changes the row between its reading and its         *)
(* writing, although HighLevel is asked in between, so that a refresh      *)
(* never undoes an installation.                                           *)
ReadIsCurrent ==
    \A p \in Calls : at[p].pc \in {"refresh", "replace"} =>
        lock = p /\ at[p].read = row.refresh

(* Only a lost answer or a failed write makes a call present a refresh     *)
(* token that is used up; many calls that find the row expired, or meet a  *)
(* 401, at the same time do not.                                           *)
NoUsedTokenPresented ==
    \A p \in Calls : at[p].pc = "refresh" /\ at[p].read # 0 /\ ~broken =>
        at[p].read \in good

(* The location stays connected: whenever no refresh is under way, the     *)
(* refresh token in the row is one HighLevel would take.                   *)
StaysConnected ==
    row.refresh # 0 /\ ~broken /\ (\A p \in Calls : at[p].pc # "replace") =>
        row.refresh \in good

(* "The callback rejects missing, expired, or reused states", also when    *)
(* two callbacks with the same state come at once.                         *)
SingleUseState ==
    \A s \in States : exchanges[s] <= 1

(* If steps are fair no call waits for ever for the row, whatever becomes  *)
(* of the refreshes before its own.                                        *)
EveryCallEnds ==
    TokenFairness => \A p \in Calls : at[p].pc = "lock" ~> at[p].pc = "idle"
=============================================================================
