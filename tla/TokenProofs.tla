---------------------------- MODULE TokenProofs ----------------------------
(***************************************************************************)
(* Theorems about TokenStore, for any calls, callbacks, states and bounds. *)
(* The argument: the row lock makes what a refresh has read the current    *)
(* row (ReadIsCurrent), so the only token a refresh can use up is the one  *)
(* in the row, which it then replaces (GoodInv).                           *)
(***************************************************************************)
EXTENDS TokenStore, TLAPS

(* A call is under way only once there is a row.                           *)
TokenTypeInv == /\ TokenTypeOK
           /\ \A p \in Calls : at[p].pc # "idle" => row.status # "absent"

LEMMA TokenInitType == TokenInit => TokenTypeInv
<1> SUFFICES ASSUME TokenInit PROVE TokenTypeInv
  OBVIOUS
<1> USE TokenAssumption DEF TokenInit
<1>1. row \in Row /\ 0 \in Tokens /\ issued \in Tokens
  BY DEF Row, Tokens
<1>2. at \in [Calls -> Slot]
  BY <1>1 DEF Slot, NoCall
<1>3. cb \in [Callbacks -> Desk]
  BY <1>1 DEF Desk, Done
<1>4. \A p \in Calls : at[p].pc = "idle"
  BY DEF NoCall
<1>5. states \in [States -> {"absent", "live", "expired", "used"}]
      /\ exchanges \in [States -> Nat]
  OBVIOUS
<1>6. faults \in 0..MaxFaults /\ lock \in Calls \cup {None} /\ good \in SUBSET (1..issued)
  OBVIOUS
<1>7. broken \in BOOLEAN
  OBVIOUS
<1>8. ~(lock # None)
  OBVIOUS
<1> HIDE DEF TokenInit
<1> QED  BY <1>1, <1>2, <1>3, <1>4, <1>5, <1>6, <1>7, <1>8 DEF TokenTypeInv, TokenTypeOK

LEMMA SlotStep ==
    ASSUME NEW p \in Calls, at \in [Calls -> Slot],
           NEW step \in {"idle", "lock", "refresh", "replace", "call"}, GoTo(p, step)
    PROVE  at' \in [Calls -> Slot]
  BY DEF GoTo, Slot

LEMMA SlotRelease ==
    ASSUME NEW p \in Calls, at \in [Calls -> Slot], Release(p)
    PROVE  at' \in [Calls -> Slot]
  BY TokenAssumption DEF Release, Slot, NoCall, Tokens

LEMMA TokenNextType == TokenTypeInv /\ [TokenNext]_tokenVars => TokenTypeInv'
<1> SUFFICES ASSUME TokenTypeInv, [TokenNext]_tokenVars PROVE TokenTypeInv'
  OBVIOUS
<1> USE TokenAssumption DEF TokenTypeInv, TokenTypeOK
<1>1. CASE UNCHANGED tokenVars
  BY <1>1 DEF tokenVars, highlevel, history
<1>2. CASE Expire
  BY <1>2 DEF Expire, Row, highlevel, history
<1>3. ASSUME NEW s \in States, CreateOAuthState(s) \/ StateExpires(s) PROVE TokenTypeInv'
  BY <1>3 DEF CreateOAuthState, StateExpires, highlevel, history
<1>4. ASSUME NEW b \in Callbacks, NEW s \in States, ConsumeOAuthState(b, s) PROVE TokenTypeInv'
  BY <1>4 DEF ConsumeOAuthState, Desk, Tokens, highlevel
<1>5. ASSUME NEW b \in Callbacks, Exchange(b) PROVE TokenTypeInv'
  BY <1>5 DEF Exchange, Issue, Desk, Tokens, highlevel, history
<1>6. ASSUME NEW b \in Callbacks, CallbackFails(b) PROVE TokenTypeInv'
  BY <1>6 DEF CallbackFails, Fault, Done, Desk, Tokens, highlevel, history
<1>7. ASSUME NEW b \in Callbacks, SaveOAuthToken(b) PROVE TokenTypeInv'
  <2>1. row' \in Row /\ row'.status = "fresh"
    BY <1>7 DEF SaveOAuthToken, Row, Desk
  <2> QED  BY <1>7, <2>1 DEF SaveOAuthToken, Done, Desk, Tokens, highlevel
<1>8. ASSUME NEW p \in Calls, Token(p) PROVE TokenTypeInv'
  <2>1. at' \in [Calls -> Slot]
    BY <1>8, SlotStep DEF Token
  <2> QED  BY <1>8, <2>1 DEF Token, GoTo, highlevel, history
<1>9. ASSUME NEW p \in Calls, LockRow(p) PROVE TokenTypeInv'
  <2>1. at' \in [Calls -> Slot]
    <3>1. at' = [at EXCEPT ![p].pc = "refresh", ![p].read = row.refresh]
      BY <1>9 DEF LockRow
    <3>2. row.refresh \in Tokens /\ at \in [Calls -> Slot] /\ at[p] \in Slot
      BY DEF Row
    <3> HIDE DEF TokenTypeInv, TokenTypeOK
    <3>3. [at[p] EXCEPT !.pc = "refresh", !.read = row.refresh] \in Slot
      BY <3>2 DEF Slot
    <3> QED  BY <3>1, <3>2, <3>3
  <2>2. row.status # "absent"
    BY <1>9 DEF LockRow
  <2> QED  BY <1>9, <2>1, <2>2 DEF LockRow, highlevel, history
<1>10. ASSUME NEW p \in Calls, Refresh(p) PROVE TokenTypeInv'
  <2>1. at' \in [Calls -> Slot] /\ issued' \in Tokens /\ good' \in SUBSET (1..issued')
    BY <1>10 DEF Refresh, Rotate, Issue, Slot, Tokens, highlevel
  <2>2. row.status # "absent"
    BY <1>10 DEF Refresh
  <2> QED  BY <1>10, <2>1, <2>2 DEF Refresh, history
<1>11. ASSUME NEW p \in Calls, GiveUp(p),
              issued' \in Tokens, good' \in SUBSET (1..issued'),
              broken' \in BOOLEAN, faults' \in 0..MaxFaults
       PROVE  TokenTypeInv'
  <2>1. at' \in [Calls -> Slot]
    BY <1>11, SlotRelease DEF GiveUp
  <2> QED  BY <1>11, <2>1 DEF GiveUp, Release, NoCall
<1>12. ASSUME NEW p \in Calls, RefreshFails(p) PROVE TokenTypeInv'
  BY <1>11, <1>12 DEF RefreshFails, highlevel
<1>13. ASSUME NEW p \in Calls, RefreshLost(p) PROVE TokenTypeInv'
  <2>1. issued' \in Tokens /\ good' \in SUBSET (1..issued')
    <3>1. issued \in Nat /\ issued + 1 \in Tokens /\ issued' = issued + 1
      BY <1>13 DEF RefreshLost, Rotate, Issue, Tokens
    <3>2. good' = (good \ {at[p].read}) \cup {issued'}
      BY <1>13 DEF RefreshLost, Rotate
    <3>3. \A t \in good' : t \in 1..issued'
      <4>1. \A t \in good : t \in 1..issued
        OBVIOUS
      <4> QED  BY <3>1, <3>2, <4>1
    <3> QED  BY <3>1, <3>3
  <2> QED  BY <1>11, <1>13, <2>1 DEF RefreshLost
<1>14. ASSUME NEW p \in Calls, ReplaceOAuthToken(p) PROVE TokenTypeInv'
  <2>1. at' \in [Calls -> Slot]
    BY <1>14, SlotStep DEF ReplaceOAuthToken
  <2>2. row' \in Row /\ row'.status = "fresh"
    BY <1>14 DEF ReplaceOAuthToken, Row, Slot
  <2> QED  BY <1>14, <2>1, <2>2 DEF ReplaceOAuthToken, highlevel, history
<1>15. ASSUME NEW p \in Calls, Call(p) PROVE TokenTypeInv'
  <2>1. at' \in [Calls -> Slot]
    BY <1>15, SlotRelease DEF Call, Slot
  <2>2. row.status # "absent"
    BY <1>15 DEF Call
  <2> QED  BY <1>15, <2>1, <2>2 DEF Call, highlevel, history
<1>16. ASSUME NEW p \in Calls, Abort(p) PROVE TokenTypeInv'
  BY <1>11, <1>16 DEF Abort, Fault, highlevel
<1> QED
  BY <1>1, <1>2, <1>3, <1>4, <1>5, <1>6, <1>7, <1>8, <1>9, <1>10, <1>12, <1>13, <1>14,
     <1>15, <1>16 DEF TokenNext, Step

(* Every variable keeps its type, and the row is locked only if there is   *)
(* one: ReplaceOAuthToken is never entered for a location without tokens.  *)
THEOREM TokenTypeCorrect == TokenSpec => []TokenTypeOK
<1>1. TokenSpec => []TokenTypeInv
  BY TokenInitType, TokenNextType, PTL DEF TokenSpec
<1>2. TokenTypeInv => TokenTypeOK
  BY DEF TokenTypeInv
<1> QED  BY <1>1, <1>2, PTL
-----------------------------------------------------------------------------
LEMMA NextRead == TokenTypeInv /\ ReadIsCurrent /\ [TokenNext]_tokenVars => ReadIsCurrent'
<1> SUFFICES ASSUME TokenTypeInv, ReadIsCurrent, [TokenNext]_tokenVars PROVE ReadIsCurrent'
  OBVIOUS
<1>0. at \in [Calls -> Slot] /\ None \notin Calls
  BY TokenAssumption DEF TokenTypeInv, TokenTypeOK
<1> USE <1>0 DEF ReadIsCurrent
<1>1. CASE UNCHANGED tokenVars
  BY <1>1 DEF tokenVars
<1>2. CASE Expire
  BY <1>2 DEF Expire
<1>3. ASSUME NEW s \in States, CreateOAuthState(s) \/ StateExpires(s) PROVE ReadIsCurrent'
  BY <1>3 DEF CreateOAuthState, StateExpires
<1>4. ASSUME NEW b \in Callbacks, NEW s \in States, ConsumeOAuthState(b, s)
      PROVE  ReadIsCurrent'
  BY <1>4 DEF ConsumeOAuthState
<1>5. ASSUME NEW b \in Callbacks, Exchange(b) \/ CallbackFails(b) PROVE ReadIsCurrent'
  BY <1>5 DEF Exchange, CallbackFails
<1>6. ASSUME NEW b \in Callbacks, SaveOAuthToken(b) PROVE ReadIsCurrent'
  BY <1>6 DEF SaveOAuthToken
<1>7. ASSUME NEW p \in Calls, Token(p) PROVE ReadIsCurrent'
  BY <1>7 DEF Token, GoTo, Slot
<1>8. ASSUME NEW p \in Calls, LockRow(p) PROVE ReadIsCurrent'
  BY <1>8 DEF LockRow, Slot
<1>9. ASSUME NEW p \in Calls, Refresh(p) PROVE ReadIsCurrent'
  BY <1>9 DEF Refresh, Slot
<1>10. ASSUME NEW p \in Calls, GiveUp(p) PROVE ReadIsCurrent'
  BY <1>10 DEF GiveUp, Release, Slot, NoCall
<1>11. ASSUME NEW p \in Calls, RefreshFails(p) \/ RefreshLost(p) \/ Abort(p)
       PROVE  ReadIsCurrent'
  BY <1>10, <1>11 DEF RefreshFails, RefreshLost, Abort
<1>12. ASSUME NEW p \in Calls, ReplaceOAuthToken(p) PROVE ReadIsCurrent'
  BY <1>12 DEF ReplaceOAuthToken, GoTo, Slot
<1>13. ASSUME NEW p \in Calls, Call(p) PROVE ReadIsCurrent'
  BY <1>13 DEF Call, Release, Slot, NoCall
<1> QED
  BY <1>1, <1>2, <1>3, <1>4, <1>5, <1>6, <1>7, <1>8, <1>9, <1>11, <1>12, <1>13
  DEF TokenNext, Step

(* A refresh replaces the row it has read: neither another refresh nor an  *)
(* installation gets in between, although HighLevel is asked meanwhile.    *)
THEOREM ReadTheorem == TokenSpec => []ReadIsCurrent
<1>1. TokenInit => ReadIsCurrent
  BY DEF TokenInit, ReadIsCurrent, NoCall
<1>2. TokenSpec => []TokenTypeInv
  BY TokenInitType, TokenNextType, PTL DEF TokenSpec
<1> QED  BY <1>1, <1>2, NextRead, PTL DEF TokenSpec
-----------------------------------------------------------------------------
(* A call that is about to write a token, and a callback that is about to  *)
(* save one.                                                               *)
Writing(p) == at[p].pc = "replace"
Saving(b)  == cb[b].pc = "save" /\ cb[b].got # 0

(* No token is used up while somebody relies on it: the tokens in the row, *)
(* in the hands of the refreshing call and in those of each callback are   *)
(* different, and HighLevel would take each of them.                       *)
GoodInv ==
    /\ StaysConnected
    /\ \A p \in Calls : Writing(p) => /\ at[p].got # 0
                                      /\ ~broken => at[p].got \in good
    /\ \A b \in Callbacks : Saving(b) => cb[b].got \in good /\ cb[b].got # row.refresh
    /\ \A b \in Callbacks, p \in Calls :
          Saving(b) /\ Writing(p) => cb[b].got # at[p].got
    /\ \A b, c \in Callbacks : Saving(b) /\ Saving(c) /\ b # c => cb[b].got # cb[c].got

(* Nothing is held of a token that was not issued yet.                     *)
IssuedInv ==
    /\ row.refresh <= issued
    /\ \A p \in Calls : Writing(p) => at[p].got <= issued
    /\ \A b \in Callbacks : cb[b].got <= issued
    /\ \A b \in Callbacks : cb[b].pc = "exchange" => cb[b].got = 0

LEMMA ExchangeEffect ==
    ASSUME TokenTypeInv, IssuedInv, NEW b \in Callbacks, Exchange(b)
    PROVE  /\ UNCHANGED <<row, at, broken>>
           /\ \A c \in Callbacks \ {b} : cb'[c] = cb[c]
           /\ cb'[b].pc = "save"
           /\ \/ cb'[b].got = issued' /\ issued' = issued + 1 /\ good' = good \cup {issued'}
              \/ cb'[b].got = 0 /\ issued' = issued /\ good' = good
<1>1. cb \in [Callbacks -> Desk] /\ cb[b].pc = "exchange" /\ cb[b].got = 0
  BY DEF TokenTypeInv, TokenTypeOK, IssuedInv, Exchange
<1>2. UNCHANGED <<row, at, broken>> /\ \A c \in Callbacks \ {b} : cb'[c] = cb[c]
  BY <1>1 DEF Exchange, history
<1>3. CASE cb' = [cb EXCEPT ![b].pc = "save"] /\ UNCHANGED highlevel
  <2>1. cb'[b] = [cb[b] EXCEPT !.pc = "save"]
    BY <1>1, <1>3
  <2>2. cb'[b].pc = "save" /\ cb'[b].got = 0
    BY <1>1, <2>1 DEF Desk
  <2> QED  BY <1>2, <1>3, <2>2 DEF highlevel
<1>4. CASE /\ Issue
           /\ good' = good \cup {issued'}
           /\ cb' = [cb EXCEPT ![b] = [pc |-> "save", got |-> issued']]
  BY <1>1, <1>2, <1>4 DEF Issue
<1> QED  BY <1>3, <1>4 DEF Exchange

LEMMA NextIssued == TokenTypeInv /\ ReadIsCurrent /\ IssuedInv /\ [TokenNext]_tokenVars => IssuedInv'
<1> SUFFICES ASSUME TokenTypeInv, ReadIsCurrent, IssuedInv, [TokenNext]_tokenVars PROVE IssuedInv'
  OBVIOUS
<1>0. /\ at \in [Calls -> Slot] /\ cb \in [Callbacks -> Desk]
      /\ issued \in Nat /\ row \in Row
      /\ \A t \in Tokens : t \in Nat
  BY TokenAssumption DEF TokenTypeInv, TokenTypeOK, Tokens
<1> USE <1>0 DEF IssuedInv, Writing
<1>1. CASE UNCHANGED tokenVars
  BY <1>1 DEF tokenVars, highlevel
<1>2. CASE Expire
  BY <1>2 DEF Expire, Row, highlevel
<1>3. ASSUME NEW s \in States, CreateOAuthState(s) \/ StateExpires(s) PROVE IssuedInv'
  BY <1>3 DEF CreateOAuthState, StateExpires, highlevel
<1>4. ASSUME NEW b \in Callbacks, NEW s \in States, ConsumeOAuthState(b, s)
      PROVE  IssuedInv'
  BY <1>4 DEF ConsumeOAuthState, highlevel, Desk
<1>5. ASSUME NEW b \in Callbacks, Exchange(b) PROVE IssuedInv'
  BY <1>5, ExchangeEffect DEF Desk, Slot, Row
<1>6. ASSUME NEW b \in Callbacks, CallbackFails(b) PROVE IssuedInv'
  BY <1>6 DEF CallbackFails, Done, highlevel, Desk
<1>7. ASSUME NEW b \in Callbacks, SaveOAuthToken(b) PROVE IssuedInv'
  BY <1>7 DEF SaveOAuthToken, Done, highlevel, Desk
<1>8. ASSUME NEW p \in Calls, Token(p) PROVE IssuedInv'
  BY <1>8 DEF Token, GoTo, highlevel, Slot
<1>9. ASSUME NEW p \in Calls, LockRow(p) PROVE IssuedInv'
  BY <1>9 DEF LockRow, highlevel, Slot
<1>10. ASSUME NEW p \in Calls, Refresh(p) PROVE IssuedInv'
  <2>1. at[p].read <= issued
    BY <1>10 DEF Refresh, ReadIsCurrent
  <2>2. issued' \in Nat /\ issued <= issued'
    BY <1>10 DEF Refresh, Rotate, Issue, highlevel
  <2>3. at'[p].got <= issued' /\ \A q \in Calls \ {p} : at'[q] = at[q]
    BY <1>10, <2>1, <2>2 DEF Refresh, Rotate, Slot
  <2>4. UNCHANGED <<row, cb>>
    BY <1>10 DEF Refresh
  <2> QED  BY <2>2, <2>3, <2>4 DEF Slot, Desk, Row
<1>11. ASSUME NEW p \in Calls, GiveUp(p), issued' \in {issued, issued + 1}
       PROVE  IssuedInv'
  BY <1>11 DEF GiveUp, Release, NoCall, Slot, Desk, Row
<1>12. ASSUME NEW p \in Calls, RefreshFails(p) \/ RefreshLost(p) \/ Abort(p)
       PROVE  IssuedInv'
  BY <1>11, <1>12 DEF RefreshFails, RefreshLost, Rotate, Issue, Abort, highlevel
<1>13. ASSUME NEW p \in Calls, ReplaceOAuthToken(p) PROVE IssuedInv'
  BY <1>13 DEF ReplaceOAuthToken, GoTo, highlevel, Slot
<1>14. ASSUME NEW p \in Calls, Call(p) PROVE IssuedInv'
  BY <1>14 DEF Call, Release, NoCall, highlevel, Slot
<1> QED
  BY <1>1, <1>2, <1>3, <1>4, <1>5, <1>6, <1>7, <1>8, <1>9, <1>10, <1>12, <1>13, <1>14
  DEF TokenNext, Step

LEMMA NextGood ==
    TokenTypeInv /\ ReadIsCurrent /\ IssuedInv /\ GoodInv /\ [TokenNext]_tokenVars => GoodInv'
<1> SUFFICES ASSUME TokenTypeInv, ReadIsCurrent, IssuedInv, GoodInv, [TokenNext]_tokenVars
             PROVE  GoodInv'
  OBVIOUS
<1>0. /\ at \in [Calls -> Slot] /\ cb \in [Callbacks -> Desk]
      /\ issued \in Nat /\ row \in Row /\ broken \in BOOLEAN
      /\ \A t \in Tokens : t \in Nat
  BY TokenAssumption DEF TokenTypeInv, TokenTypeOK, Tokens
<1> USE <1>0 DEF GoodInv, StaysConnected, Writing, Saving
<1>1. CASE UNCHANGED tokenVars
  BY <1>1 DEF tokenVars, highlevel, history
<1>2. CASE Expire
  BY <1>2 DEF Expire, Row, highlevel, history
<1>3. ASSUME NEW s \in States, CreateOAuthState(s) \/ StateExpires(s) PROVE GoodInv'
  BY <1>3 DEF CreateOAuthState, StateExpires, highlevel, history
<1>4. ASSUME NEW b \in Callbacks, NEW s \in States, ConsumeOAuthState(b, s)
      PROVE  GoodInv'
  BY <1>4 DEF ConsumeOAuthState, highlevel, Desk
<1>5. ASSUME NEW b \in Callbacks, Exchange(b) PROVE GoodInv'
  <2>1. /\ UNCHANGED <<row, at, broken>> /\ good \subseteq good'
        /\ \A c \in Callbacks \ {b} : cb'[c] = cb[c]
    BY <1>5, ExchangeEffect
  <2>2. CASE cb'[b].got = issued + 1 /\ issued + 1 \in good'
    BY <2>1, <2>2 DEF IssuedInv, Desk, Slot, Row
  <2>3. CASE cb'[b].got = 0
    BY <2>1, <2>3
  <2> QED  BY <1>5, <2>2, <2>3, ExchangeEffect
<1>6. ASSUME NEW b \in Callbacks, CallbackFails(b) PROVE GoodInv'
  BY <1>6 DEF CallbackFails, Done, highlevel, history, Desk
<1>7. ASSUME NEW b \in Callbacks, SaveOAuthToken(b) PROVE GoodInv'
  <2>1. \A p \in Calls : ~Writing(p) /\ ~Writing(p)'
    BY <1>7, TokenAssumption DEF SaveOAuthToken, ReadIsCurrent
  <2>2. /\ UNCHANGED good
        /\ \A c \in Callbacks : cb'[c] = IF c = b THEN Done ELSE cb[c]
    BY <1>7 DEF SaveOAuthToken, highlevel
  <2>3. CASE cb[b].got = 0
    <3>1. row'.refresh = row.refresh /\ broken' = broken
      BY <1>7, <2>3 DEF SaveOAuthToken
    <3> QED  BY <2>1, <2>2, <3>1 DEF Done
  <2>4. CASE cb[b].got # 0
    <3>1. row'.refresh = cb[b].got /\ Saving(b)
      BY <1>7, <2>4 DEF SaveOAuthToken
    <3> QED  BY <2>1, <2>2, <3>1 DEF Done
  <2> QED  BY <2>3, <2>4
<1>8. ASSUME NEW p \in Calls, Token(p) PROVE GoodInv'
  BY <1>8 DEF Token, GoTo, highlevel, history, Slot
<1>9. ASSUME NEW p \in Calls, LockRow(p) PROVE GoodInv'
  <2>1. \A q \in Calls : Writing(q)' => Writing(q) /\ at'[q].got = at[q].got
    BY <1>9 DEF LockRow, Slot
  <2>2. \A q \in Calls : ~Writing(q)
    BY <1>9, TokenAssumption DEF LockRow, ReadIsCurrent
  <2>3. UNCHANGED <<row, cb, good, broken>>
    BY <1>9 DEF LockRow, highlevel, history
  <2> QED  BY <2>1, <2>2, <2>3
<1>10. ASSUME NEW p \in Calls, Refresh(p) PROVE GoodInv'
  <2>1. /\ lock = p /\ at[p].read = row.refresh /\ at[p].read \in good
        /\ \A q \in Calls \ {p} : ~Writing(q) /\ at'[q] = at[q]
    BY <1>10, TokenAssumption DEF Refresh, Rotate, ReadIsCurrent
  <2>2. Writing(p)' /\ at[p].read # 0 /\ UNCHANGED <<row, cb, broken>>
    <3>1. \A t \in good : t # 0
      BY DEF TokenTypeInv, TokenTypeOK
    <3> QED  BY <1>10, <2>1, <3>1 DEF Refresh, Slot, history
  <2>3. CASE Rotate(p) /\ at'[p].got = issued + 1
    <3>1. good' = (good \ {row.refresh}) \cup {issued + 1}
      BY <2>1, <2>3 DEF Rotate, Issue
    <3> QED  BY <2>1, <2>2, <2>3, <3>1 DEF IssuedInv, Desk
  <2>4. CASE UNCHANGED good /\ at'[p].got = at[p].read
    BY <2>1, <2>2, <2>4
  <2>5. \/ Rotate(p) /\ at' = [at EXCEPT ![p].pc = "replace", ![p].got = issued']
        \/ UNCHANGED good /\ at' = [at EXCEPT ![p].pc = "replace", ![p].got = at[p].read]
    BY <1>10 DEF Refresh, highlevel
  <2>6. Rotate(p) => issued' = issued + 1
    BY DEF Rotate, Issue
  <2> QED  BY <2>3, <2>4, <2>5, <2>6 DEF Slot
<1>11. ASSUME NEW p \in Calls, RefreshFails(p) PROVE GoodInv'
  <2>1. /\ \A q \in Calls : ~Writing(q) /\ at'[q] = IF q = p THEN NoCall ELSE at[q]
    BY <1>11, TokenAssumption DEF RefreshFails, GiveUp, Release, ReadIsCurrent
  <2>2. UNCHANGED <<row, cb, good, broken>>
    BY <1>11 DEF RefreshFails, GiveUp, highlevel
  <2> QED  BY <2>1, <2>2 DEF NoCall
<1>12. ASSUME NEW p \in Calls, RefreshLost(p) PROVE GoodInv'
  <2>1. /\ at[p].read = row.refresh
        /\ \A q \in Calls : ~Writing(q) /\ at'[q] = IF q = p THEN NoCall ELSE at[q]
    BY <1>12, TokenAssumption DEF RefreshLost, GiveUp, Release, ReadIsCurrent
  <2>2. UNCHANGED <<row, cb>> /\ broken' = TRUE
    BY <1>12 DEF RefreshLost, GiveUp
  <2>3. good' = (good \ {row.refresh}) \cup {issued + 1}
    BY <1>12, <2>1 DEF RefreshLost, Rotate, Issue
  <2> QED  BY <2>1, <2>2, <2>3 DEF NoCall
<1>13. ASSUME NEW p \in Calls, ReplaceOAuthToken(p) PROVE GoodInv'
  <2>1. Writing(p) /\ row'.refresh = at[p].got /\ UNCHANGED <<cb, good, broken>>
    BY <1>13 DEF ReplaceOAuthToken, highlevel, history
  <2>2. \A q \in Calls : ~Writing(q)'
    <3>1. \A q \in Calls \ {p} : ~Writing(q) /\ at'[q] = at[q]
      BY <1>13, <2>1, TokenAssumption DEF ReplaceOAuthToken, GoTo, ReadIsCurrent
    <3>2. ~Writing(p)'
      BY <1>13 DEF ReplaceOAuthToken, GoTo, Slot
    <3> QED  BY <3>1, <3>2
  <2> QED  BY <2>1, <2>2
<1>14. ASSUME NEW p \in Calls, Abort(p) PROVE GoodInv'
  <2>1. /\ UNCHANGED <<row, cb, good>>
        /\ \A q \in Calls : at'[q] = IF q = p THEN NoCall ELSE at[q]
        /\ broken' = (broken \/ (at[p].pc = "replace" /\ at[p].got # at[p].read))
    BY <1>14 DEF Abort, GiveUp, Release, highlevel
  <2>2. CASE Writing(p)
    <3>1. at[p].read = row.refresh /\ \A q \in Calls \ {p} : ~Writing(q)
      BY <2>2, TokenAssumption DEF ReadIsCurrent
    <3>2. ~broken' => ~broken /\ at[p].got = row.refresh
      BY <2>1, <2>2, <3>1
    <3> QED  BY <2>1, <2>2, <3>1, <3>2 DEF NoCall
  <2>3. CASE ~Writing(p)
    BY <2>1, <2>3 DEF NoCall
  <2> QED  BY <2>2, <2>3
<1>15. ASSUME NEW p \in Calls, Call(p) PROVE GoodInv'
  <2>1. /\ \A q \in Calls \ {p} : at'[q] = at[q]
        /\ ~Writing(p) /\ ~Writing(p)'
    BY <1>15 DEF Call, Release, NoCall, Slot
  <2>2. UNCHANGED <<row, cb, good, broken>>
    BY <1>15 DEF Call, highlevel, history
  <2> QED  BY <2>1, <2>2
<1> QED
  BY <1>1, <1>2, <1>3, <1>4, <1>5, <1>6, <1>7, <1>8, <1>9, <1>10, <1>11, <1>12, <1>13,
     <1>14, <1>15 DEF TokenNext, Step

LEMMA InvariantGood == TokenSpec => [](ReadIsCurrent /\ GoodInv)
<1>1. TokenInit => TokenTypeInv /\ ReadIsCurrent /\ IssuedInv /\ GoodInv
  BY TokenInitType DEF TokenInit, ReadIsCurrent, IssuedInv, GoodInv, StaysConnected, Writing,
                  Saving, NoCall, Done
<1> QED
  BY <1>1, TokenNextType, NextRead, NextIssued, NextGood, PTL DEF TokenSpec

(* The location stays connected: as long as no answer or write of a        *)
(* refresh was lost, HighLevel would take the refresh token in the row.    *)
THEOREM ConnectedTheorem == TokenSpec => []StaysConnected
<1>1. GoodInv => StaysConnected
  BY DEF GoodInv
<1> QED  BY <1>1, InvariantGood, PTL

(* Calls that refresh at the same time do not present a used token.        *)
THEOREM UsedTokenTheorem == TokenSpec => []NoUsedTokenPresented
<1>1. ReadIsCurrent /\ GoodInv => NoUsedTokenPresented
  BY DEF ReadIsCurrent, GoodInv, StaysConnected, NoUsedTokenPresented
<1> QED  BY <1>1, InvariantGood, PTL
-----------------------------------------------------------------------------
(* The row of a state is there until its one code is exchanged.            *)
UseInv == \A s \in States : exchanges[s] <= IF states[s] = "used" THEN 1 ELSE 0

(* A state lets one callback through, however many come with it at once.   *)
THEOREM StateTheorem == TokenSpec => []SingleUseState
<1>1. TokenInit => UseInv
  BY DEF TokenInit, UseInv
<1>2. TokenTypeInv /\ UseInv /\ [TokenNext]_tokenVars => UseInv'
  <2> SUFFICES ASSUME TokenTypeInv, UseInv, [TokenNext]_tokenVars PROVE UseInv'
    OBVIOUS
  <2> USE DEF UseInv, TokenTypeInv, TokenTypeOK
  <2>1. CASE UNCHANGED <<states, exchanges>>
    BY <2>1
  <2>2. ASSUME NEW s \in States, CreateOAuthState(s) \/ StateExpires(s) PROVE UseInv'
    BY <2>2 DEF CreateOAuthState, StateExpires, history
  <2>3. ASSUME NEW b \in Callbacks, NEW s \in States, ConsumeOAuthState(b, s) PROVE UseInv'
    BY <2>3 DEF ConsumeOAuthState
  <2>4. \/ UNCHANGED <<states, exchanges>>
        \/ \E s \in States : CreateOAuthState(s) \/ StateExpires(s)
        \/ \E b \in Callbacks, s \in States : ConsumeOAuthState(b, s)
    BY DEF TokenNext, tokenVars, history, Expire, Exchange, CallbackFails, SaveOAuthToken, Token,
           LockRow, Step, Refresh, RefreshFails, RefreshLost, ReplaceOAuthToken, Call,
           Abort, GiveUp
  <2> QED  BY <2>1, <2>2, <2>3, <2>4
<1>3. TokenTypeInv /\ UseInv => SingleUseState
  BY DEF UseInv, SingleUseState, TokenTypeInv, TokenTypeOK
<1>4. TokenSpec => []TokenTypeInv
  BY TokenInitType, TokenNextType, PTL DEF TokenSpec
<1> QED  BY <1>1, <1>2, <1>3, <1>4, PTL DEF TokenSpec
=============================================================================
