------------------------- MODULE DingtalkTokenProofs -------------------------
(***************************************************************************)
(* For every number of senders, every timeout, margin and lifetime with    *)
(* five timeouts in the margin (5 * 10 s <= 60 s in the code).             *)
(***************************************************************************)
EXTENDS DingtalkToken, TLAPS

(* How old a token can be, by the stage of the sender that holds it: a     *)
(* stage lasts at most Timeout, and a token is issued during the fetch.    *)
StagesAreShort == \A s \in Senders : pc[s] # "idle" => now <= since[s] + Timeout

GotIsFresh ==
    \A s \in Senders : pc[s] = "got" => since[s] + Lifetime <= token[s] + Timeout

SetIsFresh ==
    \A s \in Senders :
        pc[s] = "set" => since[s] + Lifetime <= accessToken + 2 * Timeout

(* The expiry is at most that of a token fetched now.                      *)
ExpiryIsPast == tokenExpiry + Margin <= now + Lifetime \/ tokenExpiry = 0

ReturnedLasts ==
    \A s \in Senders : pc[s] = "return" => since[s] + 2 * Timeout < accessToken

SentLasts ==
    \A s \in Senders : pc[s] = "sent" => since[s] + Timeout < token[s]

(* The cache outlives no token: a sender that finds it valid has the time  *)
(* of two stages left, to read the token again and to send it.             *)
CacheIsCautious ==
    accessToken # 0 /\ tokenExpiry # 0 => tokenExpiry + 2 * Timeout <= accessToken

Ages ==
    /\ StagesAreShort /\ GotIsFresh /\ SetIsFresh
    /\ ExpiryIsPast /\ ReturnedLasts /\ SentLasts

Inv == TypeOK /\ Ages /\ CacheIsCautious

-----------------------------------------------------------------------------

(* The types hold in every state.                                          *)
LEMMA TypeInit == Init => TypeOK
BY TokenAssumption DEF Init, TypeOK, Stages

LEMMA TypeStep == TypeOK /\ [Next]_vars => TypeOK'
<1> SUFFICES ASSUME TypeOK, [Next]_vars PROVE TypeOK'
  OBVIOUS
<1> USE TokenAssumption DEF TypeOK, Stages
<1>1. CASE Tick
  BY <1>1 DEF Tick
<1>2. ASSUME NEW s \in Senders, SendMessage(s) PROVE TypeOK'
  BY <1>2 DEF SendMessage, Goto
<1>3. ASSUME NEW s \in Senders, CheckToken(s) PROVE TypeOK'
  BY <1>3 DEF CheckToken, Goto
<1>4. ASSUME NEW s \in Senders, Answer(s) PROVE TypeOK'
  BY <1>4 DEF Answer, Goto
<1>5. ASSUME NEW s \in Senders, FetchFails(s) PROVE TypeOK'
  BY <1>5 DEF FetchFails, Goto
<1>6. ASSUME NEW s \in Senders, SetToken(s) PROVE TypeOK'
  BY <1>6 DEF SetToken, Goto
<1>7. ASSUME NEW s \in Senders, SetExpiry(s) PROVE TypeOK'
  BY <1>7 DEF SetExpiry, Goto, CachedUntil
<1>8. ASSUME NEW s \in Senders, ReturnToken(s) PROVE TypeOK'
  BY <1>8 DEF ReturnToken, Goto
<1>9. ASSUME NEW s \in Senders, Sent(s) PROVE TypeOK'
  BY <1>9 DEF Sent, Goto
<1>10. CASE UNCHANGED vars
  BY <1>10 DEF vars
<1>. QED
  BY <1>1, <1>2, <1>3, <1>4, <1>5, <1>6, <1>7, <1>8, <1>9, <1>10 DEF Next

(* DingtalkToken's type invariant holds for every value of the constants.  *)
THEOREM TypeCorrect == Spec => []TypeOK
BY TypeInit, TypeStep, PTL DEF Spec

-----------------------------------------------------------------------------

(* The first cautions of the cache: nothing is there yet.                  *)
LEMMA InvInit == Init => Inv
<1> SUFFICES ASSUME Init PROVE Inv
  OBVIOUS
<1>1. TypeOK
  BY TypeInit
<1>2. StagesAreShort
  BY TokenAssumption DEF Init, StagesAreShort
<1>3. GotIsFresh /\ SetIsFresh /\ ReturnedLasts /\ SentLasts
  BY DEF Init, GotIsFresh, SetIsFresh, ReturnedLasts, SentLasts
<1>4. ExpiryIsPast /\ CacheIsCautious
  BY DEF Init, ExpiryIsPast, CacheIsCautious
<1>. QED
  BY <1>1, <1>2, <1>3, <1>4 DEF Inv, Ages

(* One step, by action.  The clock moves only while every stage has time   *)
(* left; SetToken may put an older token behind a newer expiry, and        *)
(* SetExpiry may set the expiry of a token that another sender fetched.    *)
LEMMA InvStep == LifetimeIsKept /\ Inv /\ [Next]_vars => Inv'
<1> SUFFICES ASSUME LifetimeIsKept, Inv, [Next]_vars PROVE Inv'
  OBVIOUS
<1>t. TypeOK /\ TypeOK'
  BY TypeStep DEF Inv
<1>n. /\ Timeout \in Nat /\ Margin \in Nat /\ Lifetime \in Nat
      /\ 5 * Timeout <= Margin /\ Margin < Lifetime
  BY TokenAssumption
<1> USE DEF Inv, Ages, StagesAreShort, GotIsFresh, SetIsFresh, ExpiryIsPast,
            ReturnedLasts, SentLasts, CacheIsCautious
<1>1. CASE Tick
  BY <1>1, <1>t, <1>n DEF Tick, TypeOK, Stages
<1>2. ASSUME NEW s \in Senders, SendMessage(s) PROVE Inv'
  BY <1>2, <1>t, <1>n DEF SendMessage, Goto, TypeOK, Stages
<1>3. ASSUME NEW s \in Senders, CheckToken(s) PROVE Inv'
  BY <1>3, <1>t, <1>n DEF CheckToken, Cached, Goto, TypeOK, Stages
<1>4. ASSUME NEW s \in Senders, Answer(s) PROVE Inv'
  BY <1>4, <1>t, <1>n, TokenAssumption DEF Answer, Goto, TypeOK, Stages, LifetimeIsKept
<1>5. ASSUME NEW s \in Senders, FetchFails(s) PROVE Inv'
  BY <1>5, <1>t, <1>n DEF FetchFails, Goto, TypeOK, Stages
<1>6. ASSUME NEW s \in Senders, SetToken(s) PROVE Inv'
  <2>. USE <1>6, <1>t, <1>n DEF SetToken, Goto, TypeOK, Stages
  <2>1. now + Lifetime <= accessToken' + 2 * Timeout
    OBVIOUS
  <2>2. SetIsFresh'
    BY <2>1
  <2>3. ReturnedLasts'
    BY <2>1
  <2>4. CacheIsCautious'
    BY <2>1
  <2>. QED
    BY <2>2, <2>3, <2>4
<1>7. ASSUME NEW s \in Senders, SetExpiry(s) PROVE Inv'
  <2>. USE <1>7, <1>t, <1>n DEF SetExpiry, CachedUntil, Goto, TypeOK, Stages
  <2>1. now + Lifetime <= accessToken + 3 * Timeout
    OBVIOUS
  <2>2. CacheIsCautious'
    BY <2>1
  <2>3. ReturnedLasts'
    BY <2>1
  <2>. QED
    BY <2>2, <2>3
<1>8. ASSUME NEW s \in Senders, ReturnToken(s) PROVE Inv'
  BY <1>8, <1>t, <1>n DEF ReturnToken, Goto, TypeOK, Stages
<1>9. ASSUME NEW s \in Senders, Sent(s) PROVE Inv'
  BY <1>9, <1>t, <1>n DEF Sent, Goto, TypeOK, Stages
<1>10. CASE UNCHANGED vars
  BY <1>10, <1>t DEF vars
<1>. QED
  BY <1>1, <1>2, <1>3, <1>4, <1>5, <1>6, <1>7, <1>8, <1>9, <1>10 DEF Next

(* A sender's stage ends before its token does.                            *)
LEMMA InvSuffices == Inv => NoExpiredTokenIsSent
BY TokenAssumption
   DEF Inv, Ages, StagesAreShort, SentLasts, NoExpiredTokenIsSent, TypeOK, Stages

(* No message carries a token the server has stopped taking, when the      *)
(* server's tokens live as long as getAccessToken takes them to.           *)
THEOREM NoExpiredToken ==
    ASSUME LifetimeIsKept
    PROVE  Spec => []NoExpiredTokenIsSent
<1>1. Inv /\ [Next]_vars => Inv'
  BY InvStep
<1>. QED
  BY <1>1, InvInit, InvSuffices, PTL DEF Spec

(* The cached expiry leaves two stages of the cached token's life.         *)
THEOREM CautiousCache ==
    ASSUME LifetimeIsKept
    PROVE  Spec => []CacheIsCautious
<1>1. Inv /\ [Next]_vars => Inv'
  BY InvStep
<1>2. Inv => CacheIsCautious
  BY DEF Inv
<1>. QED
  BY <1>1, <1>2, InvInit, PTL DEF Spec

=============================================================================
