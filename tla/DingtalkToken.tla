---------------------------- MODULE DingtalkToken ----------------------------
(***************************************************************************)
(* The access token of an enterprise app: NewDingtalkNotifier gets one,    *)
(* every sendMessage asks getAccessToken for it.  The notifier is shared   *)
(* by the goroutines of the builds and has no lock: accessToken and        *)
(* tokenExpiry are read and set in steps of their own.                     *)
(*                                                                         *)
(* A token is the moment the server stops taking it.  Every stage of a     *)
(* send takes at most Timeout, the http.Client's for the two requests.     *)
(***************************************************************************)
EXTENDS Naturals

CONSTANTS
    Senders,        \* goroutines with a message
    New,            \* the one that runs NewDingtalkNotifier
    Timeout,        \* client.Timeout, 10 s
    Margin,         \* 60 s
    Lifetime,       \* 7200 s, what getAccessToken takes for the lifetime
    Lifetimes,      \* the lifetimes the server gives (ExpiresIn)
    MaxTime         \* bound: the end of the clock

ASSUME TokenAssumption ==
    /\ New \in Senders
    /\ Timeout \in Nat /\ Margin \in Nat /\ Lifetime \in Nat /\ MaxTime \in Nat
    /\ 5 * Timeout <= Margin /\ Margin < Lifetime
    /\ Lifetimes \subseteq Nat

VARIABLES
    now,
    notifier,       \* what NewDingtalkNotifier has come to
    accessToken,    \* 0 for none
    tokenExpiry,
    pc,             \* where a sender is
    since,          \* the time it got there
    token           \* result.AccessToken, then what getAccessToken returned

vars == <<now, notifier, accessToken, tokenExpiry, pc, since, token>>

Stages == {"idle", "check", "fetch", "got", "set", "return", "sent"}

TypeOK ==
    /\ now \in Nat /\ accessToken \in Nat /\ tokenExpiry \in Nat
    /\ notifier \in {"making", "made", "nil"}
    /\ pc \in [Senders -> Stages]
    /\ since \in [Senders -> Nat] /\ token \in [Senders -> Nat]
    /\ \A s \in Senders : since[s] <= now

Init ==
    /\ now = 0 /\ notifier = "making"
    /\ accessToken = 0 /\ tokenExpiry = 0
    /\ pc = [s \in Senders |-> IF s = New THEN "check" ELSE "idle"]
    /\ since = [s \in Senders |-> 0] /\ token = [s \in Senders |-> 0]

-----------------------------------------------------------------------------

Goto(s, from, to) ==
    /\ pc[s] = from
    /\ pc' = [pc EXCEPT ![s] = to]
    /\ since' = [since EXCEPT ![s] = now]

(* sendMessage.                                                            *)
SendMessage(s) ==
    /\ notifier = "made"
    /\ Goto(s, "idle", "check")
    /\ UNCHANGED <<now, notifier, accessToken, tokenExpiry, token>>

Cached == accessToken # 0 /\ now < tokenExpiry

CheckToken(s) ==
    /\ Goto(s, "check", IF Cached THEN "return" ELSE "fetch")
    /\ UNCHANGED <<now, notifier, accessToken, tokenExpiry, token>>

(* The server issued the token at some time since the request.  The answer *)
(* names its lifetime in ExpiresIn, which nobody reads.                    *)
Answer(s) ==
    /\ Goto(s, "fetch", "got")
    /\ \E issued \in since[s] .. now, l \in Lifetimes :
          token' = [token EXCEPT ![s] = issued + l]
    /\ UNCHANGED <<now, notifier, accessToken, tokenExpiry>>

(* No answer, or one without a token: no message, or no notifier.          *)
FetchFails(s) ==
    /\ Goto(s, "fetch", "idle")
    /\ notifier' = IF s = New /\ notifier = "making" THEN "nil" ELSE notifier
    /\ UNCHANGED <<now, accessToken, tokenExpiry, token>>

SetToken(s) ==
    /\ Goto(s, "got", "set")
    /\ accessToken' = token[s]
    /\ UNCHANGED <<now, notifier, tokenExpiry, token>>

(* Mutant: the token is kept for its whole lifetime.                       *)
CachedUntilEnd == now + Lifetime

(* Mutant: the lifetime in the wrong unit.                                 *)
CachedUntilBeforeNow == now + 1 - Margin

CachedUntil == now + (Lifetime - Margin)

SetExpiry(s) ==
    /\ Goto(s, "set", "return")
    /\ tokenExpiry' = CachedUntil
    /\ UNCHANGED <<now, notifier, accessToken, token>>

(* return d.accessToken: read again.  The constructor is done with that,   *)
(* a sender puts it into the header of its request.                        *)
ReturnToken(s) ==
    /\ LET makes == s = New /\ notifier = "making" IN
         /\ Goto(s, "return", IF makes THEN "idle" ELSE "sent")
         /\ notifier' = IF makes THEN "made" ELSE notifier
    /\ token' = [token EXCEPT ![s] = accessToken]
    /\ UNCHANGED <<now, accessToken, tokenExpiry>>

(* The server took the message or did not.                                 *)
Sent(s) ==
    /\ Goto(s, "sent", "idle")
    /\ UNCHANGED <<now, notifier, accessToken, tokenExpiry, token>>

Tick ==
    /\ now < MaxTime
    /\ \A s \in Senders : pc[s] # "idle" => now < since[s] + Timeout
    /\ now' = now + 1
    /\ UNCHANGED <<notifier, accessToken, tokenExpiry, pc, since, token>>

Next ==
    \/ Tick
    \/ \E s \in Senders :
          \/ SendMessage(s) \/ CheckToken(s) \/ Answer(s) \/ FetchFails(s)
          \/ SetToken(s) \/ SetExpiry(s) \/ ReturnToken(s) \/ Sent(s)

Spec == Init /\ [][Next]_vars

-----------------------------------------------------------------------------

(* The server gives every token the lifetime that getAccessToken takes it  *)
(* to have, or more.                                                       *)
LifetimeIsKept == \A l \in Lifetimes : l >= Lifetime

(* While a message is on its way the server takes the token it carries:    *)
(* however sends that fetch tokens side by side mix up the two fields, and *)
(* however late in its stages each of them is.                             *)
NoExpiredTokenIsSent ==
    \A s \in Senders : pc[s] = "sent" => now < token[s]

=============================================================================
