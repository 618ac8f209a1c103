---------------------------- MODULE BrowserSignIn ----------------------------
(***************************************************************************)
(* Signing in through a browser that is sent back to this machine.  The     *)
(* vendor fixed the port its redirect comes back to, so every sign-in of a  *)
(* plan listens on one port: in turn, for a bounded time, against whatever  *)
(* else on the machine wants it.                                           *)
(***************************************************************************)
EXTENDS Naturals

CONSTANTS
    MaxTries,    \* bound: sign-ins started
    Other,       \* another program that may hold the port
    Nobody,
    MaxTakes,    \* bound: times the other program takes the port
    MaxUnopened  \* bound: times the system refuses to open a browser

Tries == 1..MaxTries

BrowserAssumption ==
    /\ MaxTries \in Nat
    /\ Other \notin Tries /\ Nobody \notin Tries \union {Other}
    /\ MaxTakes \in Nat /\ MaxUnopened \in Nat

VARIABLES
    port,     \* who holds the port
    listener, \* what the server of each sign-in is doing
    handed,   \* what each listener settled on
    browser,  \* the page each sign-in opened
    result,   \* how each sign-in ended
    takes, unopened

vars == <<port, listener, handed, browser, result, takes, unopened>>

Listeners == {"none", "binding", "listening", "closing", "closed"}
Handed == {"nothing", "code", "denied", "noCode", "late", "portHeld"}
Pages == {"none", "open", "authorized", "denied", "refused"}
Results == {"queued", "waiting", "exchanging", "signedIn", "refused", "failed"}

-----------------------------------------------------------------------------
(* The listener.                                                           *)

(* The first word settles it, and everything after that is dropped.        *)
Done(n, how) ==
    /\ handed[n] = "nothing"
    /\ handed' = [handed EXCEPT ![n] = how]
    /\ listener' = [listener EXCEPT ![n] = "closing"]

Binds(n) ==
    /\ listener[n] = "binding" /\ handed[n] = "nothing"
    /\ IF port = Nobody
         THEN /\ port' = n
              /\ listener' = [listener EXCEPT ![n] = "listening"]
              /\ UNCHANGED handed
         ELSE Done(n, "portHeld") /\ UNCHANGED port
    /\ UNCHANGED <<browser, result, takes, unopened>>

(* The word is compared: only the page of this sign-in carries its own.    *)
WordOf(n, m) == IF m = n THEN "code" ELSE "noCode"

(* A browser comes back from the page of any sign-in made so far.          *)
Redirected(n, m) ==
    /\ listener[n] = "listening"
    /\ \/ browser[m] = "authorized" /\ Done(n, WordOf(n, m))
       \/ browser[m] = "denied" /\ Done(n, "denied")
    /\ UNCHANGED <<port, browser, result, takes, unopened>>

(* Any other request that reaches the port, whatever its path.             *)
Stray(n) ==
    /\ listener[n] = "listening"
    /\ Done(n, "noCode")
    /\ UNCHANGED <<port, browser, result, takes, unopened>>

(* Mutant: the bound is cleared as soon as the port is held.               *)
NeverGivesUp(n) ==
    /\ listener[n] = "binding"
    /\ Done(n, "late")
    /\ UNCHANGED <<port, browser, result, takes, unopened>>

GivesUp(n) ==
    /\ listener[n] \in {"binding", "listening"}
    /\ Done(n, "late")
    /\ UNCHANGED <<port, browser, result, takes, unopened>>

(* The port is let go, connections kept alive included.                    *)
Closes(n) ==
    /\ listener[n] = "closing"
    /\ listener' = [listener EXCEPT ![n] = "closed"]
    /\ port' = IF port = n THEN Nobody ELSE port
    /\ UNCHANGED <<handed, browser, result, takes, unopened>>

-----------------------------------------------------------------------------
(* The sign-in.                                                            *)

(* One at a time: each starts as the one before it is answered.            *)
Starts(n) ==
    /\ result[n] = "queued"
    /\ \A m \in 1..(n - 1) : result[m] \in {"signedIn", "refused", "failed"}
    /\ result' = [result EXCEPT ![n] = "waiting"]
    /\ listener' = [listener EXCEPT ![n] = "binding"]
    /\ UNCHANGED <<port, handed, browser, takes, unopened>>

(* The page is asked for in the same breath as the listener.               *)
Opens(n) ==
    /\ result[n] = "waiting" /\ browser[n] = "none"
    /\ browser' = [browser EXCEPT ![n] = "open"]
    /\ UNCHANGED <<port, listener, handed, result, takes, unopened>>

(* A browser that will not open fails the sign-in, and nothing tells the   *)
(* listener.                                                               *)
CannotOpen(n) ==
    /\ result[n] = "waiting" /\ browser[n] = "none" /\ unopened < MaxUnopened
    /\ unopened' = unopened + 1
    /\ browser' = [browser EXCEPT ![n] = "refused"]
    /\ result' = [result EXCEPT ![n] = "failed"]
    /\ UNCHANGED <<port, listener, handed, takes>>

HandsOver(n) == listener[n] = "closed"

Settles(n) ==
    /\ result[n] = "waiting" /\ browser[n] # "none"
    /\ HandsOver(n)
    /\ result' = [result EXCEPT ![n] = IF handed[n] = "code" THEN "exchanging" ELSE "refused"]
    /\ UNCHANGED <<port, listener, handed, browser, takes, unopened>>

(* The code is spent at the vendor, which may answer without a token.      *)
Exchanged(n) ==
    /\ result[n] = "exchanging"
    /\ \E how \in {"signedIn", "refused"} : result' = [result EXCEPT ![n] = how]
    /\ UNCHANGED <<port, listener, handed, browser, takes, unopened>>

-----------------------------------------------------------------------------
(* The person and the rest of the machine.                                 *)

Person(n) ==
    /\ browser[n] = "open"
    /\ \E how \in {"authorized", "denied"} : browser' = [browser EXCEPT ![n] = how]
    /\ UNCHANGED <<port, listener, handed, result, takes, unopened>>

OtherTakes ==
    /\ port = Nobody /\ takes < MaxTakes
    /\ port' = Other /\ takes' = takes + 1
    /\ UNCHANGED <<listener, handed, browser, result, unopened>>

OtherLets ==
    /\ port = Other
    /\ port' = Nobody
    /\ UNCHANGED <<listener, handed, browser, result, takes, unopened>>

Init ==
    /\ port = Nobody
    /\ listener = [n \in Tries |-> "none"]
    /\ handed = [n \in Tries |-> "nothing"]
    /\ browser = [n \in Tries |-> "none"]
    /\ result = [n \in Tries |-> "queued"]
    /\ takes = 0 /\ unopened = 0

Runs(n) ==
    \/ Starts(n) \/ Opens(n) \/ CannotOpen(n) \/ Settles(n) \/ Exchanged(n)
    \/ Binds(n) \/ GivesUp(n) \/ Closes(n)

Next ==
    \/ \E n \in Tries : Runs(n) \/ Stray(n) \/ Person(n)
    \/ \E n, m \in Tries : Redirected(n, m)
    \/ OtherTakes \/ OtherLets

(* The app runs on and the bound passes: the browser owes nothing.         *)
Fairness == \A n \in Tries : WF_vars(Runs(n))

Spec == Init /\ [][Next]_vars /\ Fairness

-----------------------------------------------------------------------------

(* Every server, page and answer is one the code can hold.                 *)
BrowserTypeOK ==
    /\ port \in Tries \union {Other, Nobody}
    /\ listener \in [Tries -> Listeners]
    /\ handed \in [Tries -> Handed]
    /\ browser \in [Tries -> Pages]
    /\ result \in [Tries -> Results]
    /\ \A n \in Tries : listener[n] = "listening" <=> port = n /\ handed[n] = "nothing"

(* Nobody is signed in by a page this very sign-in did not open: a code    *)
(* from the browser of an earlier sign-in is never spent.                  *)
SignedInByItsOwnPage ==
    \A n \in Tries : result[n] \in {"exchanging", "signedIn"} => browser[n] = "authorized"

(* A sign-in its listener answered has let its port go, so that the next    *)
(* one never finds the port held by the one before it.                     *)
AnsweredMeansLetGo ==
    \A n \in Tries : result[n] \in {"signedIn", "refused"} => port # n

(* A person who abandons a sign-in and starts another is never told that    *)
(* nothing could listen on the port: only another program can hold it.      *)
(* The code departs from this (README, Departures).                         *)
TheNextOneCanListen ==
    [][\A n \in Tries : handed[n] = "nothing" /\ handed'[n] = "portHeld" => port = Other]_vars

SomeoneWaits == \E n \in Tries : result[n] \in {"waiting", "exchanging"}

(* Every sign-in started is answered, whatever the browser does.           *)
EverySignInEnds == SomeoneWaits ~> ~SomeoneWaits

(* A person is shown a page only where its redirect will be heard: never   *)
(* once nothing could listen on the port it comes back to.                 *)
(* The code departs from this (README, Departures).                        *)
OpensOnlyWhileListening ==
    \A n \in Tries : browser[n] = "open" => handed[n] # "portHeld"

(* A request that is not the answer this sign-in asked for settles nothing. *)
(* The code departs from this (README, Departures).                         *)
AStrayCallbackSettlesNothing ==
    \A n \in Tries : handed[n] # "noCode"

=============================================================================
