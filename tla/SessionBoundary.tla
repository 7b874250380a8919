-------------------------- MODULE SessionBoundary ---------------------------
(* The gate in front of the hosted workspace (src/auth/SessionBoundary.tsx *)
(* and session.ts): one verification at a time asks the server who the     *)
(* author is, on an interval and whenever the page comes back, and a       *)
(* protected request that is refused closes the gate at once.              *)
EXTENDS Naturals

VARIABLES signedIn,  \* external: the platform's session
          online,    \* navigator.onLine
          gate       \* what is shown, whether verifiedSession is set, and
                     \* the verification in flight with its answer

gateVars == <<signedIn, online, gate>>

GateInit == /\ signedIn \in BOOLEAN /\ online = TRUE
            /\ gate = [shown |-> "loading", verified |-> FALSE, asked |-> "sent"]

IsOpen == gate.shown = "open"
Opens  == [shown |-> "open", verified |-> TRUE, asked |-> "none"]
Shuts(shown, asked) == [shown |-> shown, verified |-> FALSE, asked |-> asked]

(* verify: nothing while one is pending, nor offline once verified.        *)
VerifyUnlessOpen == gate.asked = "none" /\ ~IsOpen                         \* mutant
MayVerify == gate.asked = "none" /\ (online \/ ~gate.verified)
Verify == /\ MayVerify
          /\ gate' = [gate EXCEPT !.asked = "sent"]
          /\ UNCHANGED <<signedIn, online>>

(* GET /api/session, answered by the platform's session at that moment.    *)
ServeSession == /\ gate.asked = "sent"
                /\ gate' = [gate EXCEPT !.asked = IF signedIn THEN "yes" ELSE "no"]
                /\ UNCHANGED <<signedIn, online>>

(* The answer, or none: a request that failed or that the server could not *)
(* serve shuts the gate too.                                               *)
Verified == /\ gate.asked \in {"yes", "no"}
            /\ gate' = IF gate.asked = "yes" THEN Opens ELSE Shuts("closed", "none")
            /\ UNCHANGED <<signedIn, online>>
Unverified == /\ gate.asked # "none"
              /\ gate' = Shuts("failed", "none")
              /\ UNCHANGED <<signedIn, online>>

(* Try again: a new effect verifies; an answer to the old one is ignored.  *)
TryAgain == /\ gate.shown = "failed"
            /\ gate' = Shuts("loading", "sent")
            /\ UNCHANGED <<signedIn, online>>

(* authenticationLost: the gate shuts, and a verification is under way.    *)
LosesAuthentication == gate' = Shuts("closed", IF gate.asked = "none" THEN "sent" ELSE gate.asked)

(* The environment.                                                        *)
SessionChanges == signedIn' = ~signedIn /\ UNCHANGED <<online, gate>>
LineChanges == online' = ~online /\ UNCHANGED <<signedIn, gate>>
=============================================================================
