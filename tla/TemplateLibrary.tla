--------------------------- MODULE TemplateLibrary ---------------------------
(***************************************************************************)
(* What publishing promises to the readers of the template library: every  *)
(* owner has at most one live template for a kind of problem, publishing   *)
(* and sharing replace it in one step, and a version that was replaced     *)
(* never comes back.  Publication implements this.                         *)
(***************************************************************************)
CONSTANTS
    Scope,          \* the sessions and Shared
    Shared,         \* the owner of the templates that everybody sees, a scope
    Fingerprint,    \* kinds of problem
    Version,        \* identities of published versions
    NoVersion       \* nothing live, no version

VARIABLES
    live,           \* live[s][f]: the version s has for f
    issued          \* versions published so far

Init ==
    /\ live = [s \in Scope |-> [f \in Fingerprint |-> NoVersion]]
    /\ issued = {}

\* caller publishes a new version for itself, or for everybody: the caller's
\* own version then makes way for the shared one.
Publish(caller, scope, f, v) ==
    /\ v \notin issued
    /\ issued' = issued \union {v}
    /\ scope \in {caller, Shared}
    /\ live' = [live EXCEPT ![caller][f] = NoVersion, ![scope][f] = v]

\* The owner's version becomes the shared one, if there is none.
Share(s, f) ==
    /\ s # Shared /\ live[s][f] # NoVersion /\ live[Shared][f] = NoVersion
    /\ live' = [live EXCEPT ![Shared][f] = live[s][f], ![s][f] = NoVersion]
    /\ UNCHANGED issued

Next ==
    \E s \in Scope, f \in Fingerprint :
        \/ Share(s, f)
        \/ \E t \in Scope, v \in Version : Publish(s, t, f, v)

Spec == Init /\ [][Next]_<<live, issued>>
=============================================================================
