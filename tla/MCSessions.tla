----------------------------- MODULE MCSessions -----------------------------
(* A browser: the sessions of its tabs (Sessions), or, in a behaviour of   *)
(* its own, a tab's screens (ViewScreen, PageScreen) that work a           *)
(* database's controls and forms, the pages of a workspace or the versions *)
(* of a page.  Sessions and screens share no state.                        *)
EXTENDS Sessions, ViewScreen, PageScreen, TLC
CONSTANTS p, s, va, vb
VARIABLE browses

MCTokens == 1..3
\* A text property and a status.
MCColumns == <<p, s>>
MCTypeOf == p :> "text" @@ s :> "status"
MCOperators == [x \in {p, s} |-> IF x = p THEN <<"contains">> ELSE <<"equals">>]

\* Controls and forms by themselves, and both at once with one request less: of
\* a group among the conditions there is little to claim.
MCInit ==
  /\ Init /\ ScreenInit /\ ShellInit
  /\ browses \in {"nothing", "controls", "forms", "both", "pages", "versions"}
  /\ browses # "both" => Len(conf[Default].filters.conditions) = 1
MCNext ==
  /\ UNCHANGED browses
  /\ \/ browses = "nothing" /\ Next /\ UNCHANGED <<viewVars, shellVars>>
     \/ /\ browses \in {"controls", "forms", "both"} /\ ScreenNext /\ UNCHANGED <<vars, shellVars>>
        /\ browses = "controls" => UNCHANGED <<form, adding>>
        /\ browses = "forms" => \A r \in wire' : r.kind \in {"save", "delete", "add"}
        /\ browses = "both" => actions' < MaxSent
     \/ browses = "pages" /\ ScreenShellNext /\ UNCHANGED <<vars, viewVars>>
     \/ browses = "versions" /\ VersionNext /\ UNCHANGED <<vars, viewVars>>
MCSpec == MCInit /\ [][MCNext]_<<vars, viewVars, shellVars, browses>> /\ Fairness
=============================================================================
