----------------------------- MODULE MCServices -----------------------------
(* One of the services at a time: they share no state, so a behaviour is   *)
(* one of comments, publishing, favorites, references, uploads, sign-on    *)
(* and the three menus that search.                                        *)
EXTENDS Discussion, PublicPages, Personal, SignOn, Pickers, TLC
CONSTANTS above, below, s1, s2, e1, e2, q1, q2
VARIABLE service

MCParentOf == above :> None @@ below :> above
\* The jobs of comments are also the publishers and the browsers of a sign-on.
Alike == Permutations(Reader) \cup Permutations(Page) \cup Permutations(Job)

\* Which subject has which address at first makes no difference.
MCMail == s1 :> e1 @@ s2 :> e2
\* Of q1, ten of the eleven hits are fetched and p2 is cut off.
MCHits == q1 :> <<"p1", "p3", "p5", "p6", "p7", "p8", "p9", "p10", "p11", "p12", "p2">> @@ q2 :> <<"p5", "p3", "p2", "p4">>
MCTitled == q1 :> <<"p3", "p2">> @@ q2 :> <<"p4", "p5", "p1">> @@ Blank :> <<"p5", "p4", "p3">>
MCMembers == q1 :> <<"ann">> @@ q2 :> <<"bob", "ann">> @@ Blank :> <<"ann", "bob">>
MCFavoriteList == <<"p4">>
MCActions == <<"new-page", "open-trash">>

MCInit ==
  /\ TalkInit /\ PublicInit /\ PersonalInit
  /\ SignOnInit /\ mailOf = MCMail
  /\ PickerInit
  /\ service \in {"comments", "publishing", "favorites", "references", "uploads", "sign-on", "palette", "composer", "popup"}
  /\ service \notin {"composer", "popup"} => ~guest
  /\ service # "popup" => trigger = "@"

Menus ==
  \/ service = "palette" /\ PaletteNext
  \/ service = "composer" /\ ComposerNext
  \/ service = "popup" /\ PopupNext
Tab ==
  \/ service = "favorites" /\ StarNext
  \/ service = "references" /\ LinkNext
  \/ service = "uploads" /\ MediaNext
MCNext ==
  /\ UNCHANGED service
  /\ \/ service = "comments" /\ TalkNext /\ UNCHANGED <<publicVars, personalVars, signOnVars, pickerVars>>
     \/ service = "publishing" /\ PublicNext
        /\ UNCHANGED <<talkVars, personalVars, signOnVars, pickerVars>>
     \/ Tab /\ UNCHANGED <<talkVars, publicVars, signOnVars, pickerVars>>
     \/ service = "sign-on" /\ SignOnNext /\ UNCHANGED <<talkVars, publicVars, personalVars, pickerVars>>
     \/ Menus /\ UNCHANGED <<talkVars, publicVars, personalVars, signOnVars>>
services == <<talkVars, publicVars, personalVars, signOnVars, pickerVars, service>>
Spec == MCInit /\ [][MCNext]_services
\* The reference syncs of a tab alone.
PutsSpec == MCInit /\ service = "references" /\ [][MCNext]_services
=============================================================================
