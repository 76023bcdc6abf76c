--------------------------- MODULE MC_UseraddCheck ---------------------------
(* Scriptlet bodies for check_useradd().  A line is its words and whether *)
(* it ends in " \".                                                        *)
EXTENDS UseraddCheck

L(ws, c) == [w |-> ws, cont |-> c]

MC_UidWords == {"500", "5000"}
MC_UidValue == [w \in MC_UidWords |-> IF w = "500" THEN 500 ELSE 5000]

(* Lines from which every body of up to MaxLines lines is checked: a     *)
(* command split over lines, a complete command and an unrelated line.   *)
MC_PassLines ==
    { L(<<"useradd", "-r">>, TRUE),
      L(<<"-s", "/bin/bash">>, TRUE),
      L(<<"svc">>, FALSE),
      L(<<"useradd", "-u", "5000", "-s", "/sbin/nologin", "svc">>, FALSE),
      L(<<"echo">>, FALSE) }
MC_PassBodies == SeqOf(MC_PassLines, MaxLines)

(* "useradd -r svc": a system account without a shell option. *)
MC_Row1 == { << L(<<"useradd", "-r", "svc">>, FALSE) >> }

(* A second command inherits -r from the first. *)
MC_Stale == { << L(<<"useradd", "-r", "-s", "/sbin/nologin", "svc">>, FALSE),
                 L(<<"useradd", "-s", "/bin/bash", "web">>, FALSE) >> }

(* The continued command is the last line of the body. *)
MC_Trailing == { << L(<<"useradd", "-s", "/bin/bash">>, TRUE),
                    L(<<"svc">>, FALSE) >> }

(* A command over three lines: the third is cut off. *)
MC_ThreeLines == { << L(<<"useradd", "-s", "/sbin/nologin">>, TRUE),
                      L(<<"svc">>, TRUE),
                      L(<<"-r">>, FALSE) >> }

(* Two continued commands in a row are merged into one line. *)
MC_Merged == { << L(<<"useradd", "-r", "-s", "/sbin/nologin">>, TRUE),
                  L(<<"svc">>, FALSE),
                  L(<<"useradd", "-s", "/bin/bash">>, TRUE),
                  L(<<"web">>, FALSE),
                  L(<<"echo">>, FALSE) >> }

(* An explicit UID above the boundary. *)
MC_HighUid == { << L(<<"useradd", "-u", "5000", "-s", "/sbin/nologin", "svc">>, FALSE) >> }

(* A system account with a login shell. *)
MC_Bash == { << L(<<"useradd", "-r", "-s", "/bin/bash", "svc">>, FALSE) >> }

(* A UID of 2^16 + 500, which a 16-bit uid_t holds as 500. *)
MC_WideUidWords == {"66036"}
MC_WideUidValue == [w \in MC_WideUidWords |-> 66036]
MC_WideUid == { << L(<<"useradd", "-u", "66036", "-s", "/sbin/nologin", "svc">>, FALSE) >> }

MC_NoUids == {}
MC_SomeUids == {500}
=============================================================================
