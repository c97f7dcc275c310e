------------------------------ MODULE MCLocalData ------------------------------
(* What this device keeps of its own: the capture of a session, the rows of the *)
(* database and what the terminal engine makes of output.  They share no state: *)
(* each behaviour moves the one in `focus` and leaves the others as they are.   *)
EXTENDS LocalData

VARIABLE focus
vars == <<focus, captureVars, catalogVars, outputVars>>

-----------------------------------------------------------------------------
(* Three rows of tables that refer to each other, every reference and link of *)
(* the schema in one of them.                                                 *)

MCCatalogs ==
  {[r \in Rows |-> c[r]] :
     c \in {<<"groups", "groups", "hosts">>, <<"keys", "identities", "hosts">>,
            <<"keys", "identities", "groups">>, <<"proxies", "identities", "hosts">>,
            <<"groups", "identities", "proxies">>, <<"tags", "hosts", "hosts">>,
            <<"hosts", "forwards", "favorites">>, <<"hosts", "favorites", "favorites">>,
            <<"snippets", "groups", "hosts">>, <<"packages", "snippets", "hosts">>}}

(* Output with parts of the marker, of commands and of terminators in every   *)
(* order, and blocks beyond the bound.                                        *)
MCBytes ==
  {"t", "esc", "]", "bel", "\\", "m", "k", "prompt", "A", "started", "x", "dir", "d",
   "exited", "0", "alt", "main"}
MCMarker == <<"m", "m", "k">>
Prompt == <<"esc", "]", "prompt", "A", "bel">>
Started == <<"esc", "]", "started", "x", "esc", "\\">>
Dir == <<"esc", "]", "dir", "d", "bel">>
Exited == <<"esc", "]", "exited", "0", "bel">>
MCStreams ==
  {FlattenSeq(p) : p \in [1 .. 3 -> {<<"t">>, <<"esc">>, <<"m", "m">>, <<"m", "k">>,
                                     Prompt, Started, <<"\\">>}]}
    \cup {Prompt \o a \o b \o Prompt \o c :
            a \in {Dir, <<"alt">>}, b \in {Prompt, Started},
            c \in {Exited, <<"main">> \o Prompt}}

-----------------------------------------------------------------------------
(* The state in which a component waits while another is in focus.            *)

CatalogRests ==
  /\ table = CHOOSE c \in MCCatalogs : TRUE
  /\ row = [r \in Rows |-> [state |-> "absent", refs |-> Unset(table[r])]]
  /\ linked = {} /\ editor = [w \in Windows |-> NoEditor]
  /\ pane = [p \in Panes |-> [host |-> NoRow, favorite |-> FALSE]]
  /\ stamped = {} /\ outdated = {} /\ overtaken = {}
OutputRests ==
  /\ stream = [bytes |-> <<"t">>, at |-> 0]
  /\ hiding = Off /\ oscPending = <<>> /\ screen = Blank
  /\ unhidden = [shown |-> <<>>, since |-> <<>>] /\ overlong = FALSE

Init ==
  /\ focus \in {"capture", "catalog", "output"}
  /\ CaptureInit
  /\ IF focus = "catalog" THEN CatalogInit ELSE CatalogRests
  /\ IF focus = "output" THEN OutputInit ELSE OutputRests

Next ==
  /\ UNCHANGED focus
  /\ \/ focus = "capture" /\ CaptureNext /\ UNCHANGED <<catalogVars, outputVars>>
     \/ focus = "catalog" /\ CatalogNext /\ UNCHANGED <<captureVars, outputVars>>
     \/ focus = "output" /\ OutputNext /\ UNCHANGED <<captureVars, catalogVars>>

Spec == Init /\ [][Next]_vars
================================================================================
