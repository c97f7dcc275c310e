--------------------------- MODULE TerminalOutput ---------------------------
(***************************************************************************)
(* What the terminal engine does with the output of a session before the   *)
(* emulator sees it (terminal.rs): it hides what comes before a marker,    *)
(* cuts the stream into text and operating system commands, and keeps the  *)
(* blocks that the shell integration announces.  Output arrives in pieces  *)
(* of any length.  A byte is a model string; a payload is its two bytes.   *)
(***************************************************************************)
EXTENDS Integers, SequencesExt

CONSTANTS
  Bytes,            \* what a session puts out is made of
  OutputStreams,    \* the streams a session may put out
  Marker,           \* what ends a suppression
  MaxOsc,           \* MAX_OSC_BYTES
  MaxBlocks         \* MAX_COMMAND_BLOCK_METADATA

ASSUME OutputAssumption ==
  /\ {"esc", "]", "bel", "\\"} \subseteq Bytes
  /\ OutputStreams \subseteq Seq(Bytes) /\ Marker \in Seq(Bytes) \ {<<>>}
  /\ MaxOsc \in Nat \ {0} /\ MaxBlocks \in Nat \ {0}

VARIABLES
  stream,      \* all the session puts out, and how much has arrived
  hiding,      \* output_suppression: off, or on with its pending bytes
  oscPending,  \* osc_pending
  screen,      \* the bytes the emulator got, whether it shows the alternate
               \* screen, the working directory and the command blocks
  unhidden,    \* history: what arrived while nothing was hidden, what arrived
               \* since, and the bytes that a cancel discarded
  overlong     \* history: an operating system command did not fit

outputVars == <<stream, hiding, oscPending, screen, unhidden, overlong>>

-----------------------------------------------------------------------------
(* Cutting the stream.                                                     *)

FindBytes(s, p) ==
  LET at == {i \in 0 .. Len(s) - Len(p) : SubSeq(s, i + 1, i + Len(p)) = p}
  IN IF at = {} THEN -1 ELSE Min(at)
From(s, i) == SubSeq(s, i + 1, Len(s))

(* Where the payload of the command at the start of s ends, and how long   *)
(* its terminator is: a bell or ESC \, whichever comes first.              *)
Terminator(s) ==
  LET bell == FindBytes(From(s, 2), <<"bel">>)
      string == FindBytes(From(s, 2), <<"esc", "\\">>)
  IN CASE bell = -1 /\ string = -1 -> <<-1, 0>>
       [] bell # -1 /\ (string = -1 \/ bell < string) -> <<bell + 2, 1>>
       [] OTHER -> <<string + 2, 2>>

Text(s) == [bytes |-> s, payload |-> <<>>]
Osc(s, end, n) == [bytes |-> SubSeq(s, 1, end + n), payload |-> SubSeq(s, 3, end)]

(* A plausible bug: an escape at the end of a piece is text.               *)
KeepNothing(s) == 0
EscapeAtEnd(s) == IF s # <<>> /\ Last(s) = "esc" THEN 1 ELSE 0
Retained(s) == EscapeAtEnd(s)

(* The loop: the pieces of s that are complete, and what has to wait.  One *)
(* turn takes the first piece, and cut is what it does with the rest.      *)
CutFirst(cut, s) ==
  LET start == FindBytes(s, <<"esc", "]">>)
      end == Terminator(s)
      keep == Retained(s)
      Before(piece, rest) == [rest EXCEPT !.pieces = <<piece>> \o @]
  IN CASE start = -1 ->
            [pieces |-> IF Len(s) = keep THEN <<>> ELSE <<Text(SubSeq(s, 1, Len(s) - keep))>>,
             rest |-> From(s, Len(s) - keep)]
       [] start > 0 -> Before(Text(SubSeq(s, 1, start)), cut[From(s, start)])
       [] start = 0 /\ end[1] = -1 -> [pieces |-> <<>>, rest |-> s]
       [] start = 0 /\ end[1] # -1 -> Before(Osc(s, end[1], end[2]), cut[From(s, end[1] + end[2])])
Cut[s \in Seq(Bytes)] == CutFirst(Cut, s)

-----------------------------------------------------------------------------
(* The screen.  Of the emulator only the switch to the alternate screen.   *)

Blank == [bytes |-> <<>>, alternate |-> FALSE, directory |-> "none", blocks |-> <<>>, id |-> 0]

advance_terminal_bytes(sc, bytes) ==
  LET switches == {i \in DOMAIN bytes : bytes[i] \in {"alt", "main"}}
  IN [sc EXCEPT !.bytes = @ \o bytes,
                !.alternate = IF switches = {} THEN @ ELSE bytes[Max(switches)] = "alt"]

(* A plausible bug: the facts of every block are kept.                     *)
AllBlocks(blocks) == blocks
NewestBlocks(blocks) == IF Len(blocks) > MaxBlocks THEN Tail(blocks) ELSE blocks

(* A block starts where the cursor is and takes the directory along; the   *)
(* facts of the oldest blocks are dropped.                                 *)
mark_command_block_start(sc) ==
  LET new == [id |-> sc.id + 1, at |-> Len(sc.bytes), directory |-> sc.directory,
              command |-> "none", exit |-> "none"]
  IN [sc EXCEPT !.id = @ + 1, !.blocks = NewestBlocks(Append(@, new))]

InBlock(sc, b) == [sc EXCEPT !.blocks[Len(sc.blocks)] = b]
handle_shell_integration_osc(sc, payload) ==
  LET current == Last(sc.blocks)
      Says(kind) == Len(payload) = 2 /\ payload[1] = kind
  IN
  CASE Says("dir") -> [sc EXCEPT !.directory = payload[2]]
    [] Says("started") /\ sc.id > 0 -> InBlock(sc, [current EXCEPT !.command = payload[2]])
    [] Says("exited") /\ sc.id > 0 -> InBlock(sc, [current EXCEPT !.exit = payload[2]])
    [] payload = <<"prompt", "A">> /\ ~sc.alternate -> mark_command_block_start(sc)
    [] OTHER -> sc

ShownPiece(sc, p) ==
  LET t == advance_terminal_bytes(sc, p.bytes)
  IN IF p.payload = <<>> THEN t ELSE handle_shell_integration_osc(t, p.payload)
Shown(sc, pieces) ==
  LET shown[n \in 0 .. Len(pieces)] == IF n = 0 THEN sc ELSE ShownPiece(shown[n - 1], pieces[n])
  IN shown[Len(pieces)]

-----------------------------------------------------------------------------
(* Hiding.                                                                 *)

Off == [on |-> FALSE, pending |-> <<>>]

(* What of the bytes goes on, and the suppression after them: it keeps no  *)
(* more than could still be the start of the marker.                       *)
filter_suppressed_output(bytes) ==
  LET all == hiding.pending \o bytes
      at == FindBytes(all, Marker)
      kept == Len(Marker) - 1
  IN CASE ~hiding.on -> [visible |-> bytes, hiding |-> Off]
       [] hiding.on /\ at # -1 -> [visible |-> From(all, at + Len(Marker)), hiding |-> Off]
       [] OTHER -> [visible |-> <<>>,
                    hiding |-> [on |-> TRUE,
                                pending |-> IF Len(all) > kept THEN From(all, Len(all) - kept)
                                            ELSE all]]

(* The same with all that was hidden at hand.                              *)
Unhidden(bytes) ==
  LET all == unhidden.since \o bytes
      at == FindBytes(all, Marker)
  IN CASE ~hiding.on -> [unhidden EXCEPT !.shown = @ \o bytes]
       [] hiding.on /\ at # -1 ->
            [shown |-> unhidden.shown \o From(all, at + Len(Marker)), since |-> <<>>]
       [] OTHER -> [unhidden EXCEPT !.since = all]

-----------------------------------------------------------------------------

OutputInit ==
  /\ stream \in [bytes : OutputStreams, at : {0}]
  /\ hiding = Off /\ oscPending = <<>> /\ screen = Blank
  /\ unhidden = [shown |-> <<>>, since |-> <<>>] /\ overlong = FALSE

(* write_bytes: the next n bytes arrive in one piece.  An operating system *)
(* command that grows too long goes to the emulator as it is.              *)
write_bytes(n) ==
  LET bytes == SubSeq(stream.bytes, stream.at + 1, stream.at + n)
      filtered == filter_suppressed_output(bytes)
      cut == Cut[oscPending \o filtered.visible]
      sc == Shown(screen, cut.pieces)
      long == Len(cut.rest) > MaxOsc
  IN /\ stream.at + n <= Len(stream.bytes)
     /\ stream' = [stream EXCEPT !.at = @ + n]
     /\ hiding' = filtered.hiding
     /\ oscPending' = IF long THEN <<>> ELSE cut.rest
     /\ screen' = IF long THEN advance_terminal_bytes(sc, cut.rest) ELSE sc
     /\ unhidden' = Unhidden(bytes)
     /\ overlong' = (overlong \/ long)

(* The command runner hides the echo of its setup, once in a stream.       *)
suppress_output_until ==
  /\ ~hiding.on /\ unhidden.shown = SubSeq(stream.bytes, 1, stream.at)
  /\ hiding' = [on |-> TRUE, pending |-> <<>>]
  /\ UNCHANGED <<stream, oscPending, screen, unhidden, overlong>>

cancel_output_suppression ==
  /\ hiding.on
  /\ hiding' = Off /\ unhidden' = [unhidden EXCEPT !.since = <<>>]
  /\ UNCHANGED <<stream, oscPending, screen, overlong>>

OutputNext ==
  \/ \E n \in 1 .. Len(stream.bytes) : write_bytes(n)
  \/ suppress_output_until \/ cancel_output_suppression

OutputSpec == OutputInit /\ [][OutputNext]_outputVars

-----------------------------------------------------------------------------

(* What waits is bounded, and the facts kept are those of the newest blocks. *)
OutputTypeOK ==
  /\ stream.at \in 0 .. Len(stream.bytes) /\ Len(oscPending) <= MaxOsc
  /\ hiding.on \in BOOLEAN /\ Len(hiding.pending) < Len(Marker)
  /\ screen.alternate \in BOOLEAN /\ Len(screen.blocks) <= MaxBlocks
  /\ \A i \in 1 .. Len(screen.blocks) : screen.blocks[i].id = screen.id - Len(screen.blocks) + i
  /\ overlong \in BOOLEAN

(* The pieces in which output arrives do not matter: while no command was  *)
(* too long, the emulator, the blocks and the bytes that wait are those of *)
(* the whole output in one piece, hidden up to the marker.                 *)
PiecesDoNotMatter ==
  LET whole == Cut[unhidden.shown] IN
  ~overlong => /\ oscPending = whole.rest
               /\ screen = Shown(Blank, whole.pieces)
=============================================================================
