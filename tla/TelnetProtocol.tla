--------------------------- MODULE TelnetProtocol ---------------------------
(***************************************************************************)
(* The Telnet protocol of the client (telnet/protocol.rs, telnet/codec.rs):*)
(* option negotiation and the window size, against a server that follows   *)
(* RFC 1143, over two ordered channels; and the byte layer, which takes    *)
(* what the network delivers one byte at a time, wherever it was cut.      *)
(***************************************************************************)
EXTENDS Integers, Sequences, SequencesExt

CONSTANTS
  TelnetOptions, \* the options explored, among them "naws" and one nobody supports
  WindowSizes,   \* geometries of the terminal
  MaxInitiatives,\* bound: changes the server asks for of its own accord
  MaxResizes,    \* bound: resizes of the window
  StreamItems    \* bound: items of the byte stream

ASSUME TelnetAssumption ==
  /\ "naws" \in TelnetOptions
  /\ MaxInitiatives \in Nat /\ MaxResizes \in Nat /\ StreamItems \in Nat

VARIABLES
  client,       \* the client's states of the options, and its geometry
  server,       \* the server's view of each option, and the window size it knows
  toServer,     \* commands on their way to the server
  toClient,
  initiatives, resizes,
  bytes         \* the byte layer: what is to come, the parser, what it produced

telnetVars == <<client, server, toServer, toClient, initiatives, resizes, bytes>>

-----------------------------------------------------------------------------
(* Options.  "No", "WantYes" and "Yes" are NegotiationState.               *)

LocalSupported == {"binary", "sga", "ttype", "naws", "environ", "newEnviron"}
RemoteSupported == {"binary", "echo", "sga"}
InitialLocal == {"ttype", "naws", "newEnviron", "sga"}
InitialRemote == {"echo", "sga"}
SupportsLocal(o) == o \in LocalSupported
SupportsRemote(o) == o \in RemoteSupported

Cmd(c, o) == [cmd |-> c, option |-> o, size |-> 0]
Naws(size) == [cmd |-> "SB", option |-> "naws", size |-> size]
Requests_(cmd, opts) == SetToSeq({Cmd(cmd, o) : o \in opts \cap TelnetOptions})

(* TelnetProtocol::new and initial_commands.                               *)
WantInitially(opts) == [o \in TelnetOptions |-> IF o \in opts THEN "WantYes" ELSE "No"]
InitialCommands == Requests_("WILL", InitialLocal) \o Requests_("DO", InitialRemote)

(* handle_negotiation: the new states and the commands that answer.        *)
SizeWhenEnabled(previous, o, c) ==
  IF previous # "Yes" /\ o = "naws" THEN <<Naws(c.geometry)>> ELSE <<>>
(* A plausible bug: the size goes out only where the option was not asked  *)
(* for before.                                                             *)
SizeWhenNew(previous, o, c) ==
  IF previous = "No" /\ o = "naws" THEN <<Naws(c.geometry)>> ELSE <<>>
SizeOnDo(previous, o, c) == SizeWhenEnabled(previous, o, c)

HandleDo(c, o) ==
  IF SupportsLocal(o)
  THEN [next |-> [c EXCEPT !.local[o] = "Yes"],
        reply |-> (IF c.local[o] = "No" THEN <<Cmd("WILL", o)>> ELSE <<>>)
                    \o SizeOnDo(c.local[o], o, c)]
  ELSE [next |-> [c EXCEPT !.local[o] = "No"], reply |-> <<Cmd("WONT", o)>>]
HandleDont(c, o) ==
  [next |-> [c EXCEPT !.local[o] = "No"],
   reply |-> IF c.local[o] = "Yes" THEN <<Cmd("WONT", o)>> ELSE <<>>]
HandleWill(c, o) ==
  IF SupportsRemote(o)
  THEN [next |-> [c EXCEPT !.remote[o] = "Yes"],
        reply |-> IF c.remote[o] = "No" THEN <<Cmd("DO", o)>> ELSE <<>>]
  ELSE [next |-> [c EXCEPT !.remote[o] = "No"], reply |-> <<Cmd("DONT", o)>>]
HandleWont(c, o) ==
  [next |-> [c EXCEPT !.remote[o] = "No"],
   reply |-> IF c.remote[o] = "Yes" THEN <<Cmd("DONT", o)>> ELSE <<>>]

HandleNegotiation(c, m) ==
  CASE m.cmd = "DO" -> HandleDo(c, m.option)
    [] m.cmd = "DONT" -> HandleDont(c, m.option)
    [] m.cmd = "WILL" -> HandleWill(c, m.option)
    [] m.cmd = "WONT" -> HandleWont(c, m.option)

-----------------------------------------------------------------------------
(* The byte layer.  Symbols stand for the bytes that the parser tells      *)
(* apart; data is "x", CR, LF, NUL and the byte 255.                       *)

StreamVocabulary == {<<"x">>, <<"IAC", "IAC">>, <<"LF">>, <<"CR", "LF">>, <<"CR", "NUL">>,
                     <<"IAC", "WILL", "opt">>, <<"IAC", "NOP">>,
                     <<"IAC", "SB", "opt", "SEND", "IAC", "SE">>,
                     <<"IAC", "SB", "opt", "IAC", "IAC", "IAC", "SE">>}
(* What an item means: the text for the terminal (in binary mode the bytes *)
(* as they are), and the commands seen.                                    *)
Text(i, binary) ==
  CASE i = <<"x">> -> <<"x">> [] i = <<"IAC", "IAC">> -> <<"IAC">>
    [] i = <<"LF">> -> IF binary THEN i ELSE <<"CR", "LF">>
    [] i = <<"CR", "LF">> -> <<"CR", "LF">>
    [] i = <<"CR", "NUL">> -> IF binary THEN i ELSE <<"CR">>
    [] OTHER -> <<>>
Meaning(i) ==
  CASE i = <<"IAC", "WILL", "opt">> -> <<"negotiation">>
    [] i = <<"IAC", "SB", "opt", "SEND", "IAC", "SE">> -> <<<<"SEND">>>>
    [] i = <<"IAC", "SB", "opt", "IAC", "IAC", "IAC", "SE">> -> <<<<"IAC">>>>
    [] OTHER -> <<>>

NewParser(binary) ==
             [state |-> "Data", binary |-> binary, option |-> FALSE, data |-> <<>>, escaped |-> FALSE,
              pendingCr |-> FALSE, output |-> <<>>, commands |-> <<>>]

(* receive_data_byte: outside binary mode a lone LF becomes CR LF, and the *)
(* NUL after a CR goes.                                                    *)
LoneLineFeed(p, b) == b = "LF" /\ ~p.pendingCr
(* A plausible bug: what came before a line feed is forgotten.             *)
AnyLineFeed(p, b) == b = "LF"
NeedsReturn(p, b) == LoneLineFeed(p, b)
DataByte(p, b) ==
  IF p.binary THEN [p EXCEPT !.pendingCr = FALSE, !.output = Append(@, b)]
  ELSE IF p.pendingCr /\ b = "NUL" THEN [p EXCEPT !.pendingCr = FALSE]
  ELSE [p EXCEPT !.output = @ \o (IF NeedsReturn(p, b) THEN <<"CR", b>> ELSE <<b>>),
                 !.pendingCr = (b = "CR")]

Subnegotiation(p, b) ==
  IF ~p.option THEN [p EXCEPT !.option = TRUE]
  ELSE IF p.escaped /\ b = "SE"
  THEN [p EXCEPT !.state = "Data", !.commands = Append(@, p.data)]
  ELSE IF p.escaped
  THEN [p EXCEPT !.escaped = FALSE, !.data = IF b = "IAC" THEN Append(@, b) ELSE @]
  ELSE IF b = "IAC" THEN [p EXCEPT !.escaped = TRUE] ELSE [p EXCEPT !.data = Append(@, b)]

(* receive_byte.                                                           *)
ReceiveByte(p, b) ==
  CASE p.state = "Data" -> IF b = "IAC" THEN [p EXCEPT !.state = "Iac"] ELSE DataByte(p, b)
    [] p.state = "Iac" ->
         (CASE b = "IAC" -> [p EXCEPT !.state = "Data", !.output = Append(@, b)]
            [] b = "WILL" -> [p EXCEPT !.state = "Negotiation"]
            [] b = "SB" -> [p EXCEPT !.state = "Sub", !.option = FALSE, !.data = <<>>,
                                     !.escaped = FALSE]
            [] OTHER -> [p EXCEPT !.state = "Data"])
    [] p.state = "Negotiation" ->
         [p EXCEPT !.state = "Data", !.commands = Append(@, "negotiation")]
    [] p.state = "Sub" -> Subnegotiation(p, b)

(* encode_client_input: newlines become CR LF unless the line is binary,   *)
(* and 255 is doubled.                                                     *)
NormalizeNewlines(s) ==
  LET Keep(k) == ~(s[k] = "LF" /\ k > 1 /\ s[k - 1] = "CR")
      Put(k) == IF s[k] \in {"CR", "LF"} THEN <<"CR", "LF">> ELSE <<s[k]>>
  IN FlattenSeq([k \in 1..Len(s) |-> IF Keep(k) THEN Put(k) ELSE <<>>])
EscapeIac(s) ==
  FlattenSeq([k \in 1..Len(s) |-> IF s[k] = "IAC" THEN <<"IAC", "IAC">> ELSE <<s[k]>>])
EncodeClientInput(s) == EscapeIac(NormalizeNewlines(s))
EncodeClientInputBinary(s) == EscapeIac(s)

(* A stream of the server, or what was typed and a server echoes as it came.*)
Typed == {"x", "LF", "CR", "IAC"}
ServerStream(items, binary) ==
  [todo |-> FlattenSeq(items), parser |-> NewParser(binary),
   text |-> FlattenSeq([k \in DOMAIN items |-> Text(items[k], binary)]),
   seen |-> FlattenSeq([k \in DOMAIN items |-> Meaning(items[k])])]
EchoedStream(typed, binary) ==
  [todo |-> IF binary THEN EncodeClientInputBinary(typed) ELSE EncodeClientInput(typed),
   parser |-> NewParser(binary),
   text |-> IF binary THEN typed ELSE NormalizeNewlines(typed), seen |-> <<>>]

-----------------------------------------------------------------------------
TelnetInit ==
  /\ \E g \in WindowSizes :
       client = [local |-> WantInitially(InitialLocal), remote |-> WantInitially(InitialRemote),
                 geometry |-> g]
  /\ server = [us |-> [o \in TelnetOptions |-> "No"], him |-> [o \in TelnetOptions |-> "No"],
               size |-> 0]
  /\ toServer = InitialCommands
  /\ toClient = <<>>
  /\ initiatives = 0 /\ resizes = 0
  /\ \E n \in 0..StreamItems, binary \in BOOLEAN :
       bytes \in {ServerStream(items, binary) : items \in [1..n -> StreamVocabulary]}
                   \cup {EchoedStream(typed, binary) : typed \in [1..n -> Typed]}

(* receive, for one command; the bytes of a command are the byte layer's.  *)
ClientReceives ==
  /\ toClient # <<>>
  /\ LET r == HandleNegotiation(client, Head(toClient)) IN
       client' = r.next /\ toServer' = toServer \o r.reply
  /\ toClient' = Tail(toClient)
  /\ UNCHANGED <<server, initiatives, resizes, bytes>>

(* resize: the size is sent while the option is on.                        *)
ClientResizes(g) ==
  /\ resizes < MaxResizes /\ g # client.geometry
  /\ client' = [client EXCEPT !.geometry = g]
  /\ toServer' = IF client.local["naws"] = "Yes" THEN Append(toServer, Naws(g)) ELSE toServer
  /\ resizes' = resizes + 1
  /\ UNCHANGED <<server, toClient, initiatives, bytes>>

ByteArrives ==
  /\ bytes.todo # <<>>
  /\ bytes' = [bytes EXCEPT !.todo = Tail(@), !.parser = ReceiveByte(@, Head(bytes.todo))]
  /\ UNCHANGED <<client, server, toServer, toClient, initiatives, resizes>>

(* The server (external): it keeps, for each option of its own (us) and of *)
(* the client (him), No, Yes, or the change it has asked for and waits on. *)
ServerAnswers(side, o, on, yes, no) ==
  LET st == server[side][o] IN
  CASE on /\ st = "No" ->
         \E accept \in BOOLEAN :
           /\ server' = [server EXCEPT ![side][o] = IF accept THEN "Yes" ELSE "No"]
           /\ toClient' = Append(toClient, Cmd(IF accept THEN yes ELSE no, o))
    [] on /\ st # "No" ->
         server' = [server EXCEPT ![side][o] = IF st = "WantNo" THEN "No" ELSE "Yes"]
           /\ UNCHANGED toClient
    [] ~on ->
         /\ server' = [server EXCEPT ![side][o] = "No"]
         /\ toClient' = IF st = "Yes" THEN Append(toClient, Cmd(no, o)) ELSE toClient

ServerReceives ==
  /\ toServer # <<>>
  /\ LET m == Head(toServer) IN
       CASE m.cmd = "SB" -> server' = [server EXCEPT !.size = m.size] /\ UNCHANGED toClient
         [] m.cmd \in {"WILL", "WONT"} ->
              ServerAnswers("him", m.option, m.cmd = "WILL", "DO", "DONT")
         [] m.cmd \in {"DO", "DONT"} ->
              ServerAnswers("us", m.option, m.cmd = "DO", "WILL", "WONT")
  /\ toServer' = Tail(toServer)
  /\ UNCHANGED <<client, initiatives, resizes, bytes>>

ServerAsks(o) ==
  /\ initiatives < MaxInitiatives
  /\ \E side \in {"us", "him"} :
       LET on == server[side][o] = "No"
           yes == IF side = "him" THEN "DO" ELSE "WILL"
           no == IF side = "him" THEN "DONT" ELSE "WONT"
       IN /\ server[side][o] \in {"No", "Yes"}
          /\ server' = [server EXCEPT ![side][o] = IF on THEN "WantYes" ELSE "WantNo"]
          /\ toClient' = Append(toClient, Cmd(IF on THEN yes ELSE no, o))
  /\ initiatives' = initiatives + 1
  /\ UNCHANGED <<client, toServer, resizes, bytes>>

TelnetNext ==
  \/ ClientReceives \/ ServerReceives \/ ByteArrives
  \/ \E g \in WindowSizes : ClientResizes(g)
  \/ \E o \in TelnetOptions : ServerAsks(o)

TelnetSpec == TelnetInit /\ [][TelnetNext]_telnetVars

TelnetTypeOK ==
  /\ client.local \in [TelnetOptions -> {"No", "WantYes", "Yes"}]
  /\ client.remote \in [TelnetOptions -> {"No", "WantYes", "Yes"}]
  /\ client.geometry \in WindowSizes
  /\ server.size \in WindowSizes \cup {0}
  /\ initiatives \in 0..MaxInitiatives /\ resizes \in 0..MaxResizes

(* When nothing is on its way any more, both ends agree on every option,   *)
(* however their requests crossed, and a server that has the window size   *)
(* option on knows the size the terminal has now.                          *)
SettledAgrees ==
  toServer = <<>> /\ toClient = <<>> =>
    /\ \A o \in TelnetOptions :
         /\ (client.local[o] = "Yes") = (server.him[o] = "Yes")
         /\ (client.remote[o] = "Yes") = (server.us[o] = "Yes")
    /\ server.him["naws"] = "Yes" => server.size = client.geometry

(* What reaches the terminal, and the commands seen, are those of the      *)
(* stream, whatever items follow each other and wherever the network cut   *)
(* it; and what was typed comes back as typed, with whole line ends.       *)
StreamUnderstood ==
  bytes.todo = <<>> => bytes.parser.output = bytes.text /\ bytes.parser.commands = bytes.seen
=============================================================================
