------------------------------ MODULE Formats ------------------------------
(***************************************************************************)
(* The formats of the emulator, each given an input once: a request and a  *)
(* list (ListProtocol), a heartbeat and a text packet (Packets), a choice  *)
(* of a video mode (VideoFallback); or a connection that is encrypted      *)
(* (Sapphire).                                                             *)
(***************************************************************************)
EXTENDS ListProtocol, Packets, VideoFallback, Sapphire

CONSTANTS
  Requests,     \* requests a client sends
  Lists,        \* servers, fields, how these are sent, and options
  NATNEG,       \* the key "natneg"
  Names,        \* names a player filters by, and the rest of the filter
  Heartbeats,   \* heartbeats of game servers
  TextPackets,  \* pairs of a text packet, and the key that is asked for
  ModeChoices   \* modes the renderer knows, the requested and the desktop's

(* As many modes as there are, whatever is asked for; only the rates are   *)
(* bounded (see Rate).                                                     *)
ASSUME ModesAssumption ==
  \A x \in ModeChoices :
    /\ x.modes \in Seq(Mode)
    /\ x.requested \in Mode \cup {<<>>}
    /\ x.desktop \in Mode \cup {<<>>}

(* The address of the client that asks for a list.                         *)
Client == <<9, 9, 9, 9>>

(* Requests, lists, filters and packets of any number and length, but of   *)
(* the kinds ListProtocol and Packets say.                                 *)
ASSUME RequestsAssumption == \A r \in Requests : IsRequest(r)
ASSUME ListsAssumption == \A x \in Lists : IsList(Client, x.servers, x.fields, x.sends)
ASSUME NamesAssumption == \A x \in Names : IsFilter(x.name, x.more)
ASSUME HeartbeatsAssumption == \A h \in Heartbeats : IsBeat(h)
ASSUME TextPacketsAssumption == \A x \in TextPackets : IsText(x.pairs, x.asked)

VARIABLE input

Is(kind) == input.kind = kind

Take(kind, S) ==
  /\ Is("nothing") /\ sent = <<>>
  /\ \E x \in S : input' = [kind |-> kind, of |-> x]
  /\ UNCHANGED channel

FormatsInit == input = [kind |-> "nothing"] /\ ChannelInit

FormatsNext ==
  \/ Take("request", Requests)
  \/ Take("list", Lists)
  \/ Take("name", Names)
  \/ Take("beat", Heartbeats)
  \/ Take("text", TextPackets)
  \/ Take("mode", ModeChoices)
  \/ Is("nothing") /\ ChannelNext /\ UNCHANGED input

FormatsSpec == FormatsInit /\ [][FormatsNext]_<<input, channel>>

(* A request arrives as it was sent, a list is read as the rows it was     *)
(* made of, and the name of a filter is looked for as it was typed         *)
(* (ServerListRequest::Parse, HandleServerListRequest, BF2::GetServers).   *)
ListReadBack ==
  /\ Is("request") => RequestReadBack(input.of)
  /\ Is("list") => ListReadBackFor(Client, input.of.servers, input.of.fields,
                                   input.of.sends, NATNEG, input.of.options)
  /\ Is("name") => NameReadBack(input.of.name, input.of.more)

(* A heartbeat and a text packet are read as they were sent, and of a      *)
(* heartbeat that is cut nothing else (QRHeartbeatPacket::Parse,           *)
(* value_for_key).                                                         *)
PacketReadBack ==
  /\ Is("beat") => HeartbeatReadBack(input.of)
  /\ Is("text") => TextReadBack(input.of.pairs, input.of.asked)

(* The renderer is given a mode it knows, and the closest one              *)
(* (VideoOptions::setDynamicOption).                                       *)
ClosestModeSet ==
  Is("mode") => KnownAndClosest(input.of.modes, input.of.requested, input.of.desktop)
=============================================================================
