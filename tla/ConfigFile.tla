------------------------------ MODULE ConfigFile ------------------------------
(***************************************************************************)
(* The parser of WireGuard configs (src/src/core/config/parser.rs), line by   *)
(* line, and the mapping of a parsed config to the settings of the device    *)
(* (core/config/mapping.rs).                                                *)
(*                                                                         *)
(* A line is what the parser tells apart: blank or a comment, a header, a    *)
(* key with a value, or none of these.  The value of a key is the number of   *)
(* its line, so that a value that lands in the wrong place shows.           *)
(***************************************************************************)
EXTENDS Naturals, Sequences, FiniteSets, SequencesExt

CONSTANTS InterfaceOnce,  \* keys of [Interface] that may come once
          InterfaceMany,  \* Address and DNS, which add up
          PeerOnce,       \* keys of [Peer] that may come once
          PeerMany,       \* AllowedIPs, which add up
          MaxLines

VARIABLES
  text,        \* the lines read so far
  section,     \* "none", "interface" or "peer"
  interface,   \* InterfaceBuilder: the lines that set each key
  seen,        \* seen_interface
  current,     \* current_peer, or NoPeer
  peers,       \* the peers finished so far
  result,      \* "reading", "error", "config"
  device       \* peers of DeviceSettings, with the address of their endpoint

vars == <<text, section, interface, seen, current, peers, result, device>>
parsed == <<section, interface, seen, current, peers>>

Keys == InterfaceOnce \cup InterfaceMany \cup PeerOnce \cup PeerMany
Lines == {[kind |-> k] : k \in {"blank", "other", "[Interface]", "[Peer]", "[Other]"}}
         \cup {[kind |-> "key", key |-> k, value |-> v] : k \in Keys, v \in {"good", "bad"}}
         \cup {[kind |-> "key", key |-> "Unknown", value |-> "good"]}
         \cup {[kind |-> "key", key |-> k, value |-> "off"] : k \in Keys \cap {"FwMark"}}

NoPeer == [key \in {} |-> {}]
EmptyInterface == [k \in InterfaceOnce \cup InterfaceMany |-> {}]
NewPeer == [k \in PeerOnce \cup PeerMany |-> {}]

Init ==
  /\ text = <<>> /\ section = "none" /\ seen = FALSE
  /\ interface = EmptyInterface /\ current = NoPeer /\ peers = <<>>
  /\ result = "reading" /\ device = <<>>

-----------------------------------------------------------------------------
Read(l) == /\ result = "reading" /\ Len(text) < MaxLines /\ text' = Append(text, l)
Number == Len(text) + 1

Error == result' = "error" /\ UNCHANGED <<parsed, device>>
Continue == UNCHANGED <<result, device>>

Blank ==
  /\ Read([kind |-> "blank"])
  /\ Continue /\ UNCHANGED parsed

(* PeerBuilder::finish: a peer needs its public key.                         *)
Complete(peer) == peer = NoPeer \/ peer["PublicKey"] # {}
Committed == IF current = NoPeer THEN peers ELSE Append(peers, current)

(* A header ends the peer before it.                                        *)
InterfaceHeaderTwice ==                    \* mutant: a second [Interface] is merged
  /\ Read([kind |-> "[Interface]"])
  /\ IF ~Complete(current) THEN Error
     ELSE /\ section' = "interface" /\ seen' = TRUE
          /\ peers' = Committed /\ current' = NoPeer
          /\ Continue /\ UNCHANGED interface

InterfaceHeader ==
  /\ Read([kind |-> "[Interface]"])
  /\ IF seen \/ ~Complete(current) THEN Error
     ELSE /\ section' = "interface" /\ seen' = TRUE
          /\ peers' = Committed /\ current' = NoPeer
          /\ Continue /\ UNCHANGED interface

PeerHeaderCarriesOver ==                   \* mutant: values stay for the next peer
  /\ Read([kind |-> "[Peer]"])
  /\ IF ~Complete(current) THEN Error
     ELSE /\ section' = "peer" /\ peers' = Committed
          /\ current' = IF current = NoPeer THEN NewPeer ELSE [current EXCEPT !["PublicKey"] = {}]
          /\ Continue /\ UNCHANGED <<interface, seen>>

PeerHeader ==
  /\ Read([kind |-> "[Peer]"])
  /\ IF ~Complete(current) THEN Error
     ELSE /\ section' = "peer" /\ peers' = Committed /\ current' = NewPeer
          /\ Continue /\ UNCHANGED <<interface, seen>>

Malformed ==
  /\ \E k \in {"other", "[Other]"} : Read([kind |-> k])
  /\ Error

(* A key of the section's own that came once already is an error, except      *)
(* that a FwMark that is off leaves nothing behind to compare with.          *)
Duplicate(builder, once, key) == key \in once /\ builder[key] # {}

(* Whether a value can be read is not looked into.                           *)
Readable(l) == l.value # "bad"

Set(builder, l) ==
  IF l.value = "off" THEN builder ELSE [builder EXCEPT ![l.key] = @ \cup {Number}]

InterfaceKey ==
  /\ section = "interface"
  /\ \E l \in Lines :
       /\ l.kind = "key" /\ Read(l)
       /\ IF \/ l.key \notin InterfaceOnce \cup InterfaceMany \/ ~Readable(l)
             \/ Duplicate(interface, InterfaceOnce, l.key)
          THEN Error
          ELSE /\ interface' = Set(interface, l)
               /\ Continue /\ UNCHANGED <<section, seen, current, peers>>

PeerKey ==
  /\ section = "peer"
  /\ \E l \in Lines :
       /\ l.kind = "key" /\ Read(l)
       /\ IF \/ l.key \notin PeerOnce \cup PeerMany \/ ~Readable(l)
             \/ Duplicate(current, PeerOnce, l.key)
          THEN Error
          ELSE /\ current' = Set(current, l)
               /\ Continue /\ UNCHANGED <<section, interface, seen, peers>>

KeyOutside ==
  /\ section = "none"
  /\ \E l \in Lines : l.kind = "key" /\ Read(l)
  /\ Error

(* The end of the text: the last peer, the interface, its private key.        *)
EndForgetsPeer ==                          \* mutant: the last peer is not added
  /\ result = "reading" /\ UNCHANGED text
  /\ IF ~Complete(current) \/ ~seen \/ interface["PrivateKey"] = {} THEN Error
     ELSE result' = "config" /\ UNCHANGED <<section, seen, current, peers, interface, device>>

End ==
  /\ result = "reading" /\ UNCHANGED text
  /\ IF ~Complete(current) \/ ~seen \/ interface["PrivateKey"] = {} THEN Error
     ELSE /\ result' = "config" /\ peers' = Committed /\ current' = NoPeer
          /\ UNCHANGED <<section, seen, interface, device>>

(* Endpoint::resolve_socket_addr: the first IPv4 address of a name, or else   *)
(* its first address.                                                       *)
Answers == {<<>>, <<"v4">>, <<"v6">>, <<"v6", "v4">>}

Resolved(answer) ==
  IF "v4" \in ToSet(answer) THEN "v4" ELSE answer[1]

(* to_device_settings: peer by peer, in order; a name that does not resolve   *)
(* ends it.                                                                *)
MapPeer ==
  /\ result = "config" /\ Len(device) < Len(peers)
  /\ LET peer == peers[Len(device) + 1]
         to == [key |-> peer["PublicKey"], allowed |-> peer["AllowedIPs"]]
     IN IF peer["Endpoint"] = {}
        THEN device' = Append(device, to @@ [at |-> "none"]) /\ UNCHANGED result
        ELSE \E answer \in Answers :
               IF answer = <<>> THEN result' = "unresolved" /\ UNCHANGED device
               ELSE device' = Append(device, to @@ [at |-> Resolved(answer)]) /\ UNCHANGED result
  /\ UNCHANGED <<text, parsed>>

Next == \/ Blank \/ InterfaceHeader \/ PeerHeader \/ Malformed
        \/ InterfaceKey \/ PeerKey \/ KeyOutside \/ End \/ MapPeer

Spec == Init /\ [][Next]_vars

-----------------------------------------------------------------------------
(* What a text means, by its lines rather than in their order: the block of   *)
(* a header is the lines after it up to the next header.                     *)
Headers == {i \in DOMAIN text : text[i].kind \in {"[Interface]", "[Peer]", "[Other]"}}
Block(h) == {i \in DOMAIN text : /\ text[i].kind = "key" /\ i > h
                                 /\ \A g \in Headers : g > h => g > i}
Sets(h, key) == {i \in Block(h) : text[i].key = key /\ text[i].value # "off"}
Of(kind) == {h \in Headers : text[h].kind = kind}

(* Only a FwMark that is off may stand beside another, before it.            *)
Once(h, key) == \A i \in Sets(h, key), j \in Block(h) : text[j].key = key => j <= i

BlockFits(h, once, many, required) ==
  /\ \A i \in Block(h) : text[i].key \in once \cup many /\ text[i].value # "bad"
  /\ \A k \in once : Once(h, k)
  /\ Sets(h, required) # {}

WellFormed ==
  /\ \A i \in DOMAIN text : text[i].kind \notin {"other", "[Other]"}
  /\ \A i \in DOMAIN text : text[i].kind = "key" => \E h \in Headers : h < i
  /\ Cardinality(Of("[Interface]")) = 1
  /\ \A h \in Of("[Interface]") : BlockFits(h, InterfaceOnce, InterfaceMany, "PrivateKey")
  /\ \A h \in Of("[Peer]") : BlockFits(h, PeerOnce, PeerMany, "PublicKey")

PeersMeant ==
  LET hs == SetToSortSeq(Of("[Peer]"), LAMBDA a, b : a < b)
  IN [n \in DOMAIN hs |-> [k \in PeerOnce \cup PeerMany |-> Sets(hs[n], k)]]

TypeOK ==
  /\ text \in Seq(Lines) /\ Len(text) <= MaxLines
  /\ section \in {"none", "interface", "peer"} /\ seen \in BOOLEAN
  /\ result \in {"reading", "error", "config", "unresolved"}
  /\ section = "peer" /\ result = "reading" => current # NoPeer
  /\ Len(device) <= Len(peers)

(* The parser takes the texts that are well formed and no others, and every   *)
(* value lands in the section, and in the peer, it was written in: keys are   *)
(* not lost, doubled or carried over, whatever the order of the sections.     *)
(* The device gets the peers in the same order, each with its own values.     *)
ParsesExactly ==
  /\ result \in {"config", "unresolved"} =>
       /\ WellFormed
       /\ interface = [k \in InterfaceOnce \cup InterfaceMany |->
                         UNION {Sets(h, k) : h \in Of("[Interface]")}]
       /\ peers = PeersMeant
       /\ \A n \in DOMAIN device :
            /\ device[n].key = peers[n]["PublicKey"] /\ device[n].allowed = peers[n]["AllowedIPs"]
            /\ (device[n].at = "none") = (peers[n]["Endpoint"] = {})
  /\ result = "error" => ~WellFormed
=============================================================================
