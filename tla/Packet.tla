------------------------------- MODULE Packet --------------------------------
(***************************************************************************)
(* The packets of the load generator: prepare_udp and prepare_tcp, the     *)
(* payload with its time stamp, and the place where the receiver thread    *)
(* looks for the stamp in the echo.                                        *)
(*                                                                         *)
(* A frame is the sequence of the pieces appended to the mbuf, each with   *)
(* its length.  The first step chooses the build (_USE_TCP or not) and the *)
(* values of --add-katran-opt and --payload.  payload_length is the int of *)
(* do_client, which payload_timestamp gets whole; the headers and the mbuf *)
(* get the 16 bits of it that pkt_info holds.  use_vlan is 0 in every      *)
(* configuration.                                                          *)
(***************************************************************************)
EXTENDS Integers, Sequences, Functions

CONSTANTS
  Katrans,                   \* values of --add-katran-opt
  Payloads,                  \* values of --payload
  Rands,                     \* values of myrand()
  ROOM,                      \* data room of an mbuf
  LITERAL                    \* length of PAYLOAD

ETHER == 14
IPV4  == 20
UDP   == 8
TCP   == 20
STAMP == 8                   \* sizeof(uint64_t)
KATRAN_OPT == 6              \* KATRAN_TCP_HDR_OPT_LEN_TPR
NOPS  == 2
UINT16 == 65536              \* the values of a length field

ASSUME PacketAssumption ==
  /\ Katrans \subseteq Nat /\ Rands \subseteq Nat
  /\ Payloads \subseteq Nat \ {0}         \* checked by parse_args
  /\ LITERAL \in Nat
  /\ ROOM \in 0..(UINT16 - 1)             \* buf_len is a uint16_t
  /\ ETHER + IPV4 + TCP + KATRAN_OPT + NOPS <= ROOM

VARIABLES
  tcp, katran, payload_length,            \* the build and the options
  ppc,
  frame,                                  \* pieces, as <<name, length>>
  total_length, dgram_len, data_off,      \* the length fields
  srv_id,
  stamp                                   \* what the receiver read

optVars == <<tcp, katran, payload_length>>
packetVars == <<optVars, ppc, frame, total_length, dgram_len, data_off, srv_id,
                stamp>>

PacketInit ==
  /\ tcp = FALSE
  /\ katran = 0
  /\ payload_length = 64
  /\ ppc = "options"
  /\ frame = <<>>
  /\ total_length = 0 /\ dgram_len = 0 /\ data_off = 0
  /\ srv_id = 0
  /\ stamp = "none"

Configure ==
  /\ ppc = "options"
  /\ tcp' \in BOOLEAN
  /\ katran' \in Katrans
  /\ payload_length' \in Payloads
  /\ ppc' = "headers"
  /\ UNCHANGED <<frame, total_length, dgram_len, data_off, srv_id, stamp>>

\* pkt_info.payload_length, a uint16_t
info_length == payload_length % UINT16

\* Bytes of some pieces
Length(pieces) == SumFunction([i \in 1..Len(pieces) |-> pieces[i][2]])

\* prepare_udp
PrepareUdp ==
  /\ ~tcp
  /\ frame' = <<<<"eth", ETHER>>, <<"ip", IPV4>>, <<"udp", UDP>>>>
  /\ dgram_len' = (UDP + info_length) % UINT16
  /\ total_length' = (IPV4 + dgram_len') % UINT16
  /\ UNCHANGED <<data_off, srv_id>>

\* the TCP header with its options
OptsUnpadded == IF katran > 0 THEN KATRAN_OPT ELSE 0
Opts == IF katran > 0 THEN KATRAN_OPT + NOPS ELSE 0

\* server 0 is not a valid one
ServerId(r) == IF r % katran = 0 THEN 1 ELSE r % katran

\* prepare_tcp
PrepareTcp ==
  /\ tcp
  /\ frame' = <<<<"eth", ETHER>>, <<"ip", IPV4>>, <<"tcp", TCP>>>>
                \o (IF katran > 0 THEN <<<<"nops", NOPS>>, <<"opt", KATRAN_OPT>>>>
                    ELSE <<>>)
  /\ total_length' = (IPV4 + TCP + Opts + info_length) % UINT16
  /\ data_off' = ((TCP + Opts) \div 4) % 16
  /\ IF katran > 0 THEN \E r \in Rands : srv_id' = ServerId(r)
     ELSE UNCHANGED srv_id
  /\ UNCHANGED dgram_len

\* The payload is appended; rte_pktmbuf_append returns NULL when the mbuf has
\* no room for it, and the time stamp is then written through that pointer.
Prepare ==
  /\ ppc = "headers"
  /\ PrepareUdp \/ PrepareTcp
  /\ ppc' = IF Length(frame') + info_length <= ROOM THEN "payload" ELSE "null"
  /\ UNCHANGED <<optVars, stamp>>

\* payload_constant_num writes the stamp and payload_length - 8 bytes of PAYLOAD,
\* a difference that wraps for a payload shorter than a stamp; it may be more
\* than PAYLOAD has, or more than was appended
Overrun ==
  \/ payload_length < STAMP
  \/ payload_length - STAMP > LITERAL
  \/ payload_length > info_length

WritePayload ==
  /\ ppc = "payload"
  /\ ~Overrun
  /\ frame' = frame \o <<<<"stamp", STAMP>>, <<"text", payload_length - STAMP>>>>
  /\ ppc' = "sent"
  /\ UNCHANGED <<optVars, total_length, dgram_len, data_off, srv_id, stamp>>

WritePast ==
  /\ ppc = "payload"
  /\ Overrun
  /\ ppc' = "overrun"
  /\ UNCHANGED <<optVars, frame, total_length, dgram_len, data_off, srv_id, stamp>>

\* Where the receiver looks in the echo, whose layout is that of the request
StampOffset == ETHER + IPV4 + UDP

\* the piece that starts at an offset, or "middle"
PieceAt(offset) ==
  IF \E i \in 1..Len(frame) : Length(SubSeq(frame, 1, i - 1)) = offset
  THEN frame[CHOOSE i \in 1..Len(frame) :
               Length(SubSeq(frame, 1, i - 1)) = offset][1]
  ELSE "middle"

\* _run_receiver_thread reads the stamp
ReadStamp ==
  /\ ppc = "sent"
  /\ stamp' = PieceAt(StampOffset)
  /\ ppc' = "echoed"
  /\ UNCHANGED <<optVars, frame, total_length, dgram_len, data_off, srv_id>>

PacketNext == Configure \/ Prepare \/ WritePayload \/ WritePast \/ ReadStamp

PacketSpec == PacketInit /\ [][PacketNext]_packetVars

-----------------------------------------------------------------------------
(* Properties                                                               *)

\* The bytes of a frame from its first piece of one of these names
BytesFrom(names) ==
  LET i == CHOOSE j \in 1..Len(frame) :
             frame[j][1] \in names /\ \A k \in 1..(j - 1) : frame[k][1] \notin names
  IN Length(SubSeq(frame, i, Len(frame)))

\* The length fields of a packet that is sent describe the bytes it has: the
\* IPv4 length all after the Ethernet header, the UDP length all after the IPv4
\* header, the TCP data offset the header with its options; and the server of
\* the Katran option is never 0.
LengthsRight ==
  ppc = "sent" =>
    /\ total_length = BytesFrom({"ip"})
    /\ ~tcp => dgram_len = BytesFrom({"udp"})
    /\ tcp => data_off * 4 = BytesFrom({"tcp"}) - payload_length
    /\ tcp /\ katran > 0 => srv_id > 0

\* In the default build the receiver finds the time stamp where the sender has
\* put it.  It looks at the same offset in the TCP build, where a part of the
\* header is; nothing is claimed of that build.
StampFound == ppc = "echoed" /\ ~tcp => stamp = "stamp"

\* A packet is what its headers say, in both builds, and its stamp is where the
\* receiver looks in the default one, for every --add-katran-opt and --payload
\* with which a packet gets that far.  A payload that payload_constant_num does
\* not write inside its bounds, and one that the mbuf has no room for, end in
\* the phases "overrun" and "null", of which nothing is claimed either.
WellFormed == LengthsRight /\ StampFound
==============================================================================
