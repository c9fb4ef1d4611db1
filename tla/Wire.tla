-------------------------------- MODULE Wire --------------------------------
(* How headers, data and states are written and read back: the store's form,  *)
(* the P2P envelope with its DA hint, the DA envelope with its signature, and  *)
(* the forms of releases before the header was slimmed                        *)
(* (types/serialization.go, p2p_envelope.go, hashing.go, header.go) and       *)
(* how a DA reader tells blobs apart (block/internal/syncing/da_retriever.go,  *)
(* assert.go).  A message is a sequence of protobuf fields <<number, wire      *)
(* type, value>>; byte strings are sequences, <<>> the empty one; a hash or a  *)
(* signature holds what it was made over.                                      *)
EXTENDS Integers, Sequences, SequencesExt, TLC

CONSTANTS
  MadeHeaders,  \* signed headers as their proposers made them
  MadeData,     \* signed data likewise
  MadeStates    \* chain states as a node saved them

VARIABLES
  wObj,     \* signed header object of a reader, none or one
  wDat,     \* data object
  wState,   \* chain state read back
  wire,     \* message under way, none or one
  wStrict,  \* strictMode of the DA reader
  wTaken    \* what the DA reader took the last blob for

wVars == <<wObj, wDat, wState, wire, wStrict, wTaken>>

NoHashYet == <<>>
NoLegacy == [commit |-> <<>>, consensus |-> <<>>, results |-> <<>>]
NoMetadata == [chain |-> <<>>]

\* A proto3 field is left out when it is empty; a submessage that is set is not.
Varint(n, x) == IF x = 0 THEN <<>> ELSE << <<n, "v", x>> >>
Bytes(n, x) == IF x = <<>> THEN <<>> ELSE << <<n, "b", x>> >>
Sub(n, m) == << <<n, "b", m>> >>

\* The value of a field as a reader finds it; a field of another wire type is
\* an unknown field to it.
Field(m, n, w, default) ==
  LET s == SelectSeq(m, LAMBDA f : f[1] = n /\ f[2] = w)
  IN IF s = <<>> THEN default ELSE Last(s)[3]
Uint(m, n) == Field(m, n, "v", 0)
Str(m, n) == Field(m, n, "b", <<>>)
HasSub(m, n) == \E i \in DOMAIN m : m[i][1] = n /\ m[i][2] = "b"

------------------------------------------------------------------------------
\* The legacy fields go behind the known ones, as unknown fields.
encodeLegacyUnknownFields(l) == Bytes(5, l.commit) \o Bytes(7, l.consensus) \o Bytes(9, l.results)

VersionMsg(h) == Varint(1, h.block) \o Varint(2, h.appv)

\* Header.MarshalBinary and Header.ToProto.
HeaderMarshal(h) ==
  Sub(1, VersionMsg(h)) \o Varint(2, h.height) \o Varint(3, h.time) \o Bytes(4, h.last)
  \o Bytes(6, h.data) \o Bytes(8, h.app) \o Bytes(10, h.proposer) \o Bytes(11, h.validator)
  \o Bytes(12, h.chain) \o encodeLegacyUnknownFields(h.legacy)

\* ApplyLegacyDefaults, on a clone.
EnsureDefaults(l) == IF l.consensus = <<>> THEN [l EXCEPT !.consensus = <<"zeros">>] ELSE l

\* marshalLegacyHeader: every field in its old place, numbers written even if zero.
marshalLegacyHeader(h) ==
  LET l == EnsureDefaults(h.legacy) IN
  Sub(1, VersionMsg(h)) \o << <<2, "v", h.height>>, <<3, "v", h.time>> >> \o Bytes(4, h.last)
  \o Bytes(5, l.commit) \o Bytes(6, h.data) \o Bytes(7, l.consensus) \o Bytes(8, h.app)
  \o Bytes(9, l.results) \o Bytes(10, h.proposer) \o Bytes(11, h.validator) \o Bytes(12, h.chain)

\* decodeLegacyHeaderFields: of the unknown fields, those with an old number and type.
decodeLegacyHeaderFields(m) == [commit |-> Str(m, 5), consensus |-> Str(m, 7), results |-> Str(m, 9)]

\* Header.FromProto.
HeaderFrom(m) ==
  LET v == Field(m, 1, "b", <<>>) IN
  [block |-> Uint(v, 1), appv |-> Uint(v, 2), height |-> Uint(m, 2), time |-> Uint(m, 3), last |-> Str(m, 4),
   data |-> Str(m, 6), app |-> Str(m, 8), proposer |-> Str(m, 10), validator |-> Str(m, 11), chain |-> Str(m, 12),
   legacy |-> decodeLegacyHeaderFields(m)]

\* computeHash: the legacy form when there are legacy fields.
computeHash(h) == <<"sha256", IF h.legacy = NoLegacy THEN HeaderMarshal(h) ELSE marshalLegacyHeader(h)>>

\* Header.Hash and MemoizeHash.
Hash(o) == IF o.cached # NoHashYet THEN o.cached ELSE computeHash(o.h)

------------------------------------------------------------------------------
KeyAddr(pub) == <<"address of">> \o pub
SignerMsg(pub) == IF pub = <<>> THEN <<>> ELSE Bytes(1, KeyAddr(pub)) \o Bytes(2, pub)

\* SignedHeader.MarshalBinary, P2PSignedHeader.MarshalBinary and
\* MarshalDAEnvelope; header is the message of the header in it.
SignedMsg(o, header) == Sub(1, header) \o Bytes(2, o.sig) \o Sub(3, SignerMsg(o.pub))
HintField(n, hint) == << <<n, "v", hint>> >>

\* mutant: the object keeps the hash memoized before.
SignedFrom_KeepsHash(m, old) ==
  LET s == Field(m, 3, "b", <<>>) IN
  [h |-> HeaderFrom(Field(m, 1, "b", <<>>)), sig |-> Str(m, 2), pub |-> Str(s, 2), addr |-> Str(s, 1), cached |-> old]

\* SignedHeader.FromProto and FromDAEnvelopeProto into an object that had this
\* memoized hash.
SignedFrom(m, old) ==
  LET s == Field(m, 3, "b", <<>>) IN
  [h |-> HeaderFrom(Field(m, 1, "b", <<>>)), sig |-> Str(m, 2), pub |-> Str(s, 2), addr |-> Str(s, 1), cached |-> NoHashYet]

Verifies(pub, payload, sig) == sig = <<pub, payload>>

HeaderBasic(h) == h.proposer # <<>> /\ h.time # 0

\* SignedHeader.ValidateBasic, the slim payload, then the legacy one.
SignedBasic(o) ==
  /\ HeaderBasic(o.h) /\ o.sig # <<>> /\ o.pub # <<>>
  /\ o.addr = KeyAddr(o.pub) /\ o.h.proposer = o.addr
  /\ \E payload \in {HeaderMarshal(o.h), marshalLegacyHeader(o.h)} : Verifies(o.pub, payload, o.sig)

------------------------------------------------------------------------------
\* Data.MarshalBinary; data without metadata has no field 1.
MetadataMsg(d) == Bytes(1, d.chain) \o Varint(2, d.height) \o Varint(3, d.time) \o Bytes(4, d.last)
TxFields(txs) == [i \in DOMAIN txs |-> <<2, "b", txs[i]>>]
DataMarshal(d) == (IF d.meta = NoMetadata THEN <<>> ELSE Sub(1, MetadataMsg(d.meta))) \o TxFields(d.txs)

\* Data.FromProto.
DataFrom(m) ==
  LET t == Field(m, 1, "b", <<>>)
      txs == SelectSeq(m, LAMBDA f : f[1] = 2 /\ f[2] = "b")
  IN [meta |-> IF HasSub(m, 1) THEN [chain |-> Str(t, 1), height |-> Uint(t, 2), time |-> Uint(t, 3), last |-> Str(t, 4)]
               ELSE NoMetadata,
      txs |-> [i \in DOMAIN txs |-> txs[i][3]]]

\* Data.Hash and DACommitment.
DataHashOf(d) == <<"leaf", DataMarshal(d)>>
CommitmentOf(d) == <<"leaf", TxFields(d.txs)>>

\* SignedData.
SignedDataMsg(o) == Sub(1, DataMarshal(o.d)) \o Bytes(2, o.sig) \o Sub(3, SignerMsg(o.pub))

\* State.MarshalBinary, ToProto and FromProto.
StateMarshal(s) ==
  Sub(1, VersionMsg(s)) \o Bytes(2, s.chain) \o Varint(3, s.initial) \o Varint(4, s.height)
  \o Sub(5, Varint(1, s.sec) \o Varint(2, s.nanos)) \o Varint(6, s.da) \o Bytes(8, s.app)
  \o Bytes(9, s.last) \o Bytes(10, s.next)

StateFrom(m) ==
  LET v == Field(m, 1, "b", <<>>) t == Field(m, 5, "b", <<>>) IN
  [block |-> Uint(v, 1), appv |-> Uint(v, 2), chain |-> Str(m, 2), initial |-> Uint(m, 3), height |-> Uint(m, 4),
   sec |-> Uint(t, 1), nanos |-> Uint(t, 2), da |-> Uint(m, 6), app |-> Str(m, 8), last |-> Str(m, 9), next |-> Str(m, 10)]

------------------------------------------------------------------------------
\* What the DA reader takes a blob for.
EnvelopeValid(m) ==
  LET o == SignedFrom(m, NoHashYet) IN o.pub # <<>> /\ Verifies(o.pub, HeaderMarshal(o.h), Str(m, 4))

tryDecodeHeader(m, strict) ==
  /\ HasSub(m, 1)
  /\ Str(m, 4) # <<>> => EnvelopeValid(m)
  /\ strict => Str(m, 4) # <<>>
  /\ HeaderBasic(SignedFrom(m, NoHashYet).h)

\* With assertValidSignedData.
tryDecodeData(m) ==
  LET d == DataFrom(Field(m, 1, "b", <<>>))
      pub == Str(Field(m, 3, "b", <<>>), 2)
  IN /\ d.txs # <<>> \/ Str(m, 2) # <<>>
     /\ pub # <<>> /\ Verifies(pub, DataMarshal(d), Str(m, 2))
     /\ d.meta # NoMetadata

------------------------------------------------------------------------------
WInit ==
  /\ wObj = {} /\ wDat = {} /\ wState = {} /\ wire = {} /\ wStrict = FALSE
  /\ wTaken = [as |-> "none", was |-> "none", plain |-> TRUE]

Ship(kind, route, msg, of) == wire = {} /\ wire' = {[kind |-> kind, route |-> route, msg |-> msg, of |-> of]}

\* A header leaves its proposer, whose release writes the slim form and signs a
\* DA envelope, or writes the legacy form.
PostHeader ==
  /\ \E made \in MadeHeaders, route \in {"store", "p2p", "da"} :
       LET slim == made.h.legacy = NoLegacy
           msg == IF slim THEN SignedMsg(made, HeaderMarshal(made.h)) ELSE SignedMsg(made, marshalLegacyHeader(made.h))
           more == CASE route = "p2p" -> HintField(4, 0)
                     [] route = "da" /\ slim -> Bytes(4, <<made.pub, HeaderMarshal(made.h)>>)
                     [] OTHER -> <<>>
       IN Ship("header", route, msg \o more, made)
  /\ UNCHANGED <<wObj, wDat, wState, wStrict, wTaken>>

\* A reader passes on what it read: to its store, or to its peers with a DA hint.
RelayHeader ==
  /\ \E o \in wObj :
       \/ Ship("header", "store", SignedMsg(o, HeaderMarshal(o.h)), o.of)
       \/ Ship("header", "p2p", SignedMsg(o, HeaderMarshal(o.h)) \o HintField(4, 1), o.of)
  /\ UNCHANGED <<wObj, wDat, wState, wStrict, wTaken>>

MemoizeHash ==
  /\ \E o \in wObj : o.cached = NoHashYet /\ wObj' = {[o EXCEPT !.cached = computeHash(o.h)]}
  /\ UNCHANGED <<wDat, wState, wire, wStrict, wTaken>>

PostData ==
  /\ \E made \in MadeData :
       \/ Ship("data", "da", SignedDataMsg(made), made.d)
       \/ Ship("data", "p2p", DataMarshal(made.d) \o HintField(3, 0), made.d)
  /\ UNCHANGED <<wObj, wDat, wState, wStrict, wTaken>>

RelayData ==
  /\ \E o \in wDat :
       \/ Ship("data", "store", DataMarshal(o.d), o.of)
       \/ Ship("data", "p2p", DataMarshal(o.d) \o HintField(3, 1), o.of)
  /\ UNCHANGED <<wObj, wDat, wState, wStrict, wTaken>>

SaveState ==
  /\ \E s \in MadeStates : Ship("state", "store", StateMarshal(s), s)
  /\ UNCHANGED <<wObj, wDat, wState, wStrict, wTaken>>

\* Reading a header into the object at hand.
TakeHeader(m, of) ==
  LET old == IF wObj = {} THEN NoHashYet ELSE (CHOOSE o \in wObj : TRUE).cached
  IN wObj' = {SignedFrom(m, old) @@ [of |-> of]}

\* From the store or a peer, where the kind is known.
ReadDirect ==
  /\ \E w \in wire :
       /\ w.route # "da" /\ wire' = {}
       /\ \/ w.kind = "header" /\ TakeHeader(w.msg, w.of) /\ UNCHANGED <<wDat, wState>>
          \/ w.kind = "data" /\ wDat' = {[d |-> DataFrom(w.msg), of |-> w.of]} /\ UNCHANGED <<wObj, wState>>
          \/ w.kind = "state" /\ wState' = {[s |-> StateFrom(w.msg), of |-> w.of]} /\ UNCHANGED <<wObj, wDat>>
  /\ UNCHANGED <<wStrict, wTaken>>

\* processBlobs of one blob: a header if it decodes as one, else data.
ReadBlob ==
  /\ \E w \in wire :
       LET header == tryDecodeHeader(w.msg, wStrict)
           data == ~header /\ tryDecodeData(w.msg)
       IN /\ w.route = "da" /\ wire' = {}
          /\ IF header /\ w.kind = "header" THEN TakeHeader(w.msg, w.of) ELSE UNCHANGED wObj
          /\ IF data /\ w.kind = "data"
               THEN wDat' = {[d |-> DataFrom(Field(w.msg, 1, "b", <<>>)), of |-> w.of]} ELSE UNCHANGED wDat
          /\ wStrict' = (wStrict \/ (header /\ Str(w.msg, 4) # <<>>))
          /\ wTaken' = [as |-> IF header THEN "header" ELSE IF data THEN "data" ELSE "nothing",
                        was |-> w.kind, plain |-> Str(w.msg, 4) = <<>>]
  /\ UNCHANGED wState

WNext ==
  \/ PostHeader \/ RelayHeader \/ MemoizeHash \/ PostData \/ RelayData \/ SaveState
  \/ ReadDirect \/ ReadBlob

WSpec == WInit /\ [][WNext]_wVars

------------------------------------------------------------------------------
\* Whatever way a header took, from store to peer to DA and back, of either
\* form and read into a new object or a used one, its hash is the one it
\* was made with and its signature verifies (serialization.go, hashing.go,
\* signed_header.go).
HeaderKept == \A o \in wObj : Hash(o) = computeHash(o.of.h) /\ SignedBasic(o)

\* Data keeps its hash, by which the next data links to it, and its commitment,
\* by which its header does; a saved state is read back as it was
\* (serialization.go).
ContentsKept ==
  /\ \A o \in wDat : DataHashOf(o.d) = DataHashOf(o.of) /\ CommitmentOf(o.d) = CommitmentOf(o.of)
  /\ \A o \in wState : o.s = o.of

\* The DA reader takes no header for data and no data for a header, though the
\* two blobs have the same outer fields; it passes over only a header without
\* an envelope once it has seen one with (da_retriever.go tryDecodeHeader,
\* tryDecodeData).
BlobsToldApart ==
  wTaken.as # wTaken.was => wTaken.as = "nothing" /\ wTaken.was = "header" /\ wTaken.plain /\ wStrict
=============================================================================
