------------------------------- MODULE Blocks -------------------------------
(***************************************************************************)
(* Headers, data and chain state, and the checks that admit a block        *)
(* (types/header.go, signed_header.go, data.go, state.go).                 *)
(*                                                                         *)
(* A header is a record with the fields of types.SignedHeader that a check *)
(* reads; `id' stands for its hash (no two headers share one), `signer'    *)
(* for the public key it carries and `sig' for the key and the payload the *)
(* signature was made with.  Data is a record of its metadata and of       *)
(* `txs', whose value is its DA commitment.  Time 0, proposer NoOne and    *)
(* hash NoHash are the empty values the checks test for.                   *)
(***************************************************************************)
EXTENDS Integers

CONSTANTS
  ChainID,       \* the chain this node follows
  Empty          \* the commitment of a block without transactions

NoOne == "no_one"
NoHash == <<"no_hash">>

\* The address derived from a public key: keys are named by their address.
KeyAddress(pub) == pub

------------------------------------------------------------------------------
\* Header.ValidateBasic; horizon is the clock plus MaxClockDrift.
HeaderValidateBasic(h, horizon) ==
  /\ h.proposer # NoOne
  /\ h.time # 0
  /\ h.time <= horizon

validateSignerIdentity(h) ==
  /\ h.signer # NoOne
  /\ KeyAddress(h.signer) = h.addr

\* The payloads tried in turn: the configured provider's, the slim header and
\* the legacy header.  A signature over any of them is good.
SignatureVerifies(h, provider) ==
  /\ h.sig.by = h.signer
  /\ h.sig.over \in {provider, "slim", "legacy"}

\* SignedHeader.ValidateBasic (aggregator) and ValidateBasicWithData (sync
\* node) differ only in the provider they ask.
SignedValidateBasic(h, provider, horizon) ==
  /\ HeaderValidateBasic(h, horizon)
  /\ h.sig.by # NoOne
  /\ validateSignerIdentity(h)
  /\ h.proposer = h.addr
  /\ SignatureVerifies(h, provider)

\* SignedHeader.Verify, asked by the P2P sync of adjacent headers only.
HeaderVerify(trusted, h) ==
  trusted.height + 1 = h.height => h.last = trusted.id

------------------------------------------------------------------------------
\* The hash of data covers its metadata, the DA commitment only the txs.
DataHash(d) == <<d.height, d.time, d.txs>>
DACommitment(d) == d.txs

\* types.Validate: data without metadata is held to its commitment alone.
PairValid(h, d) ==
  /\ d.meta => h.chain = d.chain /\ h.height = d.height /\ h.time = d.time
  /\ DACommitment(d) = h.data

\* Data.Verify and Data.Validate, asked by the P2P sync.
DataVerify(trusted, d) == d.last = DataHash(trusted)

DataValidate(d, horizon) ==
  d.meta /\ d.chain # NoOne /\ d.height # 0 /\ d.time # 0 /\ d.time <= horizon

------------------------------------------------------------------------------
\* A state is [height, time, last, app, da, next]: what types.State keeps of
\* the last block, with `next' the proposer expected for the following one.
\* mutant: any proposer will do.
AssertExpectedProposer_Any(s, h) == h.proposer # NoOne

AssertExpectedProposer(s, h) == s.next = NoOne \/ h.proposer = s.next

\* AssertValidSequence.  hashErrs is the process-wide count of header links
\* let through for a node that was a based sequencer: the first wrong link is
\* accepted and counted, every later one is refused.
SequenceFault(s, h, hashErrs) ==
  CASE h.chain # ChainID -> "chain"
    [] h.chain = ChainID /\ s.last = NoHash -> "ok"
    [] OTHER ->
       IF h.height # s.height + 1 THEN "height"
       ELSE IF s.time > h.time THEN "time"
       ELSE IF h.last # s.last /\ hashErrs = 1 THEN "last_hash"
       ELSE IF h.app # s.app THEN "app_hash" ELSE "ok"

\* The count after the check: only a wrong link that is reached is counted.
HashErrsAfter(s, h, hashErrs) ==
  IF /\ h.chain = ChainID /\ s.last # NoHash /\ h.height = s.height + 1
     /\ s.time <= h.time /\ h.last # s.last
    THEN 1 ELSE hashErrs

\* State.NextState: the execution layer may name the next proposer.
NextState(s, h, root, named) ==
  [s EXCEPT !.height = h.height, !.time = h.time, !.last = h.id, !.app = root,
            !.next = IF named # NoOne THEN named
                     ELSE IF s.next # NoOne THEN s.next ELSE h.proposer]
=============================================================================
