------------------------------ MODULE MCBlocks ------------------------------
(***************************************************************************)
(* Block production and the parts around it, side by side: the executor,   *)
(* the key-value executor, the solo sequencer, the encodings, the check of *)
(* forced inclusion, its retriever and the local DA layer.  They share no  *)
(* variable here, so one of them moves in a behaviour and the others keep  *)
(* one initial state.                                                      *)
(***************************************************************************)
EXTENDS Executor, KVExecutor, SoloSequencer, Wire, InclusionCheck, DARetrieval, LocalDA

CONSTANTS a, b, big
VARIABLE part

(* A key written twice in a block, another key, a malformed transaction.   *)
MCKVBlocks ==
    {<<[k |-> "a", v |-> 1], [k |-> "a", v |-> 2]>>, <<[k |-> "a", v |-> 1], [k |-> "b", v |-> 1]>>,
     <<[k |-> "", v |-> 1]>>}

(* Sizes that fill a block exactly, in part, and one that fits in none.    *)
MCSizes == <<1, 2, 1, 3, 1, 2>>

(* Headers of this release, of the first block and of a later one, and two *)
(* of a release that wrote the legacy fields.                              *)
Key == <<"key">>
Plain(height, last, appv, old) ==
    [block |-> 1, appv |-> appv, height |-> height, time |-> 1, last |-> last, data |-> <<"d">>,
     app |-> <<"r">>, proposer |-> KeyAddr(Key), validator |-> <<>>, chain |-> <<"c">>, legacy |-> old]
Signed(h) ==
    [h |-> h, pub |-> Key,
     sig |-> <<Key, IF h.legacy = NoLegacy THEN HeaderMarshal(h) ELSE marshalLegacyHeader(h)>>]
Old == [commit |-> <<"lc">>, consensus |-> <<"zeros">>, results |-> <<"lr">>]
MCHeaders ==
    {Signed(Plain(1, <<>>, 0, NoLegacy)), Signed(Plain(2, <<"p">>, 1, NoLegacy)),
     Signed(Plain(1, <<>>, 0, Old)), Signed(Plain(2, <<"p">>, 1, [Old EXCEPT !.commit = <<>>]))}
Meta(height, last) == [chain |-> <<"c">>, height |-> height, time |-> 1, last |-> last]
MCData ==
    {[d |-> d, pub |-> Key, sig |-> <<Key, DataMarshal(d)>>] :
       d \in {[meta |-> Meta(1, <<>>), txs |-> << <<"t">> >>],
              [meta |-> Meta(2, <<"l">>), txs |-> << <<>>, <<"t">> >>]}}
MCStates ==
    {[block |-> 1, appv |-> 0, chain |-> <<"c">>, initial |-> 1, height |-> h, sec |-> 1, nanos |-> 5,
      da |-> h, app |-> <<"r">>, last |-> IF h = 0 THEN <<>> ELSE <<"p">>, next |-> KeyAddr(Key)] : h \in 0..1}

(* Two epochs with forced transactions, one of them invalid.               *)
MCPosted == [i \in 1..8 |-> CASE i = 1 -> {"t1"} [] i = 4 -> {"t2", "bad"} [] OTHER -> {}]

(* Epochs with one, two and two blobs, one of them oversized.              *)
MCBlobs == <<<<a>>, <<>>, <<b, big>>, <<>>, <<a>>, <<b>>>>

(* A blob of each namespace, and one that fits before one that does not.   *)
MCSubmissions ==
    {<<[ns |-> "n1", size |-> 1], [ns |-> "n2", size |-> 1]>>, <<[ns |-> "n1", size |-> 1], [ns |-> "n1", size |-> 2]>>}

all == <<part, vars, kvVars, sVars, wVars, vVars, rVars, lVars>>

MCInit ==
    /\ part \in {"executor", "kv", "solo", "wire", "check", "retrieval", "localDA"}
    /\ Init /\ (part # "executor" => legacy = {} /\ ~rollbackable)
    /\ KVInit /\ SInit /\ WInit /\ VInit
    /\ RInit /\ (part # "retrieval" => stamped)
    /\ LInit

(* Only the executor and the encodings never stop.                         *)
Rests == part \notin {"executor", "wire"} /\ UNCHANGED all

MCNext ==
    \/ part = "executor" /\ Next /\ UNCHANGED <<part, kvVars, sVars, wVars, vVars, rVars, lVars>>
    \/ part = "kv" /\ KVNext /\ UNCHANGED <<part, vars, sVars, wVars, vVars, rVars, lVars>>
    \/ part = "solo" /\ SNext /\ UNCHANGED <<part, vars, kvVars, wVars, vVars, rVars, lVars>>
    \/ part = "wire" /\ WNext /\ UNCHANGED <<part, vars, kvVars, sVars, vVars, rVars, lVars>>
    \/ part = "check" /\ VNext /\ UNCHANGED <<part, vars, kvVars, sVars, wVars, rVars, lVars>>
    \/ part = "retrieval" /\ RNext /\ UNCHANGED <<part, vars, kvVars, sVars, wVars, vVars, lVars>>
    \/ part = "localDA" /\ LNext /\ UNCHANGED <<part, vars, kvVars, sVars, wVars, vVars, rVars>>
    \/ Rests

MCSpec == MCInit /\ [][MCNext]_all /\ WF_vars(part = "executor" /\ Progress)
=============================================================================
