------------------------- MODULE MCIngestionQueue -------------------------
(* The uploads of the ingestion runs: which jobs carry the same bytes.     *)
EXTENDS IngestionQueue, TLC

OneFile == [j \in Jobs |-> 1]
\* Workers run the same code and are never compared.
WorkerSymmetry == Permutations(Workers)

OwnFiles == [j \in Jobs |-> j]

===========================================================================
