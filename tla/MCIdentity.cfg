\* Two threads, three boots or boards, and entropy for a key, a token, and the
\* ones minted again after two crashes.
SPECIFICATION Spec
CONSTANTS
  t1 = t1
  t2 = t2
  Threads <- MCThreads
  MaxMints = 4
  MaxBoots = 3
INVARIANTS TypeOK MintedOnce NodeIsTheDevice StoreHasOneOwner
\* A process whose board has spent its store may have nothing left to do.
CHECK_DEADLOCK FALSE
