----------------------------- MODULE HiveVerify -----------------------------
(***************************************************************************)
(* The structural checks of hive/verify/verify.go on the hives the         *)
(* allocator leaves.  Versions, signatures of the REGF header and the      *)
(* HBINs' own offset fields are never written by the allocator and not in  *)
(* its model; the size field of an HBIN is the one growByHBINSize wrote.   *)
(***************************************************************************)
EXTENDS AllocModes

\* REGFHeader.
REGFHeader == fileEnd >= PageSize /\ dataSize % PageSize = 0

\* validateHBINCells: a size of at most a header's ends the walk.
ValidateHBINCells(start, end) ==
  LET next(o) == o + Abs(word[o])
      from[o \in start..end] ==
        IF o >= end \/ word[o] = 0 THEN TRUE ELSE next(o) <= end /\ from[next(o)]
  IN from[start + HbinHeader]

HbinSizeAt(pos) == LET b == CHOOSE b \in bins : b.start = pos IN b.end - b.start

\* HBINStructure.
HBINStructure ==
  LET from[pos \in PageSize..(fileEnd + PageSize)] ==
        IF pos + HbinHeader > fileEnd THEN TRUE
        ELSE /\ word[pos] = HbinSignature
             /\ \E b \in bins : b.start = pos
             /\ LET size == HbinSizeAt(pos)
                IN /\ size > 0 /\ size % PageSize = 0 /\ pos + size <= fileEnd
                   /\ ValidateHBINCells(pos, pos + size)
                   /\ from[pos + size]
  IN fileEnd >= PageSize + HbinHeader /\ from[PageSize]

FileSize == fileEnd = PageSize + dataSize

AllInvariants == REGFHeader /\ HBINStructure /\ FileSize
-----------------------------------------------------------------------------
\* Between any two calls, and when a process dies between them, the hive
\* passes verify.AllInvariants: the HBINs follow each other to the end of the
\* file, the header's data size is right and no cell crosses an HBIN's end.
\* The check is satisfied with an HBIN whose walk stops at a size of 0, as a
\* process that dies in a bump batch leaves one; the HBIN of a finished batch
\* is tiled by its cells.  A hive in which a batch overran its region is not
\* claimed to pass.
VerifyAccepts ==
  ~overran =>
    /\ AllInvariants
    /\ session = "spent" =>
         \A b \in bins : b.end = fileEnd => \E o \in Starts(b) : o + Abs(word[o]) = b.end
=============================================================================
