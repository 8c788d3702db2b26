----------------------------- MODULE WmiAllData -----------------------------
(****************************************************************************)
(* The WNODE_ALL_DATA in which a device answers WMI for all its adapters    *)
(* (nxdevice.cpp): NDIS answers for each of them, and what it answers is    *)
(* merged into one. A WNODE_ALL_DATA is known by its layout, with sizes and *)
(* offsets in bytes:                                                        *)
(*   size     WnodeHeader.BufferSize                                        *)
(*   namesAt  OffsetInstanceNameOffsets                                     *)
(*   blocks   where the data of each instance are, and of which adapter     *)
(*   names    where the name of each instance is, at, the offset that the   *)
(*            array of offsets has for it, and of which adapter it is       *)
(*   needed   SizeNeeded, if WNODE_FLAG_TOO_SMALL is set, otherwise 0       *)
(****************************************************************************)
EXTENDS Integers, Sequences, FiniteSets, SequencesExt

CONSTANTS NetAdapters,       \* NETADAPTERs of a device
          NameSize,          \* of their instance names, with the length in front
          FixedInstanceSize, \* of what is queried, the same for all adapters
          DataBlockOffset

ASSUME WmiAssumption ==
  /\ NameSize \in [NetAdapters -> Nat]
  /\ FixedInstanceSize \in Nat /\ DataBlockOffset \in Nat

UlongSize == 4

RoundedInstanceSize == ((FixedInstanceSize + 7) \div 8) * 8

\* What NDIS answers for an adapter.
SingleData(a) ==
  LET namesAt == DataBlockOffset + RoundedInstanceSize
  IN  [size |-> namesAt + UlongSize + NameSize[a],
       namesAt |-> namesAt,
       blocks |-> <<[at |-> DataBlockOffset, of |-> a]>>,
       names |-> <<[at |-> namesAt + UlongSize, offset |-> namesAt + UlongSize, of |-> a]>>,
       needed |-> 0]

NoData == [size |-> 0, namesAt |-> 0, blocks |-> <<>>, names |-> <<>>, needed |-> 0]

TooSmall(size) == [NoData EXCEPT !.needed = size]

\* The offsets of the names do not account for their own array, which grows as well.
MergedWithoutOffset(all, single, count) ==
  [size |-> all.size + RoundedInstanceSize + (single.size - single.namesAt),
   namesAt |-> all.namesAt + RoundedInstanceSize,
   blocks |-> Append(all.blocks, [at |-> all.namesAt, of |-> single.blocks[1].of]),
   names |-> [i \in DOMAIN all.names |->
                [all.names[i] EXCEPT !.at = @ + RoundedInstanceSize + UlongSize,
                                     !.offset = @ + RoundedInstanceSize]]
             \o <<[at |-> all.size + RoundedInstanceSize + UlongSize,
                   offset |-> all.size + RoundedInstanceSize + UlongSize,
                   of |-> single.names[1].of]>>,
   needed |-> 0]

\* The names move behind one more block and one more offset, and the new one
\* follows them.
Merged(all, single, count) ==
  LET rounded == RoundedInstanceSize
      namesSize == all.size - all.namesAt
      namesAt == DataBlockOffset + rounded * (count + 1)
      moved(name) ==
        [at |-> namesAt + UlongSize * (count + 1)
                  + (name.at - all.namesAt - UlongSize * count),
         offset |-> name.offset + rounded + UlongSize,
         of |-> name.of]
      last == namesAt + UlongSize + namesSize
  IN  [size |-> all.size + rounded + (single.size - single.namesAt),
       namesAt |-> namesAt,
       blocks |-> Append(all.blocks, [at |-> DataBlockOffset + rounded * count,
                                      of |-> single.blocks[1].of]),
       names |-> Append([i \in DOMAIN all.names |-> moved(all.names[i])],
                        [at |-> last, offset |-> last, of |-> single.names[1].of]),
       needed |-> 0]

\* The size of the whole if all names were as long as this one.
SizeRequired(single, adapterCount) ==
  single.size + (RoundedInstanceSize + (single.size - single.namesAt)) * (adapterCount - 1)

WmiWnodeAllDataMerge(all, single, bufferSize, count, adapterCount) ==
  IF bufferSize < SizeRequired(single, adapterCount)
  THEN TooSmall(SizeRequired(single, adapterCount))
  ELSE IF count = 0 THEN single
  ELSE Merged(all, single, count)

-----------------------------------------------------------------------------
\* The offsets and names of an answer of so many instances are where a reader of
\* it looks for them: blocks one after the other, then the array of offsets, then
\* the names to which they lead, each with the data of its adapter.
WellFormed(all, count) ==
  /\ Len(all.blocks) = count /\ Len(all.names) = count
  /\ all.namesAt = DataBlockOffset + RoundedInstanceSize * count
  /\ \A i \in 1 .. count :
       /\ all.blocks[i].at = DataBlockOffset + RoundedInstanceSize * (i - 1)
       /\ all.blocks[i].of = all.names[i].of
       /\ all.names[i].offset = all.names[i].at
       /\ all.names[i].at + NameSize[all.names[i].of] =
            IF i = count THEN all.size ELSE all.names[i + 1].at
  /\ count > 0 => all.names[1].at = all.namesAt + UlongSize * count
=============================================================================
