------------------------------- MODULE KcpFec --------------------------------
(***************************************************************************)
(* The forward error correction of kcp.rs as operators: FecEncoder numbers *)
(* the packets of a session and adds parity to every group of DataShards   *)
(* of them, FecDecoder keeps a window of shards ordered by a number that   *)
(* wraps, and rebuilds what is missing once a group has enough shards.     *)
(* What Reed-Solomon reconstructs is the group's packets if the shards are *)
(* of one group, and nonsense if they are not.                             *)
(***************************************************************************)
EXTENDS Integers, Sequences, SequencesExt, FiniteSets, FiniteSetsExt

CONSTANTS
  DataShards, ParityShards,
  Width    \* sequence numbers are below Width (2^32 in the code)

ASSUME FecConstants ==
  DataShards \in Nat \ {0} /\ ParityShards \in Nat \ {0} /\ Width \in Nat \ {0}

shard_size == DataShards + ParityShards
rxlimit == 3 * shard_size

\* The first number not used: a multiple of the group size, so that the grid of
\* groups survives the wrap.
paws == ((Width - 1) \div shard_size) * shard_size

-------------------------------------------------------------------------------
(* Sending.                                                                *)

mark_data(next) == IF (next + 1) % Width >= paws THEN 0 ELSE (next + 1) % Width

\* A variant: the numbers of parity shards do not wrap.
mark_parity_no_wrap(next, i) == next + i

mark_parity(next, i) == (next + i) % paws

\* PacketFramer::write and FecEncoder::push: a data shard for the packet, and
\* behind the last one of a group its parity shards.
framer_write(enc, b) ==
  LET data == [seq |-> enc.next, flag |-> "data", of |-> <<b>>]
      next == mark_data(enc.next)
      cache == Append(enc.cache, b)
  IN IF Len(cache) < DataShards
     THEN [enc |-> [next |-> next, cache |-> cache], out |-> {data}]
     ELSE [enc |-> [next |-> mark_parity(next, ParityShards), cache |-> <<>>],
           out |-> {data} \cup {[seq |-> mark_parity(next, i), flag |-> "parity", of |-> cache]
                                : i \in 0..(ParityShards - 1)}]

-------------------------------------------------------------------------------
(* Receiving.                                                              *)

\* `a.wrapping_sub(b) as i32 > 0` and `>= 0`.
After(a, b) == (a - b) % Width \in 1..(Width \div 2 - 1)
NotBefore(a, b) == (a - b) % Width < Width \div 2

Garbage == [conv |-> 0, sn |-> 1]

\* ReedSolomon::reconstruct_data over the shards at the places idx of a group:
\* the packets at the places that are missing.
reconstruct_data(shards) ==
  LET idx(s) == s.seq % shard_size
      parity == {s \in shards : s.flag = "parity"}
      whole == {g \in {s.of : s \in parity} :
                  \A s \in shards : s.of = g \/ (s.flag = "data" /\ s.of = <<g[idx(s) + 1]>>)}
      missing == {i \in 0..(DataShards - 1) : \A s \in shards : idx(s) # i}
      places == SetToSortSeq(missing, <)
  IN [k \in DOMAIN places |->
        IF whole = {} THEN Garbage ELSE (CHOOSE g \in whole : TRUE)[places[k] + 1]]

free_range(rx, first, n) == SubSeq(rx, 1, first - 1) \o SubSeq(rx, first + n, Len(rx))

\* A variant: the search starts at the shard just inserted.
search_begin_here(insert_at, place) == insert_at + 1

\* Where the group of a shard can begin in the window: at most `place` shards of
\* it can be in front of the one just inserted.
search_begin(insert_at, place) == 1 + (IF insert_at > place THEN insert_at - place ELSE 0)

\* A variant: shards of the group before count as well.
group_of_open(rx, begin, end, shard_begin) ==
  {i \in begin..end : \A j \in begin..i : ~After(rx[j].seq, shard_begin + shard_size - 1)}

\* The shards of the group that starts at shard_begin.
group_of(rx, begin, end, shard_begin) ==
  {i \in begin..end : /\ NotBefore(rx[i].seq, shard_begin)
                      /\ \A j \in begin..i : ~After(rx[j].seq, shard_begin + shard_size - 1)}

\* FecDecoder::decode: the window afterwards, and the packets recovered.
decode(rx, s) ==
  LET below == {i \in DOMAIN rx : After(s.seq, rx[i].seq)}
      insert_at == IF below = {} THEN 0 ELSE Max(below)
      with == InsertAt(rx, insert_at + 1, s)
      place == s.seq % shard_size
      begin == search_begin(insert_at, place)
      end == Min({begin + shard_size - 1, Len(with)})
      group == group_of(with, begin, end, s.seq - place)
      freed == free_range(with, Min(group), Cardinality(group))
  IN IF \E i \in DOMAIN rx : i > insert_at /\ rx[i].seq = s.seq
     THEN [rx |-> rx, got |-> <<>>]
     ELSE IF Cardinality({i \in group : with[i].flag = "data"}) = DataShards
     THEN [rx |-> freed, got |-> <<>>]
     ELSE IF Cardinality(group) >= DataShards
     THEN [rx |-> freed, got |-> reconstruct_data({with[i] : i \in group})]
     ELSE [rx |-> with, got |-> <<>>]

\* ... which then bounds the window, and lets go of shards older than a minute.
bounded(rx, old) ==
  LET r == IF Len(rx) > rxlimit THEN Tail(rx) ELSE rx IN SubSeq(r, old + 1, Len(r))

\* packet_unframe_fec: a data shard's own packet, then what it completed.
packet_unframe_fec(rx, s) ==
  LET d == decode(rx, s) IN
  [rx |-> d.rx, got |-> d.got,
   blocks |-> (IF s.flag = "data" THEN s.of ELSE <<>>) \o d.got]
===============================================================================
