------------------------------ MODULE OtaImage ------------------------------
(***************************************************************************)
(* How an image comes to the RK3566, in two parts of l2_rk3566/src/ota     *)
(* that share no state.                                                    *)
(*                                                                         *)
(* resume_transfer.c, the record of the blocks of a download: kept in      *)
(* memory, written in place to one file, read again by resume_init after   *)
(* the process was stopped at any point.  The server and the file that     *)
(* takes the blocks are external.                                          *)
(*                                                                         *)
(* diff_upgrade.c, the patch from an old to a new image, and the image a   *)
(* patch makes of the old one.  Both loops are machines of one step per    *)
(* control entry; an image is a sequence of bytes whose positions start at *)
(* 0 in the code.  Memory does not run out.                                *)
(***************************************************************************)
EXTENDS Integers, Sequences, FiniteSets, SequencesExt

CONSTANTS
  Size,                  \* total_size a firmware may have, in blocks
  RESUME_MAX_ATTEMPTS,
  MaxChanges,            \* bound: how often the server offers another firmware
  MaxUnsaved,            \* bound: how often the file of the record cannot be opened
  Byte, MaxSize,         \* bytes; bound: the longest image
  SaCounters,            \* build_sa: the ranks that cnt has a counter for, 0..32767
  DIFF_MIN_MATCH

ImageAssumption ==
  /\ Size \subseteq Nat \ {0} /\ Size # {}
  /\ RESUME_MAX_ATTEMPTS \in Nat \ {0} /\ MaxChanges \in Nat /\ MaxUnsaved \in Nat
  /\ MaxSize \in Nat \ {0} /\ DIFF_MIN_MATCH \in Nat \ {0}
  /\ SaCounters \in Nat \ {0} /\ Byte \subseteq 0..SaCounters - 1

VARIABLES
  ctx,        \* g_ctx, of size 0 before resume_init
  record,     \* what resume_load_state makes of the file: of size 0 if it fails
  saving,     \* inside resume_save_state, between the truncation and the last write?
  offered,    \* [id, size] of the firmware that the server offers
  stored,     \* history: blocks of that firmware received since it is offered
  starts,     \* history: calls of resume_init since the last one that began a new record
  unsaved,    \* history: saves that could not open the file
  old, new, stage,            \* "sort", "diff", "patch", "done", "refused" or "overrun"
  scan, last_scan, last_match,    \* of diff_compute
  ctrl, delta,                \* the patch: its control entries and literal bytes
  ctrl_ptr, old_pos, result   \* of diff_apply: entries read; the image so far

resumevars == <<ctx, record, saving, offered, stored, starts, unsaved>>
diffvars == <<old, new, stage, scan, last_scan, last_match, ctrl, delta,
              ctrl_ptr, old_pos, result>>

-----------------------------------------------------------------------------
(* resume_transfer.c.                                                      *)
Firmware == [id : 1..MaxChanges + 1, size : Size]
BlocksIn(size) == 0..size - 1
Contexts == [fw_sha256 : 0..MaxChanges + 1, size : Size \cup {0}, bitmap : SUBSET Nat,
             received : Nat, attempt : 0..RESUME_MAX_ATTEMPTS]
NoContext == [fw_sha256 |-> 0, size |-> 0, bitmap |-> {}, received |-> 0, attempt |-> 0]
Running == ctx # NoContext

ResumeInit ==
  /\ ctx = NoContext /\ record = NoContext /\ saving = FALSE /\ stored = {}
  /\ offered = [id |-> 1, size |-> CHOOSE n \in Size : TRUE] /\ starts = 0 /\ unsaved = 0

(* resume_save_state, where left is what is on file: a file that cannot be *)
(* opened stays as it is, one that can is truncated first, and stays so if *)
(* a write fails.  No caller looks at the result.                          *)
SaveBegins(left) ==
  \/ record' = NoContext /\ saving' = TRUE /\ UNCHANGED unsaved
  \/ /\ unsaved < MaxUnsaved /\ unsaved' = unsaved + 1
     /\ record' = left /\ saving' = FALSE
SaveEnds == /\ saving /\ saving' = FALSE
            /\ record' \in {ctx, NoContext}
            /\ UNCHANGED <<ctx, offered, stored, starts, unsaved>>

Fresh == [fw_sha256 |-> offered.id, size |-> offered.size, bitmap |-> {}, received |-> 0,
          attempt |-> 1]

(* Mutant: the record of another size is resumed as well.                  *)
Usable_m == record # NoContext

(* resume_load_state and the test of resume_init: only the size decides.   *)
Usable == record # NoContext /\ record.size = offered.size

(* Mutant: the attempts that are kept are not counted.                     *)
Attempts_m == record.attempt

Attempts == record.attempt + 1

(* resume_init: the record goes on, or is removed by resume_reset when     *)
(* there were too many attempts, or does not fit, or cannot be read.       *)
resume_init ==
  /\ ~Running /\ UNCHANGED <<offered, stored>>
  /\ \/ /\ Usable /\ Attempts <= RESUME_MAX_ATTEMPTS
        /\ ctx' = [record EXCEPT !.attempt = Attempts] /\ starts' = starts + 1
        /\ SaveBegins(record)
     \/ /\ Usable /\ Attempts > RESUME_MAX_ATTEMPTS
        /\ ctx' = Fresh /\ starts' = 1 /\ SaveBegins(NoContext)
     \/ ctx' = Fresh /\ starts' = 1 /\ SaveBegins(record)

(* Mutant: a block that comes twice is counted twice.                      *)
Counted_m(b) == ctx.received + 1

Counted(b) == ctx.received + IF b \in ctx.bitmap THEN 0 ELSE 1

(* resume_mark_block_received, for a block that was asked for or comes     *)
(* once more; one whose hash is wrong is refused without a trace.          *)
resume_mark_block_received(b) ==
  /\ Running /\ ~saving /\ b \in BlocksIn(ctx.size)
  /\ ctx' = [ctx EXCEPT !.bitmap = @ \cup {b}, !.received = Counted(b)]
  /\ stored' = stored \cup {b}
  /\ SaveBegins(record) /\ UNCHANGED <<offered, starts>>

(* resume_reset: nobody looks whether the file could be removed.           *)
resume_reset == /\ Running /\ ~saving /\ ctx' = NoContext /\ record' \in {NoContext, record}
                /\ UNCHANGED <<saving, offered, stored, starts, unsaved>>

(* The process is killed, or the power fails, also inside a save.          *)
Crash == /\ Running /\ ctx' = NoContext /\ saving' = FALSE
         /\ UNCHANGED <<record, offered, stored, starts, unsaved>>

(* The server offers another firmware, of the same size or not; none of it *)
(* is stored yet.                                                          *)
NewFirmware ==
  /\ ~Running /\ offered.id <= MaxChanges /\ stored' = {}
  /\ \E n \in Size : offered' = [id |-> offered.id + 1, size |-> n]
  /\ UNCHANGED <<ctx, record, saving, starts, unsaved>>

ResumeNext ==
  /\ \/ resume_init \/ SaveEnds \/ resume_reset \/ Crash \/ NewFirmware
     \/ Running /\ \E b \in BlocksIn(ctx.size) : resume_mark_block_received(b)
  /\ UNCHANGED diffvars

-----------------------------------------------------------------------------
(* diff_upgrade.c.                                                         *)
At(buf, pos) == buf[pos + 1]
Positions(buf) == 0..Len(buf) - 1

(* One round of build_sa: the suffixes are sorted by the pairs of their own*)
(* rank and that of the suffix k on, and the new rank of a suffix is the   *)
(* number of different pairs below its own.                                *)
Pair(rank, k) ==
  [i \in DOMAIN rank |-> <<rank[i], IF i + k \in DOMAIN rank THEN rank[i + k] ELSE -1>>]
Below(p, q) == p[1] < q[1] \/ (p[1] = q[1] /\ p[2] < q[2])
Rerank(rank, k) ==
  LET pair == Pair(rank, k)
  IN [i \in DOMAIN rank |-> Cardinality({p \in Range(pair) : Below(p, pair[i])})]

(* The loop ends when k covers the image, or a round made all ranks unique.*)
(* Mutant: one round of comparisons too few.                               *)
Ranked_m(d, n) == 2 * d.k >= n \/ (d.k > 1 /\ IsInjective(d.rank))
Ranked(d, n)   == d.k >= n \/ (d.k > 1 /\ IsInjective(d.rank))
Rounds(buf) ==
  LET round[r \in 0..Len(buf)] ==
        IF r = 0 THEN [k |-> 1, rank |-> [i \in Positions(buf) |-> At(buf, i)]]
        ELSE LET d == round[r - 1]
             IN IF Ranked(d, Len(buf)) THEN d
                ELSE [k |-> 2 * d.k, rank |-> Rerank(d.rank, d.k)]
  IN round
build_sa(buf) ==
  LET rank == Rounds(buf)[Len(buf)].rank
  IN CHOOSE sa \in Bijection(1..Len(buf), Positions(buf)) :
       \A i \in 2..Len(buf) : rank[sa[i - 1]] <= rank[sa[i]]

(* A round sorts by counting: a rank that has no counter is counted behind *)
(* the end of cnt, on the stack.                                           *)
Overruns(buf) ==
  \E r \in DOMAIN Rounds(buf) :
    LET d == Rounds(buf)[r]
    IN ~Ranked(d, Len(buf)) /\ \E i \in Positions(buf) : d.rank[i] >= SaCounters

(* The call of build_sa.  What an overrun leads to is not defined, and     *)
(* nothing is said of it.                                                  *)
SortOld == /\ stage = "sort" /\ stage' = IF Overruns(old) THEN "overrun" ELSE "diff"
           /\ UNCHANGED <<old, new, scan, last_scan, last_match, ctrl, delta,
                          ctrl_ptr, old_pos, result>>

(* find_longest_match: the first longest match in the order of the suffix  *)
(* array, which is searched from the first suffix with the wanted byte on. *)
Common(pos, p) ==
  LET agree == {n \in 0..Len(old) : /\ p + n <= Len(old) /\ pos + n <= Len(new)
                                    /\ \A i \in 0..n - 1 : At(old, p + i) = At(new, pos + i)}
  IN CHOOSE n \in agree : \A m \in agree : m <= n
find_longest_match(pos) ==
  LET sa == build_sa(old)
      len == [i \in DOMAIN sa |-> Common(pos, sa[i])]
      first == CHOOSE i \in DOMAIN sa : /\ \A j \in DOMAIN sa : len[j] <= len[i]
                                        /\ \A j \in 1..i - 1 : len[j] < len[i]
  IN [len |-> len[first], pos |-> IF len[first] = 0 THEN 0 ELSE sa[first]]

(* A match that is too short counts as a copy of one byte from behind the  *)
(* old image, and not as a byte to be stored.                              *)
(* Mutant: a match of the least length is too short already.               *)
Match_m(pos) ==
  LET m == find_longest_match(pos)
  IN IF m.len <= DIFF_MIN_MATCH THEN [len |-> 1, pos |-> Len(old)] ELSE m
Match(pos) ==
  LET m == find_longest_match(pos)
  IN IF m.len < DIFF_MIN_MATCH THEN [len |-> 1, pos |-> Len(old)] ELSE m

(* One turn of diff_compute's loop.  last_scan is always scan: the gap is  *)
(* empty, and nothing ever becomes literal bytes.                          *)
diff_compute ==
  /\ stage = "diff" /\ scan < Len(new)
  /\ LET m == Match(scan) IN
     /\ ctrl' = Append(ctrl, [copy_len |-> m.len, extra_len |-> scan - last_scan,
                              seek_offset |-> m.pos - last_match])
     /\ delta' = delta \o SubSeq(new, last_scan + 1, scan)
     /\ scan' = scan + m.len /\ last_scan' = scan + m.len /\ last_match' = m.pos + m.len
  /\ UNCHANGED <<old, new, stage, ctrl_ptr, old_pos, result>>

(* The header, the control entries and the literal bytes, which diff_apply *)
(* takes apart again; the digest in the header is zero and not looked at.  *)
Finish == /\ stage = "diff" /\ scan >= Len(new) /\ stage' = "patch"
          /\ UNCHANGED <<old, new, scan, last_scan, last_match, ctrl, delta,
                         ctrl_ptr, old_pos, result>>

(* A copy ends with the image, and takes zeros from behind the old one.    *)
Room(n)   == IF Len(result) + n > Len(new) THEN Len(new) - Len(result) ELSE n
Copied(n) == [i \in 1..Room(n) |->
                IF old_pos + i - 1 < Len(old) THEN At(old, old_pos + i - 1) ELSE 0]

(* One turn of diff_apply's loop: the copy starts where the last one ended *)
(* and only then the entry's offset is applied; below 0 it becomes the end.*)
diff_apply ==
  /\ stage = "patch" /\ Len(result) < Len(new)
  /\ IF ctrl_ptr = Len(ctrl)
     THEN stage' = "refused" /\ UNCHANGED <<ctrl_ptr, old_pos, result>>
     ELSE LET c == ctrl[ctrl_ptr + 1]
              sought == old_pos + c.copy_len + c.seek_offset
          IN /\ result' = result \o Copied(c.copy_len) \o SubSeq(delta, 1, c.extra_len)
             /\ old_pos' = IF sought < 0 \/ sought > Len(old) THEN Len(old) ELSE sought
             /\ ctrl_ptr' = ctrl_ptr + 1 /\ UNCHANGED stage
  /\ UNCHANGED <<old, new, scan, last_scan, last_match, ctrl, delta>>
Applied == /\ stage = "patch" /\ Len(result) >= Len(new) /\ stage' = "done"
           /\ UNCHANGED <<old, new, scan, last_scan, last_match, ctrl, delta,
                          ctrl_ptr, old_pos, result>>

Start == /\ stage = "sort" /\ scan = 0 /\ last_scan = 0 /\ last_match = 0
         /\ ctrl = <<>> /\ delta = <<>> /\ ctrl_ptr = 0 /\ old_pos = 0 /\ result = <<>>
DiffInit == /\ old \in BoundedSeq(Byte, MaxSize) \ {<<>>}
            /\ new \in BoundedSeq(Byte, MaxSize) /\ Start
DiffNext == (SortOld \/ diff_compute \/ Finish \/ diff_apply \/ Applied) /\ UNCHANGED resumevars

Init == ResumeInit /\ DiffInit
Next == ResumeNext \/ DiffNext
Spec == Init /\ [][Next]_<<resumevars, diffvars>>
-----------------------------------------------------------------------------
TypeOK == /\ \A c \in {ctx, record} : c \in Contexts /\ c.bitmap \subseteq BlocksIn(c.size)
          /\ saving \in BOOLEAN /\ offered \in Firmware
          /\ stored \subseteq Nat /\ starts \in Nat /\ unsaved \in 0..MaxUnsaved

(* resume_is_complete tests a counter, resume_get_missing_blocks a bitmap: *)
(* they agree in memory and on file, through repeated blocks, crashes in   *)
(* the middle of a save and resumed records.                               *)
CompleteIsNothingMissing ==
  /\ ctx.received = Cardinality(ctx.bitmap) /\ ctx.received <= ctx.size
  /\ record.received = Cardinality(record.bitmap)

(* As long as the firmware offered is the one for which the record was     *)
(* begun, or at least has another size, no block is taken for received     *)
(* that was not.  (fw_sha256 is stored but never compared: a new firmware  *)
(* of the same size inherits the blocks of the old one.)                   *)
ReceivedIsStored ==
  Running /\ (ctx.fw_sha256 = offered.id \/ ctx.size # offered.size) =>
    ctx.bitmap \subseteq stored

(* resume_transfer.c:7, "maximum resume attempts: 5 before full            *)
(* re-download": the starts that go on with one record, counted over all   *)
(* restarts of the process, exceed that number by no more than the saves   *)
(* that could not open the file; and a first attempt has an empty map.     *)
AttemptsBounded ==
  ~Running /\ Running' =>
    /\ starts' <= RESUME_MAX_ATTEMPTS + unsaved
    /\ ctx'.attempt <= RESUME_MAX_ATTEMPTS
    /\ ctx'.attempt = 1 => ctx'.bitmap = {}

(* The cursors of the patch stay within the images and its entries.        *)
PatchTypeOK ==
  /\ stage \in {"sort", "diff", "patch", "done", "refused", "overrun"} /\ scan \in 0..Len(new)
  /\ old_pos \in 0..Len(old) /\ ctrl_ptr \in 0..Len(ctrl)
  /\ \A c \in Range(ctrl) : c.copy_len \in 1..MaxSize /\ c.extra_len \in 0..MaxSize

(* The suffix array is the sorted order of the suffixes, whatever the image*)
(* repeats.                                                                *)
SuffixesAreSorted ==
  LET sa == build_sa(old)
      Suffix(p) == SubSeq(old, p + 1, Len(old))
      Less(s, t) == \/ IsStrictPrefix(s, t)
                    \/ \E i \in DOMAIN s \cap DOMAIN t :
                         s[i] < t[i] /\ SubSeq(s, 1, i - 1) = SubSeq(t, 1, i - 1)
  IN stage = "diff" /\ scan = 0 =>
       \A i \in 1..Len(sa) - 1 : Less(Suffix(sa[i]), Suffix(sa[i + 1]))

(* The sort keeps to its counters for every image with as many bytes as    *)
(* there are counters; a longer one may overrun them.                      *)
OverrunsOnlyLarge == stage = "overrun" => Len(old) > SaCounters

(* diff_upgrade.c:5-6, a patch is made for images of "4 MB": every image   *)
(* can be sorted.                                                          *)
EveryImageSorts == stage # "overrun"

(* A patch made here is never refused here and yields an image of the      *)
(* announced size; and an image that did not change survives the update.   *)
OwnPatchApplies ==
  /\ stage # "refused"
  /\ stage = "done" =>
       /\ Len(result) = Len(new) /\ ctrl_ptr = Len(ctrl)
       /\ (old = new /\ Len(new) >= DIFF_MIN_MATCH => result = new)

(* diff_upgrade.c:5: the patch is applied "to reconstruct new firmware".   *)
Reconstructs == stage = "done" => result = new
=============================================================================
