----------------------------- MODULE WordCount -----------------------------
(***************************************************************************)
(* map-reduce/word-count.c: worker threads count the words of a file.       *)
(*                                                                          *)
(* Each worker takes a slice of the file, moved to word boundaries          *)
(* (buff_init), and counts its words in a hash table of its own.  After a   *)
(* barrier the workers merge all tables into main_cache, each one a range   *)
(* of buckets; main joins them and prints.                                  *)
(*                                                                          *)
(* A character is 0 (no letter), 1..NLetters (lower case) or                *)
(* NLetters + 1 .. 2 * NLetters (upper case).  A table is a function from   *)
(* buckets to lists of nodes.  A node of main_cache is the wc_word of the   *)
(* thread that first inserted it (node_main), so it is named by that        *)
(* thread, and its counter is the one in the thread's own table.            *)
(***************************************************************************)
EXTENDS Integers, SequencesExt

CONSTANTS
    NThreads,       \* n_threads
    Files,          \* the files to count
    BufferSize,     \* BUFFER_SIZE, when the file cannot be mapped
    NLetters,       \* N_LETTERS
    Radix,          \* 2^shift, the room get_code gives to a letter
    CodeLen,        \* how many letters get_code packs into 32 bits
    NBuckets        \* n_buckets

VARIABLES
    file, file_content,     \* the file, and whether mmap succeeded
    cache, main_cache,      \* thread_caches, main_cache
    worker_current, worker_slice, word,
    pc, to_merge,           \* per thread: control, and the nodes it has yet to merge
    printed                 \* main: the lists that wc_print has written

vars == <<file, file_content, cache, main_cache, worker_current, worker_slice, word,
          pc, to_merge, printed>>

Threads == 0..NThreads - 1
Buckets == 0..NBuckets - 1

file_size == Len(file)
At(p)     == file[p + 1]

IS_LETTER(c) == c # 0
tolower(c)   == IF c > NLetters THEN c - NLetters ELSE c

\* strcasecmp(u, v) < 0, for words in lower case.
Less(u, v) ==
    \E k \in DOMAIN v :
        /\ k - 1 <= Len(u) /\ SubSeq(u, 1, k - 1) = SubSeq(v, 1, k - 1)
        /\ k > Len(u) \/ u[k] < v[k]

-----------------------------------------------------------------------------
(* The hash table.                                                          *)

\* The first letters as digits, most significant first; a missing one counts as 'a'.
get_code(w) ==
    LET code[i \in 0..CodeLen] ==
            IF i = 0 THEN 0
            ELSE Radix * code[i - 1] + (IF i <= Len(w) THEN w[i] - 1 ELSE 0)
    IN  code[CodeLen]

code_min == get_code(<<1>>)
code_max == get_code([i \in 1..CodeLen |-> NLetters])

scale_range(code) == ((code - code_min) * NBuckets) \div (code_max - code_min)

hash_bucket(w) == scale_range(get_code(w))

\* The position of the word in a bucket, 0 if ht_find gives up before or after.
ht_find(list, w) ==
    LET stop == {k \in DOMAIN list : /\ get_code(list[k].word) = get_code(w)
                                     /\ ~Less(list[k].word, w)}
    IN  IF stop # {} /\ list[Min(stop)].word = w THEN Min(stop) ELSE 0

\* Before the first greater word; nothing if the word is there.
ht_insert(list, n) ==
    LET stop == {k \in DOMAIN list : /\ get_code(list[k].word) >= get_code(n.word)
                                     /\ ~Less(list[k].word, n.word)}
    IN  IF stop = {} THEN Append(list, n)
        ELSE IF list[Min(stop)].word = n.word THEN list
        ELSE InsertAt(list, Min(stop), n)

wc_add_word(table, w) ==
    LET j == hash_bucket(w)
        k == ht_find(table[j], w)
    IN  IF k = 0 THEN [table EXCEPT ![j] = ht_insert(@, [word |-> w, counter |-> 1])]
        ELSE [table EXCEPT ![j][k].counter = @ + 1]

counter_of(t, w) ==
    LET j == hash_bucket(w) IN cache[t][j][ht_find(cache[t][j], w)].counter

-----------------------------------------------------------------------------
(* A worker's part of the file.                                             *)

\* Mutant: a slice is not moved to a word boundary.
SkipLetters_Here(p) == p

\* The first place from p on that is no letter, or the end of the file.
SkipLetters(p) == Min({q \in p..file_size : q < file_size => ~IS_LETTER(At(q))})

\* fa_read at pos: how many of the size bytes asked for it gives.
fa_read(size, pos) ==
    IF file_content
      THEN IF pos >= file_size THEN 0
           ELSE IF pos + size > file_size THEN pos + size - file_size ELSE size
      ELSE Max({0, Min({BufferSize, size, file_size - pos})})

\* add_sep: a word that has letters goes into the table.
add_sep(s) ==
    IF s.word = <<>> THEN s
    ELSE [table |-> wc_add_word(s.table, [i \in DOMAIN s.word |-> tolower(s.word[i])]),
          word |-> <<>>]

\* Mutant: the word that ends with the slice is dropped.
buff_proceed_NoLast(s, chars, last) ==
    LET after[n \in 0..Len(chars)] ==
            IF n = 0 THEN s
            ELSE LET r == after[n - 1]
                 IN  IF IS_LETTER(chars[n]) THEN [r EXCEPT !.word = Append(@, chars[n])]
                     ELSE add_sep(r)
    IN  after[Len(chars)]

buff_proceed(s, chars, last) ==
    LET after[n \in 0..Len(chars)] ==
            IF n = 0 THEN s
            ELSE LET r == after[n - 1]
                 IN  IF IS_LETTER(chars[n]) THEN [r EXCEPT !.word = Append(@, chars[n])]
                     ELSE add_sep(r)
        end == after[Len(chars)]
    IN  IF last THEN add_sep(end) ELSE end

-----------------------------------------------------------------------------
TypeOK ==
    /\ file \in Seq(0..2 * NLetters) /\ file_content \in BOOLEAN
    /\ \A t \in Threads : /\ pc[t] \in {"init", "read", "barrier", "merge", "done", "bail"}
                          /\ worker_current[t] \in 0..file_size
                          /\ worker_slice[t] \in 0..file_size
                          /\ \A n \in DOMAIN to_merge[t] : to_merge[t][n][1] \in Threads

EmptyTable == [j \in Buckets |-> <<>>]

\* mr_init.  mmap fails for an empty file, and may fail for any other.
Init ==
    /\ file \in Files
    /\ file_content \in BOOLEAN /\ (file_size = 0 => ~file_content)
    /\ cache = [t \in Threads |-> EmptyTable] /\ main_cache = EmptyTable
    /\ worker_current = [t \in Threads |-> 0] /\ worker_slice = [t \in Threads |-> 0]
    /\ word = [t \in Threads |-> <<>>]
    /\ pc = [t \in Threads |-> "init"] /\ to_merge = [t \in Threads |-> <<>>]
    /\ printed = <<>>

\* buff_init: the slice, from the end of the word that reaches into it to the end
\* of the word that reaches out of it.  A read of one byte that meets the end of
\* the file ends the worker.
BuffInit(t) ==
    LET len   == file_size \div NThreads
        start == len * t
        end   == IF t = NThreads - 1 THEN file_size ELSE start + len
        from  == IF t = 0 THEN start ELSE SkipLetters(start)
        upto  == IF t = NThreads - 1 THEN end ELSE SkipLetters(end)
        eof   == \/ t # 0 /\ from = file_size
                 \/ t # NThreads - 1 /\ upto = file_size
    IN  /\ pc[t] = "init"
        /\ IF eof
             THEN /\ pc' = [pc EXCEPT ![t] = "bail"]
                  /\ UNCHANGED <<worker_current, worker_slice>>
             ELSE /\ pc' = [pc EXCEPT ![t] = "read"]
                  /\ worker_current' = [worker_current EXCEPT ![t] = from]
                  /\ worker_slice' = [worker_slice EXCEPT ![t] = upto - from]
        /\ UNCHANGED <<file, file_content, cache, main_cache, word, to_merge, printed>>

\* One turn of the loop of mr_map: buff_read and buff_proceed.
ReadSlice(t) ==
    LET size == IF worker_slice[t] = 0 THEN 0 ELSE fa_read(worker_slice[t], worker_current[t])
        last == size = worker_slice[t]
        s == buff_proceed([table |-> cache[t], word |-> word[t]],
                          SubSeq(file, worker_current[t] + 1, worker_current[t] + size), last)
    IN  /\ pc[t] = "read"
        /\ worker_current' = [worker_current EXCEPT ![t] = @ + size]
        /\ worker_slice' = [worker_slice EXCEPT ![t] = @ - size]
        /\ pc' = [pc EXCEPT ![t] = IF size = 0 \/ last THEN "barrier" ELSE "read"]
        /\ IF size = 0 THEN UNCHANGED <<cache, word>>
           ELSE cache' = [cache EXCEPT ![t] = s.table] /\ word' = [word EXCEPT ![t] = s.word]
        /\ UNCHANGED <<file, file_content, main_cache, to_merge, printed>>

\* Mutant: nobody takes the buckets that the division leaves over.
BucketsOf_NoRest(t) ==
    LET n_workers  == Min({NThreads, NBuckets})
        wk_buckets == NBuckets \div n_workers
    IN  IF t >= n_workers THEN {} ELSE wk_buckets * t .. wk_buckets * (t + 1) - 1

\* The buckets that wc_merge_results gives to a worker.
BucketsOf(t) ==
    LET n_workers  == Min({NThreads, NBuckets})
        wk_buckets == NBuckets \div n_workers
        extra      == IF t = n_workers - 1 THEN NBuckets % n_workers ELSE 0
    IN  IF t >= n_workers THEN {}
        ELSE wk_buckets * t .. wk_buckets * (t + 1) + extra - 1

\* What the loops of wc_merge_results will visit, in order: <<table, word>>, all
\* tables one after the other, the worker's buckets of each.
ToMerge(t) ==
    FlattenSeq(FlattenSeq([n \in 1..NThreads |-> [b \in 1..NBuckets |->
        LET nodes == cache[n - 1][b - 1]
        IN  IF b - 1 \in BucketsOf(t) THEN [k \in DOMAIN nodes |-> <<n - 1, nodes[k].word>>]
            ELSE <<>>]]))

\* Mutant: the first worker that arrives lets all of them merge that are there.
Barrier_NoWait ==
    \E t \in Threads :
    /\ pc[t] = "barrier" /\ \A u \in Threads : pc[u] # "init"
    /\ pc' = [pc EXCEPT ![t] = "merge"]
    /\ to_merge' = [to_merge EXCEPT ![t] = ToMerge(t)]
    /\ UNCHANGED <<file, file_content, cache, main_cache, worker_current, worker_slice,
                   word, printed>>

\* pthread_barrier_wait: the barrier opens for all the n_threads workers at once.
Barrier ==
    /\ \A t \in Threads : pc[t] = "barrier"
    /\ pc' = [t \in Threads |-> "merge"]
    /\ to_merge' = [t \in Threads |-> ToMerge(t)]
    /\ UNCHANGED <<file, file_content, cache, main_cache, worker_current, worker_slice,
                   word, printed>>

\* __merge_results for one word: add its counter to the node in main_cache, or put
\* the node of this table there.
MergeWord(t) ==
    LET i == to_merge[t][1][1]
        w == to_merge[t][1][2]
        j == hash_bucket(w)
        k == ht_find(main_cache[j], w)
        o == main_cache[j][k].owner
        n == ht_find(cache[o][j], w)
    IN  /\ pc[t] = "merge" /\ to_merge[t] # <<>>
        /\ to_merge' = [to_merge EXCEPT ![t] = Tail(@)]
        /\ IF k = 0
             THEN /\ main_cache' = [main_cache EXCEPT ![j] =
                                       ht_insert(@, [word |-> w, owner |-> i])]
                  /\ UNCHANGED cache
             ELSE /\ cache' = [cache EXCEPT ![o][j][n].counter = @ + counter_of(i, w)]
                  /\ UNCHANGED main_cache
        /\ UNCHANGED <<file, file_content, worker_current, worker_slice, word, pc, printed>>

MergeEnd(t) ==
    /\ pc[t] = "merge" /\ to_merge[t] = <<>>
    /\ pc' = [pc EXCEPT ![t] = "done"]
    /\ UNCHANGED <<file, file_content, cache, main_cache, worker_current, worker_slice,
                   word, to_merge, printed>>

\* wait_threads, then wc_print: the buckets of main_cache in order.
wc_print ==
    /\ printed = <<>>
    /\ \A t \in Threads : pc[t] \in {"done", "bail"}
    /\ printed' = <<FlattenSeq([j \in 1..NBuckets |->
                      [k \in DOMAIN main_cache[j - 1] |->
                          LET n == main_cache[j - 1][k]
                          IN  <<n.word, counter_of(n.owner, n.word)>>]])>>
    /\ UNCHANGED <<file, file_content, cache, main_cache, worker_current, worker_slice,
                   word, pc, to_merge>>

Next == (\E t \in Threads : BuffInit(t) \/ ReadSlice(t) \/ MergeWord(t) \/ MergeEnd(t)) \/ Barrier \/ wc_print

Spec == Init /\ [][Next]_vars

-----------------------------------------------------------------------------
\* The words of the file as places <<first, last>>: letters that cannot be extended.
Words ==
    {r \in (1..file_size) \X (1..file_size) :
        /\ r[1] <= r[2] /\ \A i \in r[1]..r[2] : IS_LETTER(file[i])
        /\ r[1] > 1 => ~IS_LETTER(file[r[1] - 1])
        /\ r[2] < file_size => ~IS_LETTER(file[r[2] + 1])}

Spelling(r) == [i \in 1..(r[2] - r[1] + 1) |-> tolower(file[r[1] + i - 1])]

\* A text that ends with a newline.  Without it buff_init of some worker may meet
\* the end of the file; that worker never comes to the barrier.
EndsInSeparator == file = <<>> \/ ~IS_LETTER(Last(file))

\* What wc_print prints is the file's words in alphabetical order ("Must keep an
\* an alphabetic order when assiging buckets"), each one once, with the number of
\* times it occurs, whatever slices, buffers and bucket ranges cut through.
PrintedIsExact ==
    EndsInSeparator => \A n \in DOMAIN printed : LET list == printed[n] IN
        /\ \A i, k \in DOMAIN list : i < k => Less(list[i][1], list[k][1])
        /\ {list[i][1] : i \in DOMAIN list} = {Spelling(r) : r \in Words}
        /\ \A i \in DOMAIN list :
             list[i][2] = Cardinality({r \in Words : Spelling(r) = list[i][1]})

\* In the map phase the workers read disjoint parts of the file: a word is counted
\* by at most one of them, even when a worker has given up at the end of the file.
CountedOnce ==
    (\A t \in Threads : pc[t] \notin {"merge", "done"}) =>
        \A w \in {Spelling(r) : r \in Words} :
            LET counts(t) == IF ht_find(cache[t][hash_bucket(w)], w) = 0 THEN 0
                             ELSE counter_of(t, w)
            IN  MapThenSumSet(counts, Threads) <= Cardinality({r \in Words : Spelling(r) = w})

\* Wherever the program stops, no step being possible, it has printed its result: with
\* such a text no worker waits at the barrier for one that has left.  (No step can be
\* repeated, so the program does stop.)
CountEnds == EndsInSeparator /\ printed = <<>> => ENABLED Next
=============================================================================
