---------------------------- MODULE MCScsiDirect ----------------------------
EXTENDS ScsiDirect

Plain == [op |-> "other", cdb |-> 10, data |-> "even", length |-> 6,
          auto |-> TRUE, senseLength |-> SenseSize, alloc |-> 0, lba |-> 0,
          count |-> 1, page |-> "all", pmi |-> FALSE, from |-> 1, to |-> 1, sectors |-> 14]

\* A client's own packets, with a buffer that a drive's blocks do not divide.
Uneven == {[Plain EXCEPT !.length = 9]}

\* Clients that differ in what they give room for, and what they want to know.
Buffers ==
  {[Plain EXCEPT !.op = op, !.data = d, !.length = n] :
     op \in {"other", "inquiry", "cap10", "rw6"}, d \in {"even", "odd", "null"},
     n \in {0, 5}}
  \cup
  {[Plain EXCEPT !.auto = (n > 0), !.senseLength = n] : n \in {0, SenseSize - 3}}
  \cup Uneven

Lengths ==
  {[Plain EXCEPT !.op = op, !.cdb = c] :
     op \in {"rw6", "inquiry", "modesense6"}, c \in {5, 6}}
  \cup
  {[Plain EXCEPT !.op = op, !.cdb = 16] : op \in {"rw16", "cap16", "tur", "passthrough"}}

\* An emulation's data are cut to what is asked for and to what has room.
Answers ==
  {[Plain EXCEPT !.op = op, !.cdb = 16, !.alloc = n, !.length = l] :
     op \in {"inquiry", "cap10", "cap16"}, n \in {0, 9, 60}, l \in {7, 8, 50}}

\* The lengths are those with a byte too few, none to spare, and some.
Modes ==
  {[Plain EXCEPT !.op = "modesense6", !.alloc = n, !.length = l, !.cdb = 6] :
     n \in {3, 9}, l \in {3, 6, 60}}
  \cup
  {[Plain EXCEPT !.op = "modeselect6", !.alloc = n, !.length = l, !.cdb = 6] :
     n \in {3, 4, 6}, l \in {3, 5}}

Pages ==
  {[Plain EXCEPT !.op = "modesense6", !.length = l, !.page = p] :
     l \in {27, 28, 51, 52}, p \in {"all", "one", "unknown"}}

Plays ==
  {[Plain EXCEPT !.op = "play", !.from = f, !.to = t] : f \in 1..3, t \in 1..3}

\* A drive whose blocks have addresses of 32 bits, and a larger one.
Sizes == {14, 20}

\* Addresses around the end of the drive, of 32 bits and of 64 bits.
Near(n, limit) == {b \in (n - 4)..(n + 2) : b >= 0 /\ b < limit}

Places ==
  {[Plain EXCEPT !.op = "io", !.lba = h, !.count = o, !.length = n, !.sectors = s] :
     h \in 0..5, o \in 0..(Word - 1), n \in {3, 4, 8}, s \in Sizes}
  \cup
  UNION {{[Plain EXCEPT !.op = op, !.lba = b, !.count = n, !.sectors = s] :
            op \in {"rw6", "rw10"}, b \in Near(s, Word), n \in 1..3} : s \in Sizes}
  \cup
  UNION {{[Plain EXCEPT !.op = "rw16", !.lba = b, !.count = n, !.sectors = s] :
            b \in Near(s, Word * Word) \cup Near(Word * Word, Word * Word),
            n \in 1..3} : s \in Sizes}
  \cup
  {[Plain EXCEPT !.op = "cap10", !.length = 8, !.lba = b, !.pmi = p, !.sectors = s] :
     b \in 0..(Word - 1), p \in BOOLEAN, s \in Sizes}

OfAta   == Buffers \cup Lengths \cup Answers \cup Modes \cup Pages \cup Places
OfAtapi == Buffers \cup Lengths \cup Modes \cup Plays
             \cup {[Plain EXCEPT !.op = "protstatus"]}

SixOnly == {[Plain EXCEPT !.op = "rw6", !.cdb = 6]}

Track(n, m, s, f) == [track |-> n, msf |-> <<m, s, f>>]

\* A disc of two tracks with a lead-out at each kind of time, and no disc.
Discs ==
  {[first |-> 1, last |-> 2,
    td |-> <<Track(1, 0, 2, 0), Track(2, 1, 0, 5), Track(Leadout, e[1], e[2], e[3])>>] :
      e \in {<<3, 4, 5>>, <<3, 4, 0>>, <<3, 0, 0>>}}
  \cup {[first |-> 0, last |-> 0, td |-> <<Track(0, 0, 0, 0), Track(0, 0, 0, 0)>>]}
=============================================================================
