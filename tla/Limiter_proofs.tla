--------------------------- MODULE Limiter_proofs ---------------------------
(***************************************************************************)
(* Proofs about the lookahead limiter, for every lookahead, detector       *)
(* length, set of gains and cut of the stream into calls.                  *)
(***************************************************************************)
EXTENDS Limiter, FiniteSetTheorems, WellFoundedInduction, TLAPS

-----------------------------------------------------------------------------
(***************************************************************************)
(* Least and largest elements.  Induction over the naturals is used as     *)
(* the well-foundedness of < on them.                                      *)
(***************************************************************************)
Below == {p \in Nat \X Nat : p[1] < p[2]}

\* The order that inductions over the frames of a history use.
LEMMA BelowWellFounded == IsWellFoundedOn(Below, Nat)
  BY NatLessThanWellFounded DEF OpToRel, Below

\* Min is what its name says of any naturals.
LEMMA MinFacts ==
  ASSUME NEW S \in SUBSET Nat, S # {}
  PROVE  Min(S) \in S /\ \A k \in S : Min(S) <= k
<1>1. PICK m \in S : \A k \in S : ~ (<<k, m>> \in Below)
  BY BelowWellFounded, WFMin, Zenon
<1>2. ASSUME NEW k \in S PROVE m <= k
  <2>1. k \in Nat /\ m \in Nat
    OBVIOUS
  <2>2. <<k, m>> \in Below <=> k < m
    BY <2>1 DEF Below
  <2> QED BY <1>1, <2>1, <2>2
<1>3. \E x \in S : \A y \in S : x =< y
  BY <1>2
<1> QED BY <1>3 DEF Min

\* Max is what its name says of naturals with a bound.
LEMMA MaxFacts ==
  ASSUME NEW n \in Nat, NEW S \in SUBSET (0..n), S # {}
  PROVE  Max(S) \in S /\ \A k \in S : k <= Max(S)
<1> DEFINE T == {n - k : k \in S}
<1>0. \A k \in S : k \in Nat /\ k <= n
  OBVIOUS
<1>1. T \in SUBSET Nat /\ T # {}
  <2>1. \A k \in S : n - k \in Nat
    BY <1>0
  <2> QED BY <2>1
<1>2. Min(T) \in T /\ \A j \in T : Min(T) <= j
  BY <1>1, MinFacts
<1>3. PICK m \in S : Min(T) = n - m
  BY <1>2
<1>4. ASSUME NEW k \in S PROVE k <= m
  <2>1. n - m <= n - k
    BY <1>2, <1>3
  <2> QED BY <1>0, <2>1
<1>5. \E x \in S : \A y \in S : x >= y
  BY <1>4
<1> QED BY <1>5 DEF Max

\* The least of S is what bounds S from below and belongs to it.
LEMMA MinIs ==
  ASSUME NEW S \in SUBSET Nat, NEW m \in S, \A k \in S : m <= k
  PROVE  Min(S) = m
<1>1. Min(S) \in S /\ Min(S) <= m /\ m <= Min(S)
  BY MinFacts
<1>2. Min(S) \in Nat /\ m \in Nat
  BY <1>1
<1> QED BY <1>1, <1>2

\* One turn of a ring of n slots.
LEMMA Wrapped ==
  ASSUME NEW n \in Nat \ {0}, NEW a \in 0..(2 * n - 1)
  PROVE  a % n = IF a < n THEN a ELSE a - n
  BY Z3

\* What the assumptions say of the sizes, as the provers need it.
LEMMA Sizes ==
  /\ look \in Nat \ {0} /\ cap \in Nat \ {0} /\ cap = look + 1
  /\ attack_len \in 1..look /\ TP_TAIL_FRAMES \in 0..look
  /\ attack_len + TP_TAIL_FRAMES <= look + 1 
  /\ TP_TAPS \in Nat \ {0} /\ Unity \in Nat \ {0}
  /\ MaxFrames \in Nat /\ MaxResets \in Nat
  BY LimiterAssumption DEF cap, attack_len, TP_TAIL_FRAMES

-----------------------------------------------------------------------------
\* The frame of the oldest report kept, and the report of frame m.
First == frame - Len(reports)
Report(m) == reports[m - First + 1]

\* reports are those of the last look + 1 frames.
ReportsKept ==
  /\ reports \in Seq(Gain)
  /\ frame \in 0..MaxFrames
  /\ Len(reports) = IF frame < cap THEN frame ELSE cap

(***************************************************************************)
(* The live entries of the wedge are reports of frames in the window,      *)
(* later and larger from front to back, and every report of the window is  *)
(* dominated by an entry at least as late.  That entries are a frame apart *)
(* bounds their number.                                                    *)
(***************************************************************************)
WedgeTight ==
  /\ wedge \in [Ring -> [idx : Nat, val : Gain]]
  /\ wedge_head \in Ring /\ wedge_len \in 0..cap
  /\ wedge_len = 0 <=> frame = 0
  /\ \A k \in 1..wedge_len : /\ Entry(k).idx \in First..(frame - 1)
                             /\ Entry(k).val = Report(Entry(k).idx)
  /\ \A j, k \in 1..wedge_len : j <= k => k - j <= Entry(k).idx - Entry(j).idx
  /\ \A j, k \in 1..wedge_len : j < k => Entry(j).val < Entry(k).val
  /\ \A m \in First..(frame - 1) :
       \E k \in 1..wedge_len : m <= Entry(k).idx /\ Entry(k).val <= Report(m)

-----------------------------------------------------------------------------
\* A frame of the window has a report.
LEMMA InReports ==
  ReportsKept => \A m \in First..(frame - 1) : m - First + 1 \in DOMAIN reports
<1> SUFFICES ASSUME ReportsKept, NEW m \in First..(frame - 1)
             PROVE  m - First + 1 \in DOMAIN reports
  OBVIOUS
<1>1. First = frame - Len(reports) /\ First \in Int
  BY Sizes DEF First, ReportsKept
<1>2. Len(reports) \in Nat /\ DOMAIN reports = 1..Len(reports) /\ frame \in Int
  BY DEF ReportsKept
<1> QED BY <1>1, <1>2

\* What Recent keeps of the reports when one more comes.
LEMMA ReportTaken ==
  ASSUME ReportsKept, NEW rg \in Gain, frame < MaxFrames,
         frame' = frame + 1, reports' = Recent(Append(reports, rg), cap)
  PROVE  /\ ReportsKept'
         /\ First' = IF frame < cap THEN 0 ELSE frame - look
         /\ First = IF frame < cap THEN 0 ELSE frame - cap
         /\ \A m \in First'..frame : Report(m)' = IF m = frame THEN rg ELSE Report(m)
<1> DEFINE s == Append(reports, rg)
           n == Len(reports)
<1>1. /\ s \in Seq(Gain) /\ Len(s) = n + 1 /\ n \in Nat /\ frame \in Nat
      /\ s[n + 1] = rg /\ \A i \in 1..n : s[i] = reports[i]
  BY DEF ReportsKept
<1>2. First = IF frame < cap THEN 0 ELSE frame - cap
  BY <1>1, Sizes DEF First, ReportsKept
<1> HIDE DEF s
<1>3. CASE frame < cap
  <2>1. reports' = s /\ Len(reports') = n + 1 /\ n = frame
    BY <1>1, <1>3, Sizes DEF Recent, ReportsKept, s
  <2>2. First' = 0 /\ First = 0
    BY <1>1, <2>1 DEF First
  <2>3. \A m \in 0..frame : Report(m)' = s[m + 1]
    BY <1>1, <2>1, <2>2 DEF Report
  <2>4. \A m \in 0..(frame - 1) : Report(m) = reports[m + 1]
    BY <1>1, <2>2 DEF Report
  <2>6. \A m \in 0..frame : Report(m)' = IF m = frame THEN rg ELSE Report(m)
    BY <1>1, <2>1, <2>3, <2>4
  <2>7. ReportsKept'
    BY <1>1, <1>3, <2>1, Sizes DEF ReportsKept
  <2> QED BY <1>2, <1>3, <2>2, <2>6, <2>7
<1>4. CASE ~ (frame < cap)
  <2>1. n = cap /\ reports' = SubSeq(s, 2, n + 1)
    BY <1>1, <1>4, Sizes DEF Recent, ReportsKept, s
  <2>2. /\ reports' \in Seq(Gain) /\ Len(reports') = n
        /\ \A i \in 1..n : reports'[i] = s[i + 1]
    BY <1>1, <2>1, Sizes
  <2>3. First' = frame - look /\ First = frame - cap
    BY <1>1, <1>4, <2>1, <2>2, Sizes DEF First
  <2>4. \A m \in First'..frame : Report(m)' = s[m - frame + look + 2]
    <3> SUFFICES ASSUME NEW m \in First'..frame
                 PROVE  Report(m)' = s[m - frame + look + 2]
      OBVIOUS
    <3>1. m \in Int /\ frame - look <= m /\ m <= frame
      BY <1>1, <2>3, Sizes
    <3>2. m - (frame - look) + 1 \in 1..n
      BY <1>1, <2>1, <3>1, Sizes
    <3>3. (m - (frame - look) + 1) + 1 = m - frame + look + 2
      BY <1>1, <3>1, Sizes
    <3> QED BY <2>2, <2>3, <3>2, <3>3 DEF Report
  <2>5. \A m \in First'..(frame - 1) : Report(m) = s[m - frame + look + 2]
    <3> SUFFICES ASSUME NEW m \in First'..(frame - 1)
                 PROVE  Report(m) = s[m - frame + look + 2]
      OBVIOUS
    <3>1. m \in Int /\ frame - look <= m /\ m <= frame - 1
      BY <1>1, <2>3, Sizes
    <3>2. m - First + 1 = m - frame + look + 2 /\ m - First + 1 \in 1..n
      BY <1>1, <2>1, <2>3, <3>1, Sizes
    <3> QED BY <1>1, <3>2 DEF Report
  <2>6. \A m \in First'..frame : Report(m)' = IF m = frame THEN rg ELSE Report(m)
    <3> SUFFICES ASSUME NEW m \in First'..frame
                 PROVE  Report(m)' = IF m = frame THEN rg ELSE Report(m)
      OBVIOUS
    <3>1. CASE m = frame
      <4>1. frame - frame + look + 2 = n + 1
        BY <1>1, <2>1, Sizes
      <4> QED BY <1>1, <2>4, <3>1, <4>1
    <3>2. CASE m # frame
      <4>1. m \in First'..(frame - 1)
        BY <1>1, <2>3, <3>2, Sizes
      <4> QED BY <2>4, <2>5, <3>2, <4>1
    <3> QED BY <3>1, <3>2
  <2>8. ReportsKept'
    BY <1>1, <1>4, <2>1, <2>2, Sizes DEF ReportsKept
  <2> QED BY <1>2, <1>4, <2>3, <2>6, <2>8
<1> QED BY <1>3, <1>4

-----------------------------------------------------------------------------
\* The ring slot of the k-th entry from head h.
Slot(h, k) == IF h + k <= cap THEN h + k - 1 ELSE h + k - 1 - cap

\* A slot of a ring is a remainder.
LEMMA Slots ==
  ASSUME NEW h \in Ring, NEW k \in 1..(cap + 1)
  PROVE  (h + k - 1) % cap = Slot(h, k) /\ Slot(h, k) \in Ring
<1>1. h + k - 1 \in 0..(2 * cap - 1)
  BY Sizes DEF Ring
<1>2. cap \in Nat \ {0}
  BY Sizes
<1> DEFINE a == h + k - 1
<1> HIDE DEF a
<1>3. a % cap = IF a < cap THEN a ELSE a - cap
  <2>1. a \in 0..(2 * cap - 1)
    BY <1>1 DEF a
  <2> QED BY <1>2, <2>1, Wrapped
<1> QED BY <1>1, <1>2, <1>3, Sizes DEF Slot, Ring, a

\* Entries of a wedge that fits its ring have slots of their own.
LEMMA SlotFacts ==
  ASSUME NEW h \in Ring
  PROVE  /\ \A j, k \in 1..cap : j # k => Slot(h, j) # Slot(h, k)
         /\ Slot(h, cap + 1) = Slot(h, 1)
         /\ \A g \in 0..cap, k \in 1..cap :
              k + g <= cap + 1 => Slot(Slot(h, g + 1), k) = Slot(h, k + g)
  BY Sizes DEF Slot, Ring

\* The entries the wedge holds, counted from its front.
LEMMA EntryFacts ==
  ASSUME WedgeTight, NEW k \in 1..cap
  PROVE  /\ Entry(k) = wedge[Slot(wedge_head, k)]
         /\ Entry(k).idx \in Nat /\ Entry(k).val \in Gain
<1>1. Entry(k) = wedge[Slot(wedge_head, k)] /\ Slot(wedge_head, k) \in Ring
  BY Slots, Sizes DEF Entry, WedgeTight
<1>2. wedge[Slot(wedge_head, k)] \in [idx : Nat, val : Gain]
  BY <1>1 DEF WedgeTight
<1> QED BY <1>1, <1>2

\* What is kept is what is below rg, and all of it.
LEMMA KeptFacts ==
  ASSUME WedgeTight, NEW rg \in Gain
  PROVE  /\ Kept(rg) \in 0..wedge_len
         /\ \A k \in 1..Kept(rg) : Entry(k).val < rg
         /\ \A k \in (Kept(rg) + 1)..wedge_len : rg <= Entry(k).val
<1> DEFINE S == {k \in 0..wedge_len : k = 0 \/ Entry(k).val < rg}
           kept == Kept(rg)
<1>1. wedge_len \in 0..cap /\ wedge_len \in Nat /\ cap \in Nat
  BY Sizes DEF WedgeTight
<1>2. S \in SUBSET (0..wedge_len) /\ 0 \in S
  BY <1>1
<1>3. kept = Max(S)
  BY DEF Kept
<1>4. kept \in S /\ \A k \in S : k <= kept
  BY <1>1, <1>2, <1>3, MaxFacts
<1> HIDE DEF kept
<1>5. ASSUME NEW k \in 1..kept PROVE Entry(k).val < rg
  <2>1. /\ k \in 1..wedge_len /\ kept \in 1..wedge_len /\ k <= kept
        /\ k \in 1..cap /\ kept \in 1..cap
    BY <1>1, <1>4
  <2>2. Entry(kept).val < rg
    BY <1>4, <2>1
  <2>3. k = kept \/ Entry(k).val < Entry(kept).val
    BY <2>1 DEF WedgeTight
  <2>4. /\ Entry(k).val \in Int /\ Entry(kept).val \in Int /\ rg \in Int
    BY <2>1, EntryFacts, Sizes DEF Gain
  <2> QED BY <2>2, <2>3, <2>4
<1>6. ASSUME NEW k \in (kept + 1)..wedge_len PROVE rg <= Entry(k).val
  <2>1. k \in 1..wedge_len /\ k \in 1..cap /\ ~ (k <= kept)
    BY <1>1, <1>4
  <2>2. ~ (Entry(k).val < rg)
    BY <1>4, <2>1
  <2>3. Entry(k).val \in Int /\ rg \in Int
    BY <2>1, EntryFacts, Sizes DEF Gain
  <2> QED BY <2>2, <2>3
<1> QED BY <1>4, <1>5, <1>6 DEF kept

\* What expires is what has left the window, and all of it.
LEMMA ExpiredFacts ==
  ASSUME WedgeTight, frame \in Nat, NEW kept \in 0..wedge_len
  PROVE  /\ Expired(kept) \in 0..kept
         /\ \A k \in 1..Expired(kept) : Entry(k).idx < frame - look
         /\ \A k \in (Expired(kept) + 1)..kept : frame - look <= Entry(k).idx
<1> DEFINE S == {k \in 0..kept : k = kept \/ frame - Entry(k + 1).idx <= look}
           gone == Expired(kept)
<1>1. wedge_len \in 0..cap /\ wedge_len \in Nat /\ cap \in Nat /\ look \in Nat
  BY Sizes DEF WedgeTight
<1>2. S \in SUBSET Nat /\ kept \in S
  BY <1>1
<1>3. gone = Min(S)
  BY DEF Expired
<1>4. gone \in S /\ \A k \in S : gone <= k
  BY <1>2, <1>3, MinFacts
<1> HIDE DEF gone
<1>5. ASSUME NEW k \in 1..gone PROVE Entry(k).idx < frame - look
  <2>1. k - 1 \in 0..kept /\ ~ (gone <= k - 1) /\ k - 1 # kept /\ (k - 1) + 1 = k /\ k \in 1..cap
    BY <1>1, <1>4
  <2>2. ~ (frame - Entry(k).idx <= look)
    BY <1>4, <2>1
  <2>3. Entry(k).idx \in Nat
    BY <2>1, EntryFacts
  <2> QED BY <1>1, <2>2, <2>3
<1>6. ASSUME NEW k \in (gone + 1)..kept PROVE frame - look <= Entry(k).idx
  <2>1. /\ k \in 1..wedge_len /\ k \in 1..cap /\ gone # kept
        /\ gone + 1 \in 1..wedge_len /\ gone + 1 \in 1..cap /\ gone + 1 <= k
    BY <1>1, <1>4
  <2>2. frame - Entry(gone + 1).idx <= look
    BY <1>4, <2>1
  <2>3. k - (gone + 1) <= Entry(k).idx - Entry(gone + 1).idx
    BY <2>1 DEF WedgeTight
  <2>4. Entry(k).idx \in Nat /\ Entry(gone + 1).idx \in Nat /\ gone \in Nat
    BY <1>1, <1>4, <2>1, EntryFacts
  <2> QED BY <1>1, <2>1, <2>2, <2>3, <2>4
<1> QED BY <1>4, <1>5, <1>6 DEF gone

(***************************************************************************)
(* The entries after a report: those kept that have not expired, and the   *)
(* new one, which never takes the slot of one that stays.                  *)
(***************************************************************************)
LEMMA PushedEntries ==
  ASSUME ReportsKept, WedgeTight, NEW rg \in Gain, Push(rg)
  PROVE  LET kept == Kept(rg)
             gone == Expired(kept)
         IN  /\ wedge' \in [Ring -> [idx : Nat, val : Gain]]
             /\ wedge_head' \in Ring
             /\ wedge_len' = kept - gone + 1 /\ wedge_len' \in 1..cap
             /\ \A k \in 1..(kept - gone + 1) :
                  Entry(k)' = IF k = kept - gone + 1 THEN [idx |-> frame, val |-> rg]
                              ELSE Entry(k + gone)
<1> DEFINE kept == Kept(rg)
           gone == Expired(kept)
           h == wedge_head
           e == [idx |-> frame, val |-> rg]
<1>1. /\ wedge_len \in 0..cap /\ cap \in Nat \ {0} /\ look \in Nat /\ cap = look + 1
      /\ frame \in Nat /\ h \in Ring /\ wedge \in [Ring -> [idx : Nat, val : Gain]]
  BY Sizes DEF ReportsKept, WedgeTight
<1>2. kept \in 0..wedge_len /\ kept \in Nat /\ kept <= cap
  BY <1>1, KeptFacts
<1>3. gone \in 0..kept /\ gone \in Nat
  BY <1>1, <1>2, ExpiredFacts
<1>4. /\ wedge' = [wedge EXCEPT ![(h + kept) % cap] = e]
      /\ wedge_head' = (h + gone) % cap /\ wedge_len' = kept - gone + 1
  BY DEF Push
\* A full ring whose every entry is kept loses its front.
<1>5. ASSUME kept = cap PROVE gone >= 1
  <2>1. 1 \in 1..wedge_len /\ cap \in 1..wedge_len /\ 1 \in 1..cap /\ cap \in 1..cap
    BY <1>1, <1>2, <1>5
  <2>2. cap - 1 <= Entry(cap).idx - Entry(1).idx /\ Entry(cap).idx \in First..(frame - 1)
    BY <1>1, <2>1 DEF WedgeTight
  <2>3. Entry(1).idx \in Nat /\ Entry(cap).idx \in Nat
    BY <2>1, EntryFacts
  <2>4. Entry(cap).idx <= frame - 1
    BY <1>1, <2>2, <2>3
  <2>5. Entry(1).idx < frame - look
    BY <1>1, <2>2, <2>3, <2>4
  <2> SUFFICES ASSUME gone = 0 PROVE FALSE
    BY <1>3
  <2>6. 1 \in (gone + 1)..kept
    BY <1>1, <1>5
  <2>7. frame - look <= Entry(1).idx
    BY <1>1, <1>2, <2>6, ExpiredFacts
  <2> QED BY <1>1, <2>3, <2>5, <2>7
<1> HIDE DEF kept, gone, h, e
<1>6. (h + kept) % cap = Slot(h, kept + 1) /\ Slot(h, kept + 1) \in Ring
  <2>1. kept + 1 \in 1..(cap + 1) /\ h + (kept + 1) - 1 = h + kept
    BY <1>1, <1>2 DEF Ring
  <2> QED BY <1>1, <2>1, Slots
<1>7. wedge_head' = Slot(h, gone + 1) /\ wedge_head' \in Ring
  <2>1. gone + 1 \in 1..(cap + 1) /\ h + (gone + 1) - 1 = h + gone
    BY <1>1, <1>2, <1>3 DEF Ring
  <2>2. (h + gone) % cap = Slot(h, gone + 1) /\ Slot(h, gone + 1) \in Ring
    BY <1>1, <2>1, Slots
  <2> QED BY <1>4, <2>2
<1>8. e \in [idx : Nat, val : Gain]
  BY <1>1 DEF e
<1>9. wedge' \in [Ring -> [idx : Nat, val : Gain]]
  BY <1>1, <1>4, <1>6, <1>8
<1>10. wedge_len' \in 1..cap
  BY <1>1, <1>2, <1>3, <1>4, <1>5
<1>11. ASSUME NEW k \in 1..(kept - gone + 1)
       PROVE  Entry(k)' = wedge'[Slot(h, k + gone)] /\ k + gone \in 1..(kept + 1)
  <2>1. k \in 1..cap /\ k \in 1..(cap + 1) /\ k + gone <= kept + 1 /\ k + gone \in 1..(kept + 1)
    BY <1>1, <1>2, <1>3, <1>4, <1>10
  <2>2. (wedge_head' + k - 1) % cap = Slot(wedge_head', k)
    BY <1>7, <2>1, Slots
  <2>3. gone \in 0..cap /\ k + gone <= cap + 1
    BY <1>1, <1>2, <1>3, <2>1
  <2>4. Slot(Slot(h, gone + 1), k) = Slot(h, k + gone)
    BY <1>1, <2>1, <2>3, SlotFacts
  <2> QED BY <1>7, <2>1, <2>2, <2>4 DEF Entry
<1>12. ASSUME NEW k \in 1..(kept - gone + 1), k = kept - gone + 1 PROVE Entry(k)' = e
  <2>1. k + gone = kept + 1
    BY <1>2, <1>3, <1>12
  <2>2. wedge'[Slot(h, kept + 1)] = e
    BY <1>1, <1>4, <1>6
  <2> QED BY <1>11, <2>1, <2>2
<1>13. ASSUME NEW k \in 1..(kept - gone) PROVE Entry(k)' = Entry(k + gone)
  <2>1. k \in 1..(kept - gone + 1) /\ k + gone \in 1..cap /\ k + gone <= kept
    BY <1>1, <1>2, <1>3
  <2>2. Slot(h, k + gone) # Slot(h, kept + 1)
    <3>1. CASE kept = cap
      <4>1. Slot(h, kept + 1) = Slot(h, 1) /\ 1 \in 1..cap /\ k + gone # 1
        BY <1>1, <1>3, <1>5, <3>1, SlotFacts
      <4> QED BY <1>1, <2>1, <4>1, SlotFacts
    <3>2. CASE kept # cap
      <4>1. kept + 1 \in 1..cap /\ k + gone # kept + 1
        BY <1>1, <1>2, <2>1, <3>2
      <4> QED BY <1>1, <2>1, <4>1, SlotFacts
    <3> QED BY <3>1, <3>2
  <2>3. wedge'[Slot(h, k + gone)] = wedge[Slot(h, k + gone)]
    <3>1. Slot(h, k + gone) \in Ring
      <4>1. k + gone \in 1..(cap + 1)
        BY <1>1, <2>1
      <4> QED BY <1>1, <4>1, Slots
    <3> QED BY <1>1, <1>4, <1>6, <2>2, <3>1
  <2>4. Entry(k + gone) = wedge[Slot(h, k + gone)]
    BY <2>1, EntryFacts DEF h
  <2> QED BY <1>11, <2>1, <2>3, <2>4
<1>14. ASSUME NEW k \in 1..(kept - gone + 1)
       PROVE  Entry(k)' = IF k = kept - gone + 1 THEN e ELSE Entry(k + gone)
  <2>1. k = kept - gone + 1 \/ k \in 1..(kept - gone)
    BY <1>2, <1>3
  <2> QED BY <1>2, <1>3, <1>12, <1>13, <2>1
<1> QED BY <1>4, <1>7, <1>9, <1>10, <1>14 DEF kept, gone, e

\* A report keeps the wedge tight.
LEMMA WedgePushed ==
  ASSUME ReportsKept, WedgeTight, NEW rg \in Gain, frame < MaxFrames, Push(rg),
         frame' = frame + 1, reports' = Recent(Append(reports, rg), cap)
  PROVE  WedgeTight'
<1> DEFINE kept == Kept(rg)
           gone == Expired(kept)
           n == kept - gone + 1
<1>1. /\ wedge_len \in 0..cap /\ cap \in Nat \ {0} /\ look \in Nat /\ cap = look + 1
      /\ frame \in Nat /\ rg \in Nat
  BY Sizes DEF ReportsKept, WedgeTight, Gain
<1>2. /\ kept \in 0..wedge_len /\ \A k \in 1..kept : Entry(k).val < rg
      /\ \A k \in (kept + 1)..wedge_len : rg <= Entry(k).val
  BY KeptFacts
<1>3. /\ gone \in 0..kept /\ \A k \in 1..gone : Entry(k).idx < frame - look
      /\ \A k \in (gone + 1)..kept : frame - look <= Entry(k).idx
  BY <1>1, <1>2, ExpiredFacts
<1>4. /\ wedge' \in [Ring -> [idx : Nat, val : Gain]] /\ wedge_head' \in Ring
      /\ wedge_len' = n /\ wedge_len' \in 1..cap
      /\ \A k \in 1..n : Entry(k)' = IF k = n THEN [idx |-> frame, val |-> rg]
                                     ELSE Entry(k + gone)
  BY PushedEntries
<1>5. /\ First' = IF frame < cap THEN 0 ELSE frame - look
      /\ First = IF frame < cap THEN 0 ELSE frame - cap
      /\ \A m \in First'..frame : Report(m)' = IF m = frame THEN rg ELSE Report(m)
  BY ReportTaken
<1> HIDE DEF kept, gone
<1>6. kept \in Nat /\ gone \in Nat /\ gone <= kept /\ kept <= wedge_len /\ n \in Nat /\ n >= 1
  BY <1>1, <1>2, <1>3
\* The entries that stay, under the numbers they had.
<1>7. ASSUME NEW k \in 1..n, k # n
      PROVE  /\ k + gone \in 1..wedge_len /\ k + gone <= kept /\ k + gone \in 1..cap
             /\ Entry(k)' = Entry(k + gone)
             /\ Entry(k + gone).idx \in First'..(frame - 1)
             /\ Entry(k + gone).idx \in Nat /\ Entry(k + gone).val \in Nat
             /\ Entry(k + gone).val = Report(Entry(k + gone).idx)
             /\ Entry(k + gone).val < rg
  <2>1. k + gone \in 1..wedge_len /\ k + gone <= kept /\ k + gone \in 1..cap /\ k + gone \in (gone + 1)..kept
    BY <1>1, <1>6, <1>7
  <2>2. Entry(k)' = Entry(k + gone)
    BY <1>4, <1>7
  <2>3. frame - look <= Entry(k + gone).idx
    BY <1>3, <2>1
  <2>4. Entry(k + gone).idx \in First..(frame - 1) /\ Entry(k + gone).val = Report(Entry(k + gone).idx)
    BY <2>1 DEF WedgeTight
  <2>5. Entry(k + gone).idx \in Nat /\ Entry(k + gone).val \in Nat
    BY <2>1, EntryFacts, Sizes DEF Gain
  <2>6. Entry(k + gone).idx \in First'..(frame - 1)
    BY <1>1, <1>5, <2>3, <2>4, <2>5
  <2>7. Entry(k + gone).val < rg
    <3>1. k + gone \in 1..kept
      BY <1>6, <2>1
    <3> QED BY <1>2, <3>1
  <2> QED BY <2>1, <2>2, <2>4, <2>5, <2>6, <2>7
<1>8. ASSUME NEW k \in 1..n, k = n
      PROVE  Entry(k)'.idx = frame /\ Entry(k)'.val = rg
  BY <1>4, <1>8
<1> HIDE DEF n
<1>9. ASSUME NEW k \in 1..n
      PROVE  /\ Entry(k)'.idx \in First'..(frame' - 1)
             /\ Entry(k)'.val = Report(Entry(k).idx)'
  <2>1. CASE k = n
    <3>1. frame \in First'..frame
      BY <1>1, <1>5
    <3> QED BY <1>1, <1>5, <1>8, <2>1, <3>1 DEF Report
  <2>2. CASE k # n
    <3> DEFINE i == Entry(k + gone).idx
    <3>1. i \in First'..(frame - 1) /\ i \in Nat /\ Entry(k + gone).val = Report(i) /\ Entry(k)'.idx = i
      BY <1>7, <2>2
    <3> HIDE DEF i
    <3>2. i \in First'..frame /\ i # frame /\ i \in First'..(frame' - 1)
      BY <1>1, <1>5, <3>1
    <3>3. reports'[i - First' + 1] = Report(i)
      BY <1>5, <3>2 DEF Report
    <3> QED BY <1>7, <2>2, <3>1, <3>2, <3>3 DEF Report
  <2> QED BY <2>1, <2>2
<1>10. ASSUME NEW j \in 1..n, NEW k \in 1..n, j <= k
       PROVE  k - j <= Entry(k)'.idx - Entry(j)'.idx
  <2>1. CASE j = n
    <3>1. k = j
      BY <1>6, <1>10, <2>1
    <3> QED BY <1>1, <1>8, <2>1, <3>1
  <2>2. CASE j # n /\ k = n
    <3>1. kept \in 1..wedge_len /\ j + gone \in 1..wedge_len /\ j + gone <= kept
      BY <1>6, <1>7, <2>2
    <3>2. kept - (j + gone) <= Entry(kept).idx - Entry(j + gone).idx
      BY <3>1 DEF WedgeTight
    <3>3. kept \in 1..cap
      BY <1>1, <3>1
    <3>4. Entry(kept).idx \in Nat /\ Entry(kept).idx <= frame - 1
      <4>1. Entry(kept).idx \in First..(frame - 1)
        BY <3>1 DEF WedgeTight
      <4> QED BY <1>1, <1>5, <3>3, <4>1, EntryFacts
    <3>5. Entry(j)'.idx = Entry(j + gone).idx /\ Entry(j + gone).idx \in Nat
      BY <1>7, <2>2
    <3>6. Entry(k)'.idx = frame
      BY <1>8, <2>2
    <3> QED BY <1>1, <1>6, <2>2, <3>2, <3>4, <3>5, <3>6 DEF n
  <2>3. CASE j # n /\ k # n
    <3>1. (k + gone) - (j + gone) <= Entry(k + gone).idx - Entry(j + gone).idx
      <4>1. k + gone \in 1..wedge_len /\ j + gone \in 1..wedge_len /\ j + gone <= k + gone
        BY <1>6, <1>7, <1>10, <2>3
      <4> QED BY <4>1 DEF WedgeTight
    <3>2. /\ Entry(j)'.idx = Entry(j + gone).idx /\ Entry(j + gone).idx \in Nat
          /\ Entry(k)'.idx = Entry(k + gone).idx /\ Entry(k + gone).idx \in Nat
      BY <1>7, <2>3
    <3> QED BY <1>6, <3>1, <3>2
  <2> QED BY <2>1, <2>2, <2>3
<1>11. ASSUME NEW j \in 1..n, NEW k \in 1..n, j < k
       PROVE  Entry(j)'.val < Entry(k)'.val
  <2>1. j # n
    BY <1>6, <1>11
  <2>2. CASE k = n
    BY <1>7, <1>8, <2>1, <2>2
  <2>3. CASE k # n
    <3>1. k + gone \in 1..wedge_len /\ j + gone \in 1..wedge_len /\ j + gone < k + gone
      BY <1>6, <1>7, <1>11, <2>1, <2>3
    <3>2. Entry(j + gone).val < Entry(k + gone).val
      BY <3>1 DEF WedgeTight
    <3> QED BY <1>7, <2>1, <2>3, <3>2
  <2> QED BY <2>2, <2>3
<1>12. ASSUME NEW m \in First'..(frame' - 1)
       PROVE  \E k \in 1..n : m <= Entry(k)'.idx /\ Entry(k)'.val <= Report(m)'
  <2>0. m \in Int /\ m \in First'..frame
    BY <1>1, <1>5, <1>6
  <2>1. CASE m = frame
    <3>1. PICK k \in 1..n : k = n
      BY <1>6
    <3>2. Report(m)' = rg
      BY <1>5, <2>0, <2>1
    <3> QED BY <1>1, <1>8, <2>1, <3>1, <3>2
  <2>2. CASE m # frame
    <3>1. m \in First..(frame - 1) /\ Report(m)' = Report(m)
      BY <1>1, <1>5, <2>0, <2>2
    <3>2. PICK j \in 1..wedge_len : m <= Entry(j).idx /\ Entry(j).val <= Report(m)
      BY <3>1 DEF WedgeTight
    <3>3. j \in 1..cap /\ Entry(j).idx \in Nat /\ Entry(j).val \in Nat
      <4>1. j \in 1..cap
        BY <1>1
      <4> QED BY <4>1, EntryFacts, Sizes DEF Gain
    <3>4. ~ (j <= gone)
      <4> SUFFICES ASSUME j <= gone PROVE FALSE
        OBVIOUS
      <4>1. Entry(j).idx < frame - look
        BY <1>1, <1>3, <1>6
      <4> QED BY <1>1, <1>5, <2>0, <3>2, <3>3, <4>1
    <3>5. CASE kept < j
      <4>1. rg <= Entry(j).val
        BY <1>1, <1>2, <1>6, <3>5
      <4>2. PICK k \in 1..n : k = n
        BY <1>6
      <4>3. Report(m) \in Nat
        <5>1. m - First + 1 \in 1..Len(reports)
          BY <1>1, <1>5, <3>1 DEF First, ReportsKept
        <5> QED BY <5>1, Sizes DEF Report, ReportsKept, Gain
      <4>4. Entry(k)'.idx = frame /\ Entry(k)'.val = rg
        BY <1>8, <4>2
      <4>5. m <= frame /\ rg <= Report(m)
        BY <1>1, <2>0, <3>2, <3>3, <4>1, <4>3
      <4> QED BY <3>1, <4>4, <4>5
    <3>6. CASE j <= kept
      <4>1. PICK k \in 1..n : k = j - gone /\ k # n
        BY <1>1, <1>6, <3>4, <3>6 DEF n
      <4>2. k + gone = j
        BY <1>1, <1>6, <4>1
      <4>3. Entry(k)' = Entry(j)
        BY <1>7, <4>1, <4>2
      <4> QED BY <3>1, <3>2, <4>3
    <3> QED BY <1>1, <1>6, <3>5, <3>6
  <2> QED BY <2>1, <2>2
<1>13. wedge_len' = 0 <=> frame' = 0
  BY <1>1, <1>4
<1> QED BY <1>1, <1>4, <1>9, <1>10, <1>11, <1>12, <1>13 DEF WedgeTight

\* The front is a report of the window and bounds the others from below.
FrontIsLeast ==
  /\ wedge[wedge_head].val \in Gain
  /\ \E m \in First..(frame - 1) : wedge[wedge_head].val = Report(m)
  /\ \A m \in First..(frame - 1) : wedge[wedge_head].val <= Report(m)

\* From the invariant: the wedge's front is the least gain of the lookahead window.
LEMMA FrontFacts == ReportsKept /\ WedgeTight /\ frame # 0 => FrontIsLeast
<1> SUFFICES ASSUME ReportsKept, WedgeTight, frame # 0 PROVE FrontIsLeast
  OBVIOUS
<1>1. /\ wedge_len \in 1..cap /\ 1 \in 1..cap /\ wedge_head \in Ring /\ cap \in Nat
      /\ 1 \in 1..wedge_len
  BY Sizes DEF WedgeTight
<1>2. Slot(wedge_head, 1) = wedge_head
  BY <1>1, Sizes DEF Slot, Ring
<1>3. Entry(1) = wedge[wedge_head]
  BY <1>1, <1>2, EntryFacts
<1>4. Entry(1).idx \in First..(frame - 1) /\ Entry(1).val = Report(Entry(1).idx)
  BY <1>1 DEF WedgeTight
<1>5. ASSUME NEW m \in First..(frame - 1) PROVE Entry(1).val <= Report(m)
  <2>1. PICK k \in 1..wedge_len : Entry(k).val <= Report(m)
    BY DEF WedgeTight
  <2>2. k = 1 \/ Entry(1).val < Entry(k).val
    BY <1>1 DEF WedgeTight
  <2>3. Entry(1).val \in Nat /\ Entry(k).val \in Nat
    <3>1. k \in 1..cap
      BY <1>1
    <3> QED BY <1>1, <3>1, EntryFacts, Sizes DEF Gain
  <2>4. Report(m) \in Nat
    <3>1. m - First + 1 \in 1..Len(reports)
      BY Sizes DEF First, ReportsKept
    <3> QED BY <3>1, Sizes DEF Report, ReportsKept, Gain
  <2> QED BY <2>1, <2>2, <2>3, <2>4
<1> QED BY <1>1, <1>3, <1>4, <1>5, EntryFacts DEF FrontIsLeast

\* A tight wedge yields the minimum of what it has seen.
LEMMA WedgeTightMin ==
  ASSUME ReportsKept, WedgeTight
  PROVE  WedgeMin
<1> SUFFICES ASSUME reports # <<>>
             PROVE  wedge[wedge_head].val = Min({reports[i] : i \in DOMAIN reports})
  BY DEF WedgeMin
<1> DEFINE S == {reports[i] : i \in DOMAIN reports}
           w == wedge[wedge_head].val
           n == Len(reports)
<1>1. reports \in Seq(Gain) /\ n \in Nat /\ n # 0 /\ frame \in Nat
  BY DEF ReportsKept
<1>2. frame # 0 /\ First \in Nat /\ frame = First + n
  BY <1>1, Sizes DEF ReportsKept, First
<1>3. \A i \in 1..n : reports[i] = Report(First + i - 1) /\ First + i - 1 \in First..(frame - 1)
  BY <1>1, <1>2 DEF Report
<1>4. /\ w \in Gain /\ \A m \in First..(frame - 1) : w <= Report(m)
      /\ \E m \in First..(frame - 1) : w = Report(m)
  BY <1>2, FrontFacts DEF FrontIsLeast
<1>5. PICK m \in First..(frame - 1) : w = Report(m)
  BY <1>4
<1>6. w \in S
  <2>1. m - First + 1 \in DOMAIN reports
    BY <1>1, <1>2
  <2> QED BY <1>5, <2>1 DEF Report
<1>7. \A k \in S : w <= k
  BY <1>1, <1>3, <1>4
<1>8. S \in SUBSET Nat
  BY <1>1, Sizes DEF Gain
<1> HIDE DEF S, w
<1>9. Min(S) = w
  BY <1>6, <1>7, <1>8, MinIs
<1> QED BY <1>9 DEF S, w

-----------------------------------------------------------------------------
(***************************************************************************)
(* The history the attack is smoothed over.  Behind(j) is the slot written *)
(* j frames ago.                                                           *)
(***************************************************************************)
Behind(j) == IF wm_pos >= j THEN wm_pos - j ELSE wm_pos + attack_len - j

\* Its minima bound every report of the look + 1 frames they were taken over.
AttackCovers ==
  \A j \in 1..attack_len : j <= frame =>
    \A m \in First..(frame - 1) :
      frame - j - look <= m /\ m <= frame - j => wm_hist[Behind(j)] <= Report(m)

\* What is counted as not unity is what is in the history.
HistoryKept ==
  /\ wm_hist \in [Hist -> Gain] /\ wm_pos \in Hist
  /\ wm_nonunity = Cardinality({i \in Hist : wm_hist[i] # Unity})

\* The cached count of non-unity gains is the number of the history's slots that are not at unity.
LEMMA Counting ==
  ASSUME HistoryKept, NEW wm \in Gain,
         wm_nonunity' = Counted(wm_hist[wm_pos], wm),
         wm_hist' = [wm_hist EXCEPT ![wm_pos] = wm],
         wm_pos' = (wm_pos + 1) % attack_len
  PROVE  HistoryKept'
<1> DEFINE old == {i \in Hist : wm_hist[i] # Unity}
           new == {i \in Hist : wm_hist'[i] # Unity}
           rest == old \ {wm_pos}
<1>1. attack_len \in Nat \ {0} /\ wm_pos \in Hist /\ wm_hist \in [Hist -> Gain]
  BY Sizes DEF HistoryKept
<1>2. wm_pos' \in Hist
  <2>1. wm_pos + 1 \in 0..(2 * attack_len - 1)
    BY <1>1 DEF Hist
  <2> DEFINE a == wm_pos + 1
  <2> HIDE DEF a
  <2>2. a % attack_len = IF a < attack_len THEN a ELSE a - attack_len
    BY <1>1, <2>1, Wrapped DEF a
  <2> QED BY <1>1, <2>1, <2>2 DEF a, Hist
<1>3. wm_hist' \in [Hist -> Gain]
  BY <1>1
<1>4. IsFiniteSet(old) /\ Cardinality(old) \in Nat
  <2>1. IsFiniteSet(Hist)
    BY <1>1, FS_Interval DEF Hist
  <2>2. IsFiniteSet(old)
    BY <2>1, FS_Subset
  <2> QED BY <2>2, FS_CardinalityType
<1>5. /\ IsFiniteSet(rest)
      /\ Cardinality(rest) = Cardinality(old) - NonUnity(wm_hist[wm_pos])
  <2>1. /\ IsFiniteSet(rest)
        /\ Cardinality(rest) = IF wm_pos \in old THEN Cardinality(old) - 1 ELSE Cardinality(old)
    BY <1>4, FS_RemoveElement
  <2>2. wm_pos \in old <=> wm_hist[wm_pos] # Unity
    BY <1>1
  <2> HIDE DEF old, rest
  <2> QED BY <1>4, <2>1, <2>2 DEF NonUnity
<1>6. new = IF wm # Unity THEN rest \cup {wm_pos} ELSE rest
  BY <1>1
<1>7. wm_pos \notin rest
  OBVIOUS
<1>8. Cardinality(new) = Cardinality(rest) + NonUnity(wm)
  <2> HIDE DEF old, new, rest
  <2>1. Cardinality(rest \cup {wm_pos}) = Cardinality(rest) + 1
    BY <1>5, <1>7, FS_AddElement
  <2>2. Cardinality(rest) \in Nat
    BY <1>5, FS_CardinalityType
  <2> QED BY <1>6, <2>1, <2>2 DEF NonUnity
<1>9. wm_nonunity' = Cardinality(new)
  <2>1. wm_nonunity = Cardinality(old)
    BY DEF HistoryKept
  <2> HIDE DEF old, new, rest
  <2>2. Cardinality(rest) \in Nat
    BY <1>5, FS_CardinalityType
  <2> QED BY <1>4, <1>5, <1>8, <2>1, <2>2 DEF Counted, NonUnity
<1> QED BY <1>2, <1>3, <1>9 DEF HistoryKept

\* The next report is covered as well.
LEMMA AttackPushed ==
  ASSUME ReportsKept, WedgeTight, HistoryKept, AttackCovers,
         NEW rg \in Gain, frame < MaxFrames, StepEnv(rg),
         reports' = Recent(Append(reports, rg), cap)
  PROVE  ReportsKept' /\ WedgeTight' /\ FrontIsLeast' /\ HistoryKept' /\ AttackCovers'
<1> DEFINE wm == wedge'[wedge_head'].val
<1>1. /\ Push(rg) /\ frame' = frame + 1 /\ frame \in Nat
      /\ wm_nonunity' = Counted(wm_hist[wm_pos], wm)
      /\ wm_hist' = [wm_hist EXCEPT ![wm_pos] = wm] /\ wm_pos' = (wm_pos + 1) % attack_len
  BY DEF StepEnv, ReportsKept
<1>2. ReportsKept' /\ WedgeTight'
  BY <1>1, ReportTaken, WedgePushed
<1>3. FrontIsLeast'
  <2>1. frame' # 0
    BY <1>1
  <2>2. (ReportsKept /\ WedgeTight /\ frame # 0 => FrontIsLeast)'
    BY FrontFacts, PTL
  <2> QED BY <1>2, <2>1, <2>2
<1>4. wm \in Gain
  BY <1>3 DEF FrontIsLeast
<1>5. HistoryKept'
  BY <1>1, <1>4, Counting
<1>6. /\ First' = IF frame < cap THEN 0 ELSE frame - look
      /\ First = IF frame < cap THEN 0 ELSE frame - cap
      /\ \A m \in First'..frame : Report(m)' = IF m = frame THEN rg ELSE Report(m)
  BY <1>1, ReportTaken
<1>7. /\ attack_len \in Nat \ {0} /\ look \in Nat /\ cap = look + 1
      /\ wm_pos \in Hist /\ wm_pos' \in Hist /\ wm_hist \in [Hist -> Gain]
  BY <1>5, Sizes DEF HistoryKept
<1>8. wm_pos' = IF wm_pos + 1 = attack_len THEN 0 ELSE wm_pos + 1
  <2>1. wm_pos + 1 \in 0..(2 * attack_len - 1)
    BY <1>7 DEF Hist
  <2> DEFINE a == wm_pos + 1
  <2> HIDE DEF a
  <2>2. a % attack_len = IF a < attack_len THEN a ELSE a - attack_len
    BY <1>7, <2>1, Wrapped DEF a
  <2> QED BY <1>1, <1>7, <2>1, <2>2 DEF a, Hist
<1>9. ASSUME NEW j \in 1..attack_len, j <= frame', NEW m \in First'..(frame' - 1),
             frame' - j - look <= m, m <= frame' - j
      PROVE  wm_hist'[Behind(j)'] <= Report(m)'
  <2>1. CASE j = 1
    <3>1. Behind(j)' = wm_pos
      BY <1>7, <1>8, <2>1 DEF Behind, Hist
    <3>2. wm_hist'[wm_pos] = wm
      BY <1>1, <1>7
    <3> QED BY <1>3, <3>1, <3>2 DEF FrontIsLeast
  <2>2. CASE j # 1
    <3>1. /\ j - 1 \in 1..attack_len /\ j - 1 <= frame
          /\ m \in First..(frame - 1) /\ m \in First'..frame /\ m # frame
          /\ frame - (j - 1) - look <= m /\ m <= frame - (j - 1)
      BY <1>1, <1>6, <1>7, <1>9, <2>2
    <3>2. Behind(j)' = Behind(j - 1) /\ Behind(j - 1) # wm_pos /\ Behind(j - 1) \in Hist
      BY <1>7, <1>8, <2>2 DEF Behind, Hist
    <3>3. wm_hist[Behind(j - 1)] <= Report(m)
      BY <3>1 DEF AttackCovers
    <3>4. wm_hist'[Behind(j - 1)] = wm_hist[Behind(j - 1)]
      BY <1>1, <1>7, <3>2
    <3> QED BY <1>6, <3>1, <3>2, <3>3, <3>4
  <2> QED BY <2>1, <2>2
<1>10. AttackCovers'
  BY <1>9 DEF AttackCovers
<1> QED BY <1>2, <1>3, <1>5, <1>10

\* The convolution never exceeds all of the history, and is one when that is.
LEMMA SmoothedFacts ==
  ASSUME NEW h \in [Hist -> Gain], NEW n, NEW fir \in Smoothed(h, n)
  PROVE  /\ fir \in Gain
         /\ n = 0 => fir = Unity
         /\ n # 0 => \E i \in Hist : fir <= h[i]
<1> DEFINE gains == {h[i] : i \in Hist}
<1>1. gains \in SUBSET (0..Unity) /\ gains # {} /\ Unity \in Nat
  BY Sizes DEF Gain, Hist
<1>2. CASE n = 0
  BY <1>1, <1>2 DEF Smoothed, Gain
<1>3. CASE n # 0
  <2>1. fir \in (IF Min(gains) = 0 THEN 0 ELSE Min(gains) - 1)..Max(gains)
    BY <1>3 DEF Smoothed
  <2>2. Max(gains) \in gains
    BY <1>1, MaxFacts
  <2>3. Min(gains) \in gains
    <3>1. gains \in SUBSET Nat
      BY <1>1
    <3> QED BY <1>1, <3>1, MinFacts
  <2>4. PICK i \in Hist : Max(gains) = h[i]
    BY <2>2
  <2>5. Max(gains) \in 0..Unity /\ Min(gains) \in 0..Unity
    BY <1>1, <2>2, <2>3
  <2> HIDE DEF gains
  <2>6. fir \in 0..Unity /\ fir <= Max(gains)
    BY <1>1, <2>1, <2>5
  <2> QED BY <1>3, <2>4, <2>6 DEF Gain
<1> QED BY <1>2, <1>3

\* Every slot of the history was written one to attack_len frames ago.
LEMMA SlotsCovered ==
  ASSUME NEW p \in Hist, NEW i \in Hist
  PROVE  \E j \in 1..attack_len : (IF p >= j THEN p - j ELSE p + attack_len - j) = i
<1>1. /\ attack_len \in Nat \ {0}
      /\ p \in Int /\ 0 <= p /\ p < attack_len /\ i \in Int /\ 0 <= i /\ i < attack_len
  BY Sizes DEF Hist
<1>2. CASE i < p
  <2>1. p - i \in 1..attack_len /\ p >= p - i /\ p - (p - i) = i
    BY <1>1, <1>2
  <2> QED BY <2>1
<1>3. CASE ~ (i < p)
  <2>1. /\ p + attack_len - i \in 1..attack_len /\ ~ (p >= p + attack_len - i)
        /\ p + attack_len - (p + attack_len - i) = i
    BY <1>1, <1>3
  <2> QED BY <2>1
<1> QED BY <1>2, <1>3

\* A frame's report is a gain while it is kept.
LEMMA ReportsTyped ==
  ASSUME ReportsKept', frame \in Nat, frame' = frame + 1, NEW m \in First'..frame
  PROVE  Report(m)' \in Gain
<1>1. /\ reports' \in Seq(Gain) /\ Len(reports') \in Nat /\ frame' \in Nat
      /\ First' = frame' - Len(reports')
  BY DEF ReportsKept, First
<1>2. frame = frame' - 1 /\ frame \in Int
  BY <1>1
<1>3. m - First' + 1 \in 1..Len(reports')
  BY <1>1, <1>2
<1> QED BY <1>1, <1>3 DEF Report

(***************************************************************************)
(* The gain at which a sample leaves: no more than any report made while   *)
(* the sample was in the detector, which is as long ago as the attack is   *)
(* long and no longer than the wedge looks back.                           *)
(***************************************************************************)
LEMMA GainCovered ==
  ASSUME ReportsKept, WedgeTight, HistoryKept, AttackCovers, env \in Gain,
         NEW rg \in Gain, frame < MaxFrames, StepEnv(rg),
         reports' = Recent(Append(reports, rg), cap)
  PROVE  /\ env' \in Gain
         /\ \A m \in First'..frame :
              frame - look <= m /\ m <= frame - look + TP_TAIL_FRAMES => env' <= Report(m)'
<1>1. ReportsKept' /\ HistoryKept' /\ AttackCovers' /\ frame' = frame + 1 /\ frame \in Nat
  <2>1. ReportsKept' /\ HistoryKept' /\ AttackCovers'
    BY AttackPushed
  <2>2. frame' = frame + 1 /\ frame \in Nat
    BY DEF StepEnv, ReportsKept
  <2> QED BY <2>1, <2>2
<1>2. PICK fir \in Smoothed(wm_hist', wm_nonunity') : env' \in Follow(fir)
  BY DEF StepEnv
<1>3. wm_hist' \in [Hist -> Gain] /\ wm_pos' \in Hist
  BY <1>1 DEF HistoryKept
<1>4. /\ fir \in Gain
      /\ wm_nonunity' = 0 => fir = Unity
      /\ wm_nonunity' # 0 => \E i \in Hist : fir <= wm_hist'[i]
  BY <1>2, <1>3, SmoothedFacts
<1>5. env' \in Gain /\ env' <= fir
  <2>1. fir \in Int /\ env \in Int /\ Unity \in Nat
    BY <1>4, Sizes DEF Gain
  <2> QED BY <1>2, <1>4, <2>1 DEF Follow, Gain
<1>6. ASSUME NEW m \in First'..frame, frame - look <= m, m <= frame - look + TP_TAIL_FRAMES
      PROVE  env' <= Report(m)'
  <2>1. /\ look \in Nat /\ TP_TAIL_FRAMES \in Nat /\ attack_len \in Nat \ {0}
        /\ attack_len = 1 \/ attack_len = look - TP_TAIL_FRAMES
        /\ attack_len + TP_TAIL_FRAMES <= look + 1 /\ cap = look + 1
    BY Sizes DEF attack_len
  <2>2. First' = IF frame < cap THEN 0 ELSE frame - look
    BY <1>1, ReportTaken
  <2>3. m \in Int /\ 0 <= m /\ attack_len <= frame'
    BY <1>1, <1>6, <2>1, <2>2
  <2>4. ASSUME NEW i \in Hist PROVE wm_hist'[i] <= Report(m)'
    <3>1. PICK j \in 1..attack_len : Behind(j)' = i
      BY <1>3, SlotsCovered DEF Behind
    <3>2. /\ j <= frame' /\ m \in First'..(frame' - 1)
          /\ frame' - j - look <= m /\ m <= frame' - j
      BY <1>1, <1>6, <2>1, <2>2, <2>3
    <3> QED BY <1>1, <3>1, <3>2 DEF AttackCovers
  <2>5. fir <= Report(m)'
    <3>1. Report(m)' \in Nat
      BY <1>1, <1>6, ReportsTyped, Sizes DEF Gain
    <3>2. CASE wm_nonunity' = 0
      <4>1. wm_hist'[0] = Unity
        <5>1. Cardinality({i \in Hist : wm_hist'[i] # Unity}) = 0
          BY <1>1, <3>2 DEF HistoryKept
        <5>2. IsFiniteSet(Hist)
          BY <2>1, FS_Interval DEF Hist
        <5>3. IsFiniteSet({i \in Hist : wm_hist'[i] # Unity})
          BY <5>2, FS_Subset
        <5>4. {i \in Hist : wm_hist'[i] # Unity} = {}
          BY <5>1, <5>3, FS_EmptySet
        <5> QED BY <2>1, <5>4 DEF Hist
      <4>2. 0 \in Hist
        BY <2>1 DEF Hist
      <4> QED BY <1>4, <2>4, <3>2, <4>1, <4>2
    <3>3. CASE wm_nonunity' # 0
      <4>1. PICK i \in Hist : fir <= wm_hist'[i]
        BY <1>4, <3>3
      <4>2. wm_hist'[i] \in Nat /\ fir \in Nat
        BY <1>3, <1>4, Sizes DEF Gain
      <4> QED BY <2>4, <3>1, <4>1, <4>2
    <3> QED BY <3>2, <3>3
  <2>6. env' \in Nat /\ fir \in Nat /\ Report(m)' \in Nat
    <3>2. Report(m)' \in Gain
      BY <1>1, <1>6, ReportsTyped
    <3> QED BY <1>4, <1>5, <3>2, Sizes DEF Gain
  <2> QED BY <1>5, <2>5, <2>6
<1> QED BY <1>5, <1>6

-----------------------------------------------------------------------------
\* Nothing but unity reported: unity throughout, and so is the gain.
CleanMeans ==
  clean => /\ env = Unity
           /\ \A i \in DOMAIN reports : reports[i] = Unity
           /\ \A i \in Hist : wm_hist[i] = Unity

StreamTyped ==
  /\ taps \in [1..TP_TAPS -> Nat]
  /\ env \in Gain /\ clean \in BOOLEAN
  /\ delay \in [Line -> Nat] /\ delay_pos \in Line
  /\ left \in [sample : Nat, gain : Gain]

\* A call of flush and what was drained before it stay within the tail.
CallFits ==
  /\ flushed \in 0..look /\ want \in 0..look /\ call \in {None} \cup 0..look
  /\ call # None => want <= call /\ flushed + call <= look

(***************************************************************************)
(* The inductive invariant.                                                *)
(***************************************************************************)
IInv ==
  /\ ReportsKept /\ WedgeTight /\ HistoryKept /\ AttackCovers
  /\ StreamTyped /\ CleanMeans /\ CallFits
  /\ resets \in 0..MaxResets

\* The last entries of a sequence.
LEMMA LastEntries ==
  ASSUME NEW S, NEW s \in Seq(S), NEW n \in Nat \ {0}, n <= Len(s),
         NEW r, r = SubSeq(s, Len(s) - n + 1, Len(s))
  PROVE  Len(r) = n /\ \A i \in 1..n : r[i] = s[i + Len(s) - n]
<1>1. Len(s) \in Nat /\ n \in Nat /\ n >= 1
  OBVIOUS
<1>2. Len(r) = n
  BY <1>1
<1>3. ASSUME NEW i \in 1..n PROVE r[i] = s[i + Len(s) - n]
  BY <1>1, <1>2
<1> QED BY <1>2, <1>3

\* A clean frame leaves everything at unity.
LEMMA CleanStep ==
  ASSUME ReportsKept, WedgeTight, HistoryKept, AttackCovers, StreamTyped, CleanMeans,
         NEW rg \in Gain, frame < MaxFrames, StepEnv(rg),
         reports' = Recent(Append(reports, rg), cap), clean, rg = Unity
  PROVE  /\ env' = Unity
         /\ \A i \in DOMAIN reports' : reports'[i] = Unity
         /\ \A i \in Hist : wm_hist'[i] = Unity
<1>1. ReportsKept' /\ FrontIsLeast' /\ HistoryKept' /\ frame' = frame + 1 /\ frame \in Nat
  <2>1. ReportsKept' /\ FrontIsLeast' /\ HistoryKept'
    BY AttackPushed
  <2> QED BY <2>1 DEF StepEnv, ReportsKept
<1>2. \A i \in DOMAIN reports : reports[i] = Unity
  BY DEF CleanMeans
<1>3. \A i \in DOMAIN reports' : reports'[i] = Unity
  <2> DEFINE s == Append(reports, rg)
  <2>1. reports \in Seq(Gain) /\ s \in Seq(Gain) /\ Len(s) = Len(reports) + 1
    BY DEF ReportsKept
  <2>2. \A i \in 1..Len(s) : s[i] = Unity
    BY <1>2, <2>1
  <2> HIDE DEF s
  <2>3. CASE Len(s) <= cap
    BY <2>1, <2>2, <2>3 DEF Recent, s
  <2>4. CASE ~ (Len(s) <= cap)
    <3>0. reports' = Recent(s, cap)
      BY DEF s
    <3>a. reports' = SubSeq(s, Len(s) - cap + 1, Len(s))
      BY <2>4, <3>0 DEF Recent
    <3>1. /\ reports' = SubSeq(s, Len(s) - cap + 1, Len(s))
          /\ cap \in Nat \ {0} /\ Len(s) \in Nat
      BY <2>1, <3>a, Sizes
    <3>2. Len(reports') = cap /\ \A i \in 1..cap : reports'[i] = s[i + Len(s) - cap]
      <4>1. Len(s) >= cap
        BY <2>4, <3>1
      <4> QED BY <2>1, <3>1, <4>1, LastEntries
    <3>3. DOMAIN reports' = 1..cap
      BY <1>1, <3>1, <3>2 DEF ReportsKept
    <3> QED BY <2>2, <2>4, <3>1, <3>2, <3>3
  <2> QED BY <2>3, <2>4
<1> DEFINE wm == wedge'[wedge_head'].val
<1>4. wm = Unity
  <2>0. (ReportsKept => \A m \in First..(frame - 1) : m - First + 1 \in DOMAIN reports)'
    BY InReports, PTL
  <2>1. PICK m \in First'..(frame' - 1) : wm = Report(m)'
    BY <1>1 DEF FrontIsLeast
  <2>2. m - First' + 1 \in DOMAIN reports'
    BY <1>1, <2>0, <2>1
  <2> QED BY <1>3, <2>1, <2>2 DEF Report
<1>5. \A i \in Hist : wm_hist'[i] = Unity
  <2>1. wm_hist' = [wm_hist EXCEPT ![wm_pos] = wm]
    BY DEF StepEnv
  <2>2. \A i \in Hist : wm_hist[i] = Unity
    BY DEF CleanMeans
  <2> QED BY <1>4, <2>1, <2>2 DEF HistoryKept
<1>6. wm_nonunity' = 0
  <2>1. {i \in Hist : wm_hist'[i] # Unity} = {}
    BY <1>5
  <2> QED BY <1>1, <2>1, FS_EmptySet DEF HistoryKept
<1>7. env' = Unity
  <2>1. PICK fir \in Smoothed(wm_hist', wm_nonunity') : env' \in Follow(fir)
    BY DEF StepEnv
  <2>2. fir = Unity /\ env = Unity /\ Unity \in Nat
    BY <1>6, <2>1, Sizes DEF Smoothed, CleanMeans
  <2> QED BY <2>1, <2>2 DEF Follow
<1> QED BY <1>3, <1>5, <1>7

\* The new sample shifts the detector's delay line.
LEMMA ShiftedType ==
  ASSUME NEW x \in Nat, taps \in [1..TP_TAPS -> Nat]
  PROVE  Shifted(x) \in [1..TP_TAPS -> Nat]
<1>1. taps \in Seq(Nat) /\ Len(taps) = TP_TAPS /\ TP_TAPS \in Nat \ {0}
  BY Sizes
<1>2. /\ SubSeq(taps, 1, TP_TAPS - 1) \in Seq(Nat)
      /\ Len(SubSeq(taps, 1, TP_TAPS - 1)) = TP_TAPS - 1
  BY <1>1
<1>3. <<x>> \in Seq(Nat) /\ Len(<<x>>) = 1
  OBVIOUS
<1> DEFINE s == SubSeq(taps, 1, TP_TAPS - 1)
<1> HIDE DEF s
<1>4. <<x>> \o s \in Seq(Nat) /\ Len(<<x>> \o s) = TP_TAPS
  BY <1>1, <1>2, <1>3 DEF s
<1> DEFINE z == <<x>> \o s
<1> HIDE DEF z
<1>5. z \in Seq(Nat) /\ Len(z) = TP_TAPS
  BY <1>4 DEF z
<1>6. z \in [1..TP_TAPS -> Nat]
  BY <1>1, <1>5
<1> QED BY <1>6 DEF Shifted, s, z

\* One frame keeps the invariant of the stream.
LEMMA FrameStep ==
  ASSUME IInv, NEW x \in Nat, Frame(x)
  PROVE  /\ ReportsKept' /\ WedgeTight' /\ HistoryKept' /\ AttackCovers'
         /\ StreamTyped' /\ CleanMeans'
<1>1. PICK rg \in Reported(taps') : /\ StepEnv(rg)
                                    /\ reports' = Recent(Append(reports, rg), cap)
                                    /\ clean' = (clean /\ rg = Unity)
  BY DEF Frame
<1>2. rg \in Gain
  BY LimiterAssumption DEF Reported, Gain
<1>3. frame < MaxFrames /\ Pass(x) /\ taps' = Shifted(x)
  BY DEF Frame
<1>4. /\ ReportsKept /\ WedgeTight /\ HistoryKept /\ AttackCovers /\ StreamTyped /\ CleanMeans
      /\ env \in Gain
  BY DEF IInv, StreamTyped
<1>5. ReportsKept' /\ WedgeTight' /\ HistoryKept' /\ AttackCovers'
  BY <1>1, <1>2, <1>3, <1>4, AttackPushed
<1>6. env' \in Gain
  BY <1>1, <1>2, <1>3, <1>4, GainCovered
<1>7. taps' \in [1..TP_TAPS -> Nat]
  BY <1>3, <1>4, ShiftedType DEF StreamTyped
<1>8. /\ delay' \in [Line -> Nat] /\ delay_pos' \in Line
      /\ left' \in [sample : Nat, gain : Gain]
  <2>1. look \in Nat \ {0} /\ delay \in [Line -> Nat] /\ delay_pos \in Line
    BY <1>4, Sizes DEF StreamTyped
  <2>2. delay_pos + 1 \in 0..(2 * look - 1)
    BY <2>1 DEF Line
  <2> DEFINE a == delay_pos + 1
  <2> HIDE DEF a
  <2>3. a % look = IF a < look THEN a ELSE a - look
    BY <2>1, <2>2, Wrapped DEF a
  <2>4. delay_pos' \in Line
    BY <1>3, <2>1, <2>2, <2>3 DEF Pass, Line, a
  <2>5. delay' \in [Line -> Nat]
    BY <1>3, <2>1 DEF Pass
  <2>6. left' \in [sample : Nat, gain : Gain]
    BY <1>3, <1>6, <2>1 DEF Pass
  <2> QED BY <2>4, <2>5, <2>6
<1>9. StreamTyped'
  BY <1>1, <1>4, <1>6, <1>7, <1>8 DEF StreamTyped
<1>10. CleanMeans'
  BY <1>1, <1>2, <1>3, <1>4, CleanStep DEF CleanMeans
<1> QED BY <1>5, <1>9, <1>10

\* The reports since the start are none, and the history is unity.
LEMMA Empty ==
  ASSUME frame = 0, reports = <<>>, wm_hist = [i \in Hist |-> Unity], wm_pos = 0,
         wm_nonunity = 0, env = Unity, wedge_head = 0, wedge_len = 0,
         wedge \in [Ring -> [idx : Nat, val : Gain]]
  PROVE  ReportsKept /\ WedgeTight /\ HistoryKept /\ AttackCovers /\ CleanMeans
<1>1. ReportsKept /\ First = 0
  <2>1. reports \in Seq(Gain) /\ Len(reports) = 0
    OBVIOUS
  <2>2. frame \in 0..MaxFrames /\ frame < cap
    BY Sizes
  <2>3. ReportsKept
    BY <2>1, <2>2 DEF ReportsKept
  <2>4. First = 0
    <3> DEFINE n == Len(reports)
    <3>1. n = 0 /\ frame = 0
      BY <2>1
    <3> HIDE DEF n
    <3>2. frame - n = 0
      BY <3>1
    <3> QED BY <3>2 DEF First, n
  <2> QED BY <2>3, <2>4
<1>2. WedgeTight
  BY <1>1, Sizes DEF WedgeTight, Ring
<1>3. HistoryKept
  <2>1. {i \in Hist : wm_hist[i] # Unity} = {}
    OBVIOUS
  <2>2. Unity \in Gain /\ 0 \in Hist
    BY Sizes DEF Gain, Hist
  <2> QED BY <2>1, <2>2, FS_EmptySet DEF HistoryKept
<1>4. AttackCovers
  BY <1>1, Sizes DEF AttackCovers
<1>5. CleanMeans
  BY DEF CleanMeans
<1> QED BY <1>1, <1>2, <1>3, <1>4, <1>5

\* A limiter just reset satisfies the invariant.
LEMMA EmptyIsKept ==
  /\ frame = 0 /\ reports = <<>> /\ wm_hist = [i \in Hist |-> Unity] /\ wm_pos = 0
  /\ wm_nonunity = 0 /\ env = Unity /\ wedge_head = 0 /\ wedge_len = 0
  /\ wedge \in [Ring -> [idx : Nat, val : Gain]]
  => ReportsKept /\ WedgeTight /\ HistoryKept /\ AttackCovers /\ CleanMeans
  BY Empty

\* The invariant holds initially.
LEMMA InitInv == Init => IInv
<1> SUFFICES ASSUME Init PROVE IInv
  OBVIOUS
<1> USE DEF Init
<1>1. wedge \in [Ring -> [idx : Nat, val : Gain]]
  <2>1. [idx |-> 0, val |-> 0] \in [idx : Nat, val : Gain]
    BY Sizes DEF Gain
  <2> QED BY <2>1
<1>2. ReportsKept /\ WedgeTight /\ HistoryKept /\ AttackCovers /\ CleanMeans
  BY <1>1, Empty
<1>3. StreamTyped
  BY Sizes DEF StreamTyped, Gain, Line
<1>4. CallFits
  BY Sizes DEF CallFits, None
<1> QED BY <1>2, <1>3, <1>4, Sizes DEF IInv

\* What the calls of flush count does not touch the stream.
LEMMA StreamUnchanged ==
  ASSUME IInv, UNCHANGED <<envVars, lineVars>>
  PROVE  /\ ReportsKept' /\ WedgeTight' /\ HistoryKept' /\ AttackCovers'
         /\ StreamTyped' /\ CleanMeans'
<1> USE DEF IInv, envVars, lineVars
<1>1. ReportsKept'
  BY DEF ReportsKept
<1>2. WedgeTight'
  BY DEF WedgeTight, Entry, First, Report
<1>3. HistoryKept'
  BY DEF HistoryKept
<1>4. AttackCovers'
  BY DEF AttackCovers, Behind, First, Report
<1>5. StreamTyped'
  BY DEF StreamTyped
<1>6. CleanMeans'
  BY DEF CleanMeans
<1> QED BY <1>1, <1>2, <1>3, <1>4, <1>5, <1>6

\* Every step keeps the invariant.
LEMMA NextInv ==
  ASSUME IInv, [Next]_vars
  PROVE  IInv'
<1>1. /\ CallFits /\ resets \in 0..MaxResets /\ look \in Nat \ {0} /\ frame \in Nat
      /\ MaxResets \in Nat
  BY Sizes DEF IInv, ReportsKept
<1>2. CASE Render
  <2>1. Frame(frame + 1) /\ call = None /\ flushed' = 0 /\ UNCHANGED <<want, call, resets>>
    BY <1>2 DEF Render
  <2>2. /\ ReportsKept' /\ WedgeTight' /\ HistoryKept' /\ AttackCovers'
        /\ StreamTyped' /\ CleanMeans'
    BY <1>1, <2>1, FrameStep
  <2>3. CallFits'
    BY <1>1, <2>1 DEF CallFits
  <2> QED BY <1>1, <2>1, <2>2, <2>3 DEF IInv
<1>3. ASSUME NEW n \in Offers, Flush(n) PROVE IInv'
  <2>1. /\ call = None /\ want' = Wanted(n) /\ call' = Wanted(n)
        /\ UNCHANGED <<envVars, lineVars>> /\ UNCHANGED <<flushed, resets>>
    BY <1>3 DEF Flush
  <2>2. n \in Nat
    BY LimiterAssumption
  <2>3. Wanted(n) \in 0..look /\ flushed + Wanted(n) <= look
    BY <1>1, <2>2 DEF Wanted, CallFits
  <2>4. CallFits'
    BY <1>1, <2>1, <2>3 DEF CallFits
  <2> QED BY <1>1, <2>1, <2>4, StreamUnchanged DEF IInv
<1>4. CASE FlushFrame
  <2>1. /\ call # None /\ want > 0 /\ Frame(0) /\ want' = want - 1
        /\ UNCHANGED <<flushed, call, resets>>
    BY <1>4 DEF FlushFrame
  <2>2. /\ ReportsKept' /\ WedgeTight' /\ HistoryKept' /\ AttackCovers'
        /\ StreamTyped' /\ CleanMeans'
    BY <2>1, FrameStep
  <2>3. CallFits'
    BY <1>1, <2>1 DEF CallFits, None
  <2> QED BY <1>1, <2>1, <2>2, <2>3 DEF IInv
<1>5. CASE FlushReturn
  <2>1. /\ call # None /\ want = 0 /\ flushed' = flushed + call /\ call' = None
        /\ UNCHANGED <<envVars, lineVars>> /\ UNCHANGED <<want, resets>>
    BY <1>5 DEF FlushReturn
  <2>2. CallFits'
    BY <1>1, <2>1 DEF CallFits, None
  <2> QED BY <1>1, <2>1, <2>2, StreamUnchanged DEF IInv
<1>6. CASE Reset
  <2> USE <1>6 DEF Reset
  <2>1. wedge' \in [Ring -> [idx : Nat, val : Gain]]
    BY DEF IInv, WedgeTight
  <2>2. /\ ReportsKept' /\ WedgeTight' /\ HistoryKept' /\ AttackCovers' /\ CleanMeans'
    <3>1. (/\ frame = 0 /\ reports = <<>> /\ wm_hist = [i \in Hist |-> Unity] /\ wm_pos = 0
           /\ wm_nonunity = 0 /\ env = Unity /\ wedge_head = 0 /\ wedge_len = 0
           /\ wedge \in [Ring -> [idx : Nat, val : Gain]]
           => ReportsKept /\ WedgeTight /\ HistoryKept /\ AttackCovers /\ CleanMeans)'
      BY EmptyIsKept, PTL
    <3> QED BY <2>1, <3>1
  <2>3. StreamTyped'
    BY Sizes DEF StreamTyped, Gain, Line
  <2>4. CallFits'
    BY <1>1 DEF CallFits
  <2>5. resets' \in 0..MaxResets
    BY <1>1
  <2> QED BY <2>2, <2>3, <2>4, <2>5 DEF IInv
<1>7. CASE UNCHANGED vars
  <2>1. UNCHANGED <<envVars, lineVars>> /\ UNCHANGED <<flushed, want, call, resets>>
    BY <1>7 DEF vars
  <2>2. CallFits'
    BY <1>1, <2>1 DEF CallFits
  <2> QED BY <1>1, <2>1, <2>2, StreamUnchanged DEF IInv
<1> QED BY <1>2, <1>3, <1>4, <1>5, <1>6, <1>7 DEF Next

(***************************************************************************)
(* The invariant the theorems below rest on.                               *)
(***************************************************************************)
THEOREM Inductive == Spec => []IInv
  BY InitInv, NextInv, PTL DEF Spec

(***************************************************************************)
(* Every variable keeps its type: the rings' heads and lengths stay in     *)
(* them, and wm_nonunity never drops below zero, however the stream is     *)
(* cut.                                                                    *)
(***************************************************************************)
THEOREM TypeCorrect == Spec => []TypeOK
<1>1. IInv => TypeOK
  <2> SUFFICES ASSUME IInv PROVE TypeOK
    OBVIOUS
  <2>1. wm_nonunity \in 0..attack_len
    <3>1. attack_len \in Nat \ {0}
      BY Sizes
    <3>2. IsFiniteSet(Hist) /\ Cardinality(Hist) = attack_len
      BY <3>1, FS_Interval DEF Hist
    <3> DEFINE S == {i \in Hist : wm_hist[i] # Unity}
    <3>3. IsFiniteSet(S) /\ Cardinality(S) <= Cardinality(Hist)
      BY <3>2, FS_Subset
    <3>4. Cardinality(S) \in Nat
      BY <3>3, FS_CardinalityType
    <3>5. wm_nonunity = Cardinality(S)
      BY DEF IInv, HistoryKept
    <3> HIDE DEF S
    <3> QED BY <3>1, <3>2, <3>3, <3>4, <3>5
  <2> QED BY <2>1 DEF IInv, ReportsKept, WedgeTight, HistoryKept, StreamTyped, CallFits, TypeOK
<1> QED BY <1>1, Inductive, PTL

(***************************************************************************)
(* The front of the wedge is the least report of the last look + 1 frames. *)
(***************************************************************************)
THEOREM SlidingMinimum == Spec => []WedgeMin
<1>1. IInv => WedgeMin
  BY WedgeTightMin DEF IInv
<1> QED BY <1>1, Inductive, PTL

(***************************************************************************)
(* The count the fast path trusts is the number of entries of the history  *)
(* that are not unity.                                                     *)
(***************************************************************************)
THEOREM CountExact == Spec => []NonunityExact
<1>1. IInv => NonunityExact
  BY DEF IInv, HistoryKept, NonunityExact, Quantify
<1> QED BY <1>1, Inductive, PTL

(***************************************************************************)
(* The gain is exactly one until the detector reports something.           *)
(***************************************************************************)
THEOREM TransparentBelow == Spec => []Transparent
<1>1. IInv => Transparent
  BY DEF IInv, CleanMeans, Transparent
<1> QED BY <1>1, Inductive, PTL

-----------------------------------------------------------------------------
(***************************************************************************)
(* flush keeps its contract.  A call is counted when it returns: what it   *)
(* gives fits in what is left of the tail.                                 *)
(***************************************************************************)
LEMMA DrainInit == Init => Contract!Init
  BY Sizes DEF Init, Contract!Init

\* Every step is a step of the contract of flush, or none of its business.
LEMMA DrainStep ==
  ASSUME IInv, [Next]_vars
  PROVE  [Contract!Next]_(Contract!vars)
<1>1. look \in Nat \ {0} /\ CallFits
  BY Sizes DEF IInv
<1>2. CASE Render \/ Reset
  <2>1. flushed' = 0
    BY <1>2 DEF Render, Reset
  <2>2. Contract!Begin
    BY <1>1, <2>1 DEF Contract!Begin
  <2> QED BY <2>2 DEF Contract!Next
<1>3. CASE FlushReturn
  <2>1. flushed' = flushed + call /\ call # None /\ call \in 0..look /\ flushed \in 0..look
        /\ flushed + call <= look
    BY <1>1, <1>3 DEF FlushReturn, CallFits
  <2>2. (~ (flushed >= look) \/ call = 0) /\ ((flushed >= look) => (flushed' >= look))
    BY <1>1, <2>1
  <2>3. ((flushed >= look)') \in BOOLEAN
    OBVIOUS
  <2>4. Contract!Flush(call)
    BY <2>1, <2>2, <2>3 DEF Contract!Flush
  <2> QED BY <2>1, <2>4 DEF Contract!Next
<1>4. CASE (\E n \in Offers : Flush(n)) \/ FlushFrame \/ UNCHANGED vars
  <2>1. flushed' = flushed
    BY <1>4 DEF Flush, FlushFrame, vars
  <2> QED BY <2>1 DEF Contract!vars
<1> QED BY <1>2, <1>3, <1>4 DEF Next

\* flush implements the abstract drain contract: however the calls are cut, exactly the
\* delay line comes out, done is reported with its last frame, and nothing after that.
THEOREM DrainsAsPromised == Spec => DrainKept
<1>1. IInv /\ [Next]_vars => [Contract!Next]_(Contract!vars)
  BY DrainStep
<1> QED BY <1>1, DrainInit, Inductive, PTL DEF Spec, DrainKept, Contract!Spec

-----------------------------------------------------------------------------
(***************************************************************************)
(* The ceiling's promise, step by step.                                    *)
(***************************************************************************)
\* What a sample inside needs is the least report made of it, or unity.
NeededIsLeast ==
  \A f \in Int :
    /\ Needed(f) \in Gain
    /\ \A m \in First..(frame - 1) :
         f <= m /\ m <= f + TP_TAIL_FRAMES => Needed(f) <= Report(m)
    /\ \/ Needed(f) = Unity
       \/ \E m \in First..(frame - 1) :
            f <= m /\ m <= f + TP_TAIL_FRAMES /\ Needed(f) = Report(m)

\* The reports kept in the detector give the gain a sample inside needs.
LEMMA NeededFacts == ReportsKept => NeededIsLeast
<1> SUFFICES ASSUME ReportsKept, NEW f \in Int
             PROVE  /\ Needed(f) \in Gain
                    /\ \A m \in First..(frame - 1) :
                         f <= m /\ m <= f + TP_TAIL_FRAMES => Needed(f) <= Report(m)
                    /\ \/ Needed(f) = Unity
                       \/ \E m \in First..(frame - 1) :
                            f <= m /\ m <= f + TP_TAIL_FRAMES /\ Needed(f) = Report(m)
  BY DEF NeededIsLeast
<1> DEFINE M == {k \in First..(frame - 1) : f <= k /\ k <= f + TP_TAIL_FRAMES}
           S == {Unity} \cup {reports[m - First + 1] : m \in M}
<1>1. Needed(f) = Min(S)
  BY DEF Needed, First
<1>2. \A m \in M : reports[m - First + 1] \in Gain /\ reports[m - First + 1] = Report(m)
  BY InReports DEF ReportsKept, Report
<1>3. S \in SUBSET Gain /\ S # {}
  BY <1>2, Sizes DEF Gain
<1>4. Min(S) \in S /\ \A k \in S : Min(S) <= k
  <2>1. S \in SUBSET Nat
    BY <1>3, Sizes DEF Gain
  <2> QED BY <1>3, <2>1, MinFacts
<1> QED BY <1>1, <1>2, <1>3, <1>4

\* A report lowers what the samples in the detector need, and nothing else.
LEMMA NeededStep ==
  ASSUME ReportsKept, ReportsKept', NEW rg \in Gain, frame < MaxFrames,
         frame' = frame + 1, reports' = Recent(Append(reports, rg), cap),
         NEW f \in Int, frame - look <= f, f <= frame
  PROVE  IF f = frame THEN Needed(f)' = rg
         ELSE Needed(f)' = IF frame <= f + TP_TAIL_FRAMES /\ rg < Needed(f) THEN rg ELSE Needed(f)
<1>1. NeededIsLeast /\ NeededIsLeast'
  <2>1. (ReportsKept => NeededIsLeast)'
    BY NeededFacts, PTL
  <2> QED BY <2>1, NeededFacts
<1>2. /\ First' = IF frame < cap THEN 0 ELSE frame - look
      /\ First = IF frame < cap THEN 0 ELSE frame - cap
      /\ \A m \in First'..frame : Report(m)' = IF m = frame THEN rg ELSE Report(m)
  BY ReportTaken
<1>3. /\ frame \in Nat /\ look \in Nat /\ cap = look + 1 /\ TP_TAIL_FRAMES \in Nat
      /\ Unity \in Nat /\ rg \in Nat /\ rg <= Unity
  BY Sizes DEF ReportsKept, Gain
<1> DEFINE A == Needed(f)
           B == Needed(f)'
<1>4. /\ A \in Gain
      /\ \A m \in First..(frame - 1) : f <= m /\ m <= f + TP_TAIL_FRAMES => A <= Report(m)
      /\ \/ A = Unity
         \/ \E m \in First..(frame - 1) :
              f <= m /\ m <= f + TP_TAIL_FRAMES /\ A = Report(m)
  BY <1>1 DEF NeededIsLeast
<1>5. /\ B \in Gain
      /\ \A m \in First'..frame : f <= m /\ m <= f + TP_TAIL_FRAMES => B <= Report(m)'
      /\ \/ B = Unity
         \/ \E m \in First'..frame : f <= m /\ m <= f + TP_TAIL_FRAMES /\ B = Report(m)'
  <2>1. frame' - 1 = frame
    BY <1>3
  <2> QED BY <1>1, <2>1 DEF NeededIsLeast
<1> HIDE DEF A, B
<1>6. A \in Nat /\ A <= Unity /\ B \in Nat /\ B <= Unity
  BY <1>3, <1>4, <1>5 DEF Gain
<1>7. frame \in First'..frame
  BY <1>2, <1>3
\* Between f and frame, what was kept is kept.
<1>8. \A m \in Int : f <= m /\ m <= frame - 1 => (m \in First..(frame - 1) <=> m \in First'..frame)
  BY <1>2, <1>3
<1>9. \A m \in First..(frame - 1) : f <= m => m \in First'..frame /\ Report(m)' = Report(m)
  BY <1>2, <1>3, <1>8
<1>10. \A m \in First'..frame : f <= m /\ m # frame =>
         m \in First..(frame - 1) /\ Report(m)' = Report(m)
  BY <1>2, <1>3, <1>8
<1>11. CASE f = frame
  <2>1. B <= rg
    BY <1>2, <1>3, <1>5, <1>7, <1>11
  <2>2. B = Unity \/ B = rg
    BY <1>2, <1>3, <1>5, <1>11
  <2>3. B = rg
    BY <1>3, <1>6, <2>1, <2>2
  <2> QED BY <1>11, <2>3 DEF B
<1>12. CASE f # frame
  <2>1. B <= A
    <3>1. CASE A = Unity
      BY <1>6, <3>1
    <3>2. CASE \E m \in First..(frame - 1) : f <= m /\ m <= f + TP_TAIL_FRAMES /\ A = Report(m)
      BY <1>5, <1>9, <3>2
    <3> QED BY <1>4, <3>1, <3>2
  <2>2. frame <= f + TP_TAIL_FRAMES => B <= rg
    BY <1>2, <1>3, <1>5, <1>7
  <2>3. A <= B \/ (frame <= f + TP_TAIL_FRAMES /\ B = rg)
    <3>1. CASE B = Unity
      BY <1>6, <3>1
    <3>2. CASE \E m \in First'..frame : f <= m /\ m <= f + TP_TAIL_FRAMES /\ B = Report(m)'
      <4>1. PICK m \in First'..frame : f <= m /\ m <= f + TP_TAIL_FRAMES /\ B = Report(m)'
        BY <3>2
      <4>2. CASE m = frame
        BY <1>2, <4>1, <4>2
      <4>3. CASE m # frame
        BY <1>4, <1>10, <4>1, <4>3
      <4> QED BY <4>2, <4>3
    <3> QED BY <1>5, <3>1, <3>2
  <2>4. B = IF frame <= f + TP_TAIL_FRAMES /\ rg < A THEN rg ELSE A
    BY <1>3, <1>6, <2>1, <2>2, <2>3
  <2> QED BY <1>12, <2>4 DEF A, B
<1> QED BY <1>11, <1>12

\* The cell of the delay line i cells after p.
Cell(p, i) == IF p + i <= look THEN p + i - 1 ELSE p + i - 1 - look

\* The cells of the delay line, counted from the oldest, and how they move up by one.
LEMMA Cells ==
  ASSUME NEW p \in Line
  PROVE  /\ \A i \in 1..look : (p + i - 1) % look = Cell(p, i) /\ Cell(p, i) \in Line
         /\ (p + 1) % look = (IF p + 1 = look THEN 0 ELSE p + 1) /\ (p + 1) % look \in Line
         /\ Cell(p, 1) = p
         /\ Cell((p + 1) % look, look) = p
         /\ \A i \in 1..(look - 1) :
              Cell((p + 1) % look, i) = Cell(p, i + 1) /\ Cell(p, i + 1) # p
<1>1. look \in Nat \ {0} /\ p \in Int /\ 0 <= p /\ p < look
  BY Sizes DEF Line
<1>2. \A a \in 0..(2 * look - 1) : a % look = IF a < look THEN a ELSE a - look
  BY <1>1, Wrapped
<1>3. ASSUME NEW i \in 1..look PROVE (p + i - 1) % look = Cell(p, i) /\ Cell(p, i) \in Line
  <2> DEFINE a == p + i - 1
  <2>1. a \in 0..(2 * look - 1)
    BY <1>1
  <2>2. Cell(p, i) = IF a < look THEN a ELSE a - look
    BY <1>1 DEF Cell
  <2>3. Cell(p, i) \in Line
    BY <1>1 DEF Cell, Line
  <2> HIDE DEF a
  <2>4. a % look = Cell(p, i)
    BY <1>2, <2>1, <2>2
  <2> QED BY <2>3, <2>4 DEF a
<1>4. (p + 1) % look = (IF p + 1 = look THEN 0 ELSE p + 1)
  <2> DEFINE a == p + 1
  <2>1. a \in 0..(2 * look - 1) /\ (a < look <=> a # look) /\ a <= look /\ a \in Nat
    BY <1>1
  <2> HIDE DEF a
  <2>2. a % look = IF a = look THEN 0 ELSE a
    BY <1>1, <1>2, <2>1
  <2> QED BY <2>2 DEF a
<1> DEFINE q == (p + 1) % look
<1> HIDE DEF q
<1>5. q = IF p + 1 = look THEN 0 ELSE p + 1
  BY <1>4 DEF q
<1>6. q \in Line /\ Cell(p, 1) = p /\ Cell(q, look) = p
  BY <1>1, <1>5 DEF Cell, Line
<1>7. \A i \in 1..(look - 1) : Cell(q, i) = Cell(p, i + 1) /\ Cell(p, i + 1) # p
  BY <1>1, <1>5 DEF Cell
<1> QED BY <1>3, <1>4, <1>6, <1>7 DEF q

\* The samples inside, as the ceiling's promise sees them.
Inside ==
  [i \in 1..look |-> [sample |-> delay[(delay_pos + i - 1) % look],
                      need |-> Needed(frame - look + i - 1)]]

\* A limiter just reset holds no samples.
LEMMA InsideEmpty ==
  /\ delay = [p \in Line |-> 0] /\ delay_pos = 0 /\ frame = 0 /\ reports = <<>>
  => Inside = [i \in 1..look |-> [sample |-> 0, need |-> Unity]]
<1> SUFFICES ASSUME delay = [p \in Line |-> 0], delay_pos = 0, frame = 0, reports = <<>>
             PROVE  Inside = [i \in 1..look |-> [sample |-> 0, need |-> Unity]]
  OBVIOUS
<1>1. 0 \in Line
  BY Sizes DEF Line
<1>2. \A i \in 1..look : delay[(delay_pos + i - 1) % look] = 0
  BY <1>1, Cells
<1>3. ASSUME NEW f \in Int PROVE Needed(f) = Unity
  <2>1. {k \in (frame - Len(reports))..(frame - 1) : f <= k /\ k <= f + TP_TAIL_FRAMES} = {}
    <3> DEFINE n == Len(reports)
    <3>1. n = 0
      OBVIOUS
    <3> HIDE DEF n
    <3>2. (frame - n)..(frame - 1) = {}
      BY <3>1
    <3> QED BY <3>2 DEF n
  <2>2. Needed(f) = Min({Unity} \cup {})
    BY <2>1 DEF Needed
  <2>3. Min({Unity}) = Unity
    <3>1. {Unity} \in SUBSET Nat /\ Unity \in {Unity} /\ \A k \in {Unity} : Unity <= k
      BY Sizes
    <3> QED BY <3>1, MinIs
  <2> QED BY <2>2, <2>3
<1>4. \A i \in 1..look : Needed(frame - look + i - 1) = Unity
  BY <1>3, Sizes
<1> QED BY <1>2, <1>4 DEF Inside

\* A function on 1..n is a sequence.
LEMMA SeqForm ==
  ASSUME NEW S, NEW n \in Nat, NEW s \in [1..n -> S]
  PROVE  s \in Seq(S) /\ Len(s) = n
OBVIOUS

\* A sequence without its first element, as a function.
LEMMA TailForm ==
  ASSUME NEW S, NEW n \in Nat, NEW s \in [1..(n + 1) -> S]
  PROVE  Tail(s) \in [1..n -> S] /\ \A i \in 1..n : Tail(s)[i] = s[i + 1]
<1>1. s \in Seq(S) /\ Len(s) = n + 1
  BY SeqForm
<1>2. Tail(s) \in Seq(S) /\ Len(Tail(s)) = n /\ \A i \in 1..n : Tail(s)[i] = s[i + 1]
  BY <1>1
<1> DEFINE t == Tail(s)
<1>3. t \in Seq(S) /\ Len(t) = n /\ \A i \in 1..n : t[i] = s[i + 1]
  BY <1>2
<1> HIDE DEF t
<1>4. t \in [1..n -> S]
  BY <1>3
<1> QED BY <1>3, <1>4 DEF t

\* A frame takes the oldest sample out, at a gain it can stand.
LEMMA FrameTakes ==
  ASSUME IInv, NEW x \in Nat, Frame(x)
  PROVE  \E r \in 0..Unity : Promise!Take(x, r)
<1>1. PICK rg \in Reported(taps') : StepEnv(rg) /\ reports' = Recent(Append(reports, rg), cap)
  BY DEF Frame
<1>2. /\ rg \in Gain /\ frame < MaxFrames /\ Pass(x) /\ frame' = frame + 1
      /\ ReportsKept /\ WedgeTight /\ HistoryKept /\ AttackCovers /\ StreamTyped /\ env \in Gain
  BY <1>1, LimiterAssumption DEF Reported, Gain, Frame, StepEnv, IInv, StreamTyped
<1>3. ReportsKept'
  BY FrameStep
<1>4. /\ frame \in Nat /\ look \in Nat \ {0} /\ TP_TAIL_FRAMES \in Nat /\ Unity \in Nat /\ rg \in Nat
      /\ rg <= Unity /\ delay_pos \in Line /\ delay \in [Line -> Nat]
  BY <1>2, Sizes DEF ReportsKept, Gain, StreamTyped
<1> DEFINE e == [sample |-> x, need |-> Unity]
           p == Append(Inside, e)
           q == Promise!Lowered(p, rg)
           need(i) == Needed(frame - look + i - 1)
           low(i) == IF i = look + 1 THEN rg
                     ELSE IF i >= look + 1 - TP_TAIL_FRAMES /\ rg < need(i) THEN rg ELSE need(i)
           sample(i) == IF i = look + 1 THEN x ELSE delay[Cell(delay_pos, i)]
<1>5. /\ Inside \in Seq([sample : Nat, need : Gain]) /\ Len(Inside) = look
      /\ \A i \in 1..look : Inside[i] = [sample |-> sample(i), need |-> need(i)]
  <2>1. ASSUME NEW i \in 1..look
        PROVE  /\ delay[(delay_pos + i - 1) % look] = sample(i) /\ sample(i) \in Nat
               /\ need(i) \in Gain
    <3>1. i # look + 1 /\ frame - look + i - 1 \in Int
      BY <1>4
    <3>2. (delay_pos + i - 1) % look = Cell(delay_pos, i) /\ Cell(delay_pos, i) \in Line
      BY <1>4, Cells
    <3>3. need(i) \in Gain
      BY <1>2, <3>1, NeededFacts DEF NeededIsLeast
    <3> QED BY <1>4, <3>1, <3>2, <3>3
  <2>2. \A i \in 1..look : Inside[i] = [sample |-> sample(i), need |-> need(i)]
    BY <2>1 DEF Inside
  <2>3. Inside \in [1..look -> [sample : Nat, need : Gain]]
    BY <2>1 DEF Inside
  <2>4. Inside \in Seq([sample : Nat, need : Gain]) /\ Len(Inside) = look
    <3> DEFINE S == [sample : Nat, need : Gain]
               t == Inside
    <3>1. t \in [1..look -> S] /\ look \in Nat
      BY <1>4, <2>3
    <3> HIDE DEF S, t
    <3>2. t \in Seq(S) /\ Len(t) = look
      BY <3>1, SeqForm
    <3> QED BY <3>2 DEF S, t
  <2> HIDE DEF sample, need
  <2> QED BY <2>2, <2>4
<1>6. /\ p \in Seq([sample : Nat, need : Gain]) /\ Len(p) = look + 1 /\ DOMAIN p = 1..(look + 1)
      /\ p[look + 1] = e /\ \A i \in 1..look : p[i] = [sample |-> sample(i), need |-> need(i)]
  <2>1. e \in [sample : Nat, need : Gain]
    BY <1>4 DEF Gain
  <2> HIDE DEF e, sample, need
  <2> QED BY <1>4, <1>5, <2>1
<1>7. /\ q = [i \in 1..(look + 1) |-> [sample |-> sample(i), need |-> low(i)]]
  <2> SUFFICES ASSUME NEW i \in 1..(look + 1)
               PROVE  (IF i >= Len(p) - TP_TAIL_FRAMES /\ rg < p[i].need
                       THEN [p[i] EXCEPT !.need = rg] ELSE p[i])
                      = [sample |-> sample(i), need |-> low(i)]
    BY <1>6 DEF Promise!Lowered
  <2>1. CASE i = look + 1
    <3>1. p[i] = [sample |-> x, need |-> Unity] /\ sample(i) = x /\ low(i) = rg
      BY <1>6, <2>1
    <3>2. i >= Len(p) - TP_TAIL_FRAMES
      BY <1>4, <1>6, <2>1
    <3> HIDE DEF p, sample, low
    <3> QED BY <1>4, <3>1, <3>2
  <2>2. CASE i # look + 1
    <3>1. /\ p[i] = [sample |-> sample(i), need |-> need(i)]
          /\ low(i) = IF i >= look + 1 - TP_TAIL_FRAMES /\ rg < need(i) THEN rg ELSE need(i)
      BY <1>4, <1>6, <2>2
    <3> DEFINE a == sample(i)
               b == need(i)
    <3>2. [[sample |-> a, need |-> b] EXCEPT !.need = rg] = [sample |-> a, need |-> rg]
      <4> HIDE DEF a, b
      <4> QED OBVIOUS
    <3>3. (i >= look + 1 - TP_TAIL_FRAMES /\ rg < need(i)) <=> (i >= Len(p) - TP_TAIL_FRAMES /\ rg < p[i].need)
      <4> HIDE DEF p, sample, low, need
      <4> QED BY <1>4, <1>6, <3>1
    <3> HIDE DEF p, sample, low, need
    <3> QED BY <3>1, <3>2, <3>3 DEF a, b
  <2> QED BY <2>1, <2>2
\* What the samples need after the report.
<1>8. ASSUME NEW f \in Int, NEW i \in 1..(look + 1), f = frame - look + i - 1
      PROVE  Needed(f)' = low(i)
  <2>1. frame - look <= f /\ f <= frame /\ (f = frame <=> i = look + 1)
        /\ (frame <= f + TP_TAIL_FRAMES <=> i >= look + 1 - TP_TAIL_FRAMES)
    BY <1>4, <1>8
  <2>2. IF f = frame THEN Needed(f)' = rg
        ELSE Needed(f)' = IF frame <= f + TP_TAIL_FRAMES /\ rg < Needed(f) THEN rg ELSE Needed(f)
    BY <1>1, <1>2, <1>3, <2>1, NeededStep
  <2>3. need(i) = Needed(f)
    BY <1>8
  <2> HIDE DEF need
  <2> QED BY <2>1, <2>2, <2>3
<1>9. Inside' = [i \in 1..look |-> [sample |-> sample(i + 1), need |-> low(i + 1)]]
  <2>1. ASSUME NEW i \in 1..look
        PROVE  /\ delay'[(delay_pos' + i - 1) % look] = sample(i + 1)
               /\ Needed(frame - look + i - 1)' = low(i + 1)
    <3>1. delay_pos' = (delay_pos + 1) % look /\ delay' = [delay EXCEPT ![delay_pos] = x]
      BY <1>2 DEF Pass
    <3>2. delay_pos' \in Line /\ (delay_pos' + i - 1) % look = Cell(delay_pos', i)
      <4>1. delay_pos' \in Line
        BY <1>4, <3>1, Cells
      <4> QED BY <4>1, Cells
    <3>3. delay'[Cell(delay_pos', i)] = sample(i + 1)
      <4>1. CASE i = look
        <5>1. Cell(delay_pos', i) = delay_pos
          BY <1>4, <3>1, <4>1, Cells
        <5> QED BY <1>4, <3>1, <4>1, <5>1
      <4>2. CASE i # look
        <5>1. i \in 1..(look - 1) /\ i + 1 \in 1..look /\ i + 1 # look + 1
          BY <1>4, <4>2
        <5>2. /\ Cell(delay_pos', i) = Cell(delay_pos, i + 1) /\ Cell(delay_pos, i + 1) # delay_pos
              /\ Cell(delay_pos, i + 1) \in Line
          BY <1>4, <3>1, <5>1, Cells
        <5> QED BY <1>4, <3>1, <5>1, <5>2
      <4> QED BY <4>1, <4>2
    <3>4. PICK f \in Int : f = frame - look + i
      BY <1>4
    <3>5. frame' - look + i - 1 = f
      BY <1>2, <1>4, <3>4
    <3>6. i + 1 \in 1..(look + 1) /\ f = frame - look + (i + 1) - 1
      BY <1>4, <3>4
    <3>7. Needed(f)' = low(i + 1)
      BY <1>8, <3>4, <3>6
    <3>8. Needed(frame - look + i - 1)' = Needed(f)'
      BY <3>5 DEF Needed
    <3> QED BY <3>2, <3>3, <3>7, <3>8
  <2> HIDE DEF sample, low
  <2> QED BY <2>1 DEF Inside
<1>10. Inside' = Tail(q)
  <2>1. q \in [1..(look + 1) -> {[sample |-> sample(i), need |-> low(i)] : i \in 1..(look + 1)}]
    <3> HIDE DEF sample, low, q
    <3> QED BY <1>7
  <2> DEFINE S == {[sample |-> sample(i), need |-> low(i)] : i \in 1..(look + 1)}
             t == Tail(q)
  <2>2. t \in [1..look -> S] /\ \A i \in 1..look : t[i] = q[i + 1]
    <3>1. q \in [1..(look + 1) -> S] /\ look \in Nat
      BY <1>4, <2>1
    <3> HIDE DEF q, S
    <3> QED BY <3>1, TailForm
  <2> HIDE DEF sample, low, q, S, t
  <2>3. \A i \in 1..look : i + 1 \in 1..(look + 1)
    BY <1>4
  <2>4. \A i \in 1..look : q[i + 1] = [sample |-> sample(i + 1), need |-> low(i + 1)]
    BY <1>7, <2>3
  <2>5. t = [i \in 1..look |-> [sample |-> sample(i + 1), need |-> low(i + 1)]]
    BY <2>2, <2>4
  <2> QED BY <1>9, <2>5 DEF t
<1>11. Head(q) = [sample |-> delay[delay_pos], need |-> low(1)]
  <2>1. 1 \in 1..(look + 1) /\ 1 # look + 1 /\ Cell(delay_pos, 1) = delay_pos
    BY <1>4, Cells
  <2>2. sample(1) = delay[delay_pos]
    BY <2>1
  <2>3. q[1] = [sample |-> sample(1), need |-> low(1)]
    <3> HIDE DEF sample, low, q
    <3> QED BY <1>7, <2>1
  <2>4. Head(q) = q[1]
    BY DEF Head
  <2> HIDE DEF q, low, sample
  <2> QED BY <2>2, <2>3, <2>4
<1>12. env' \in 0..low(1)
  <2>1. /\ env' \in Gain
        /\ \A m \in First'..frame :
             frame - look <= m /\ m <= frame - look + TP_TAIL_FRAMES => env' <= Report(m)'
    BY <1>1, <1>2, GainCovered
  <2>2. PICK f \in Int : f = frame - look
    BY <1>4
  <2>3. Needed(f)' = low(1)
    <3>1. 1 \in 1..(look + 1) /\ f = frame - look + 1 - 1
      BY <1>4, <2>2
    <3> QED BY <1>8, <2>2, <3>1
  <2>4. NeededIsLeast'
    <3>1. (ReportsKept => NeededIsLeast)'
      BY NeededFacts, PTL
    <3> QED BY <1>3, <3>1
  <2>5. /\ Needed(f)' \in Gain
        /\ \/ Needed(f)' = Unity
           \/ \E m \in First'..frame : f <= m /\ m <= f + TP_TAIL_FRAMES /\ Needed(f)' = Report(m)'
    <3>1. frame' - 1 = frame
      BY <1>2, <1>4
    <3> QED BY <2>2, <2>4, <3>1 DEF NeededIsLeast
  <2>6. env' <= Needed(f)'
    <3>1. CASE Needed(f)' = Unity
      BY <1>4, <2>1, <3>1 DEF Gain
    <3>2. CASE Needed(f)' # Unity
      BY <2>1, <2>2, <2>5, <3>2
    <3> QED BY <3>1, <3>2
  <2> HIDE DEF low
  <2> QED BY <1>4, <2>1, <2>3, <2>5, <2>6 DEF Gain
<1>13. left' = [sample |-> delay[delay_pos], gain |-> env']
  BY <1>2 DEF Pass
<1>14. left' \in [sample : {Head(q).sample}, gain : 0..Head(q).need]
  <2> HIDE DEF q, low
  <2> QED BY <1>11, <1>12, <1>13
<1>15. Promise!Take(x, rg)
  <2> HIDE DEF q
  <2>1. q = Promise!Lowered(Append(Inside, [sample |-> x, need |-> Unity]), rg)
    BY DEF q, p, e
  <2> HIDE DEF p, e
  <2> QED BY <1>10, <1>14, <2>1 DEF Promise!Take, Inside
<1> QED BY <1>2, <1>15 DEF Gain

\* The sample a frame puts in is the last of those inside.
LEMMA LastInside ==
  ASSUME IInv, NEW x \in Nat, Frame(x)
  PROVE  Inside'[look].sample = x
<1>1. /\ delay_pos \in Line /\ delay \in [Line -> Nat] /\ look \in Nat \ {0}
  BY Sizes DEF IInv, StreamTyped
<1>2. delay_pos' = (delay_pos + 1) % look /\ delay' = [delay EXCEPT ![delay_pos] = x]
  BY DEF Frame, Pass
<1>3. delay_pos' \in Line /\ Cell(delay_pos', look) = delay_pos
  BY <1>1, <1>2, Cells
<1>4. look \in 1..look
  BY <1>1
<1>5. (delay_pos' + look - 1) % look = delay_pos
  BY <1>3, <1>4, Cells
<1>6. Inside'[look].sample = delay'[(delay_pos' + look - 1) % look]
  BY <1>4 DEF Inside
<1> QED BY <1>1, <1>2, <1>5, <1>6

\* One frame of input is one frame of the ceiling.
LEMMA FramePromised ==
  ASSUME IInv, NEW x \in Nat, Frame(x)
  PROVE  Promise!Next
<1>1. PICK r \in 0..Unity : Promise!Take(x, r)
  BY FrameTakes
<1>2. Inside'[look].sample = x
  BY LastInside
<1>3. Promise!Take(Inside'[look].sample, r)
  BY <1>1, <1>2
<1> QED BY <1>3 DEF Promise!Next, Inside

\* The initial states of the limiter are initial states of the ceiling.
LEMMA CeilingInit == Init => Promise!Init
<1> SUFFICES ASSUME Init PROVE Promise!Init
  OBVIOUS
<1>1. delay = [p \in Line |-> 0] /\ delay_pos = 0 /\ frame = 0 /\ reports = <<>>
      /\ left = [sample |-> 0, gain |-> Unity]
  BY DEF Init
<1>2. Inside = [i \in 1..look |-> [sample |-> 0, need |-> Unity]]
  BY <1>1, InsideEmpty
<1> QED BY <1>1, <1>2 DEF Promise!Init, Promise!Silence, Inside

\* Every step of the limiter is a step of the ceiling or changes none of its variables.
LEMMA CeilingStep ==
  ASSUME IInv, [Next]_vars
  PROVE  [Promise!Next]_(Promise!vars)
<1>1. CASE Render
  <2>1. frame \in Nat /\ frame + 1 \in Nat
    BY DEF IInv, ReportsKept
  <2>2. Frame(frame + 1)
    BY <1>1 DEF Render
  <2> QED BY <2>1, <2>2, FramePromised
<1>2. CASE FlushFrame
  <2>1. Frame(0)
    BY <1>2 DEF FlushFrame
  <2> QED BY <2>1, FramePromised
<1>3. CASE (\E n \in Offers : Flush(n)) \/ FlushReturn \/ UNCHANGED vars
  <2>1. UNCHANGED <<delay, delay_pos, frame, reports, left>>
    BY <1>3 DEF Flush, FlushReturn, vars, envVars, lineVars
  <2>2. Inside' = Inside
    BY <2>1 DEF Inside, Needed
  <2> QED BY <2>1, <2>2 DEF Promise!vars, Inside
<1>4. CASE Reset
  <2>1. /\ delay' = [p \in Line |-> 0] /\ delay_pos' = 0 /\ frame' = 0 /\ reports' = <<>>
        /\ left' = [sample |-> 0, gain |-> Unity]
    BY <1>4 DEF Reset
  <2>2. (/\ delay = [p \in Line |-> 0] /\ delay_pos = 0 /\ frame = 0 /\ reports = <<>>
         => Inside = [i \in 1..look |-> [sample |-> 0, need |-> Unity]])'
    BY InsideEmpty, PTL
  <2>3. Inside' = [i \in 1..look |-> [sample |-> 0, need |-> Unity]]
    BY <2>1, <2>2
  <2> QED BY <2>1, <2>3 DEF Promise!Next, Promise!Restart, Promise!Silence, Inside
<1> QED BY <1>1, <1>2, <1>3, <1>4 DEF Next

(***************************************************************************)
(* The limiter implements the ceiling's promise, for every lookahead and   *)
(* every detector: a sample leaves look frames after it came, in order,    *)
(* and never at a gain above one that was reported while the detector      *)
(* still held it; render, drains and resets alike.                         *)
(***************************************************************************)
THEOREM CeilingKept == Spec => CeilingHeld
<1>1. IInv /\ [Next]_vars => [Promise!Next]_(Promise!vars)
  BY CeilingStep
<1> QED BY <1>1, CeilingInit, Inductive, PTL DEF Spec, CeilingHeld, Promise!Spec

=============================================================================
