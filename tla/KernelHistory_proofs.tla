----------------------- MODULE KernelHistory_proofs ------------------------
(***************************************************************************)
(* What the simple kernels make of all that they have been given, for all  *)
(* values of the constants: every sample a kernel hands out, and its state *)
(* after it, are what its definition makes of the whole history, however   *)
(* the stream was cut into blocks and runs and whatever was prepared,      *)
(* reset and drained in between; and when a drain is over, what is left is *)
(* below the floor.                                                        *)
(*                                                                         *)
(* A history is true to the kernel when it says of its state what the      *)
(* kernel's definition does.  One method for each kind shows that a run of *)
(* any length keeps that, and hands out what is due; blocks and drains are *)
(* made of runs.                                                           *)
(***************************************************************************)
EXTENDS Kernels_proofs

-----------------------------------------------------------------------------
(* The dynamics. *)

\* A frame of the envelope.
EnvelopeFrame(k, heard, st, i) ==
  LET env == Follow(k, st.env, Level(heard, i))
  IN  [env |-> env, envs |-> Append(st.envs, env)]

\* The envelopes a run goes through, A[i] after its i-th frame.
EnvelopeWalks(A, k, heard, n, end) ==
  /\ A \in [0..n -> EnvelopeStates]
  /\ A[0] = [env |-> k.env, envs |-> <<>>]
  /\ \A i \in 1..n : A[i] = EnvelopeFrame(k, heard, A[i - 1], i)
  /\ end = A[n]

\* It goes through its frames in order.
LEMMA EnvelopesWalk ==
  ASSUME NEW k, k.atk \in Nat \ {0}, k.rel \in Nat \ {0}, k.env \in Nat,
         NEW run, NEW n \in Nat, run.len = n, NEW heard, heard = Detector(k, run),
         \A i \in 1..n : Level(heard, i) \in Nat
  PROVE  \E A : EnvelopeWalks(A, k, heard, n, Envelopes(k, run))
  <1> DEFINE T == EnvelopeStates
             xs == [i \in 1..run.len |-> i]
             U == DOMAIN xs
             Step(st, i) == EnvelopeFrame(k, heard, st, i)
             base == [env |-> k.env, envs |-> <<>>]
             G == [z \in (1..n) \X T |-> Step(z[2], xs[z[1]])]
             Rule(F) == F = [t \in SUBSET U |->
                               IF t = {} THEN base
                               ELSE Step(F[t \ {Max(t)}], xs[Max(t)])]
             F == CHOOSE F : Rule(F)
  <1>1. base \in T
    BY DEF EnvelopeStates
  <1>2. ASSUME NEW st \in T, NEW i \in 1..n
        PROVE  Step(st, i) \in T
    <2> DEFINE env == Follow(k, st.env, Level(heard, i))
    <2>1. env \in Nat
      BY FollowTyped DEF EnvelopeStates
    <2>3. Step(st, i) = [env |-> env, envs |-> Append(st.envs, env)]
      BY Zenon DEF EnvelopeFrame
    <2> HIDE DEF env, Step
    <2>2. Append(st.envs, env) \in Seq(Nat)
      BY <2>1 DEF EnvelopeStates
    <2>. QED
      BY <2>1, <2>2, <2>3 DEF EnvelopeStates
  <1>3. Envelopes(k, run) = F[U]
    BY DEF Envelopes, FoldLeft, MapThenFoldSet, EnvelopeFrame
  <1>12. U = 1..n /\ \A i \in 1..n : xs[i] = i
    OBVIOUS
  <1> HIDE DEF T, Step, base, xs, U
  <1>4. Paces(G, n, T)
    BY <1>2, <1>12 DEF Paces
  <1>5. \A i \in 1..n, st \in T : G[<<i, st>>] = Step(st, xs[i])
    OBVIOUS
  <1> HIDE DEF G
  <1>6. PICK H : Recurs(H, G, base, n, T)
    BY <1>1, <1>4, FoldExists
  <1>7. Rule(H)
    <2>1. /\ \A t \in SUBSET (1..n) : t # {} => Max(t) \in 1..n /\ H[t \ {Max(t)}] \in T
          /\ H = [t \in SUBSET (1..n) |-> IF t = {} THEN base ELSE G[<<Max(t), H[t \ {Max(t)}]>>]]
      BY <1>6 DEF Recurs
    <2>2. ASSUME NEW t \in SUBSET U, t # {}
          PROVE  G[<<Max(t), H[t \ {Max(t)}]>>] = Step(H[t \ {Max(t)}], xs[Max(t)])
      BY <1>5, <1>12, <2>1, <2>2
    <2>. QED
      BY <1>12, <2>1, <2>2
  <1>8. Rule(F)
    <2> HIDE DEF Rule
    <2>. QED
      BY <1>7
  <1>9. Steps(F, G, base, n, T)
    <2> HIDE DEF F
    <2>1. F[{}] = base
      BY <1>8
    <2>2. ASSUME NEW t \in SUBSET (1..n), t # {}, F[t \ {Max(t)}] \in T
          PROVE  F[t] = G[<<Max(t), F[t \ {Max(t)}]>>]
      <3>1. F[t] = Step(F[t \ {Max(t)}], xs[Max(t)])
        BY <1>8, <1>12, <2>2
      <3>2. Max(t) \in 1..n
        BY <1>6, <2>2 DEF Recurs
      <3>. QED
        BY <1>5, <2>2, <3>1, <3>2
    <2>. QED
      BY <2>1, <2>2 DEF Steps
  <1> HIDE DEF F
  <1>10. PICK A : Passes(A, F, G, base, n, T)
    BY <1>1, <1>4, <1>9, FoldWalks
  <1>11. ASSUME NEW i \in 1..n
         PROVE  A[i] = EnvelopeFrame(k, heard, A[i - 1], i)
    <2>1. i - 1 \in 0..n
      OBVIOUS
    <2>2. A[i - 1] \in T /\ A[i] = G[<<i, A[i - 1]>>]
      BY <1>10, <2>1 DEF Walks, Passes
    <2>3. A[i] = Step(A[i - 1], xs[i])
      BY <1>5, <2>2
    <2>. QED
      BY <1>12, <2>3 DEF Step
  <1>13. EnvelopeWalks(A, k, heard, n, Envelopes(k, run))
    BY <1>3, <1>10, <1>11, <1>12 DEF EnvelopeWalks, Walks, Passes, base, T
  <1>. QED
    BY <1>13

\* The envelope of any function that follows is the function's.
EnvelopeAt(k, h, n, v) == \A e : Follows(k, h, e, n) => v = e[n]

\* The n envelopes found after the m-th frame are those.
EnvelopesAt(k, h, envs, m, n) ==
  /\ DOMAIN envs = 1..n
  /\ \A i \in 1..n : EnvelopeAt(k, h, m + i, envs[i])

\* A frame gives the next envelope.
LEMMA FollowExact ==
  ASSUME NEW k, NEW h, NEW n \in Nat, NEW env, EnvelopeAt(k, h, n, env),
         NEW v, v = Follow(k, env, Level(HeardBy(k, h), n + 1))
  PROVE  EnvelopeAt(k, h, n + 1, v)
  <1> DEFINE o == n + 1
  <1>1. o \in Nat /\ o - 1 = n /\ o \in 1..o /\ \A i \in 1..n : i \in 1..o
    OBVIOUS
  <1>2. v = Follow(k, env, Level(HeardBy(k, h), o))
    OBVIOUS
  <1> HIDE DEF o
  <1>3. ASSUME NEW e, Follows(k, h, e, o)
        PROVE  v = e[o]
    <2>1. e[0] = 0 /\ \A i \in 1..o : e[i] = Follow(k, e[i - 1], Level(HeardBy(k, h), i))
      BY <1>3, Zenon DEF Follows
    <2>2. Follows(k, h, e, n)
      BY <1>1, <2>1, Zenon DEF Follows
    <2>3. env = e[n]
      BY <2>2, Zenon DEF EnvelopeAt
    <2>4. e[o] = Follow(k, e[o - 1], Level(HeardBy(k, h), o))
      BY <1>1, <2>1, Zenon
    <2>. QED
      BY <1>1, <1>2, <2>3, <2>4
  <1>4. EnvelopeAt(k, h, o, v)
    BY <1>3, Zenon DEF EnvelopeAt
  <1>. QED
    BY <1>4 DEF o

\* A run finds the envelopes of its frames.
LEMMA EnvelopesExact ==
  ASSUME NEW k, NEW h, NEW m \in Nat, NEW n \in Nat, EnvelopeAt(k, h, m, k.env),
         NEW heard, \A i \in 1..n : Level(heard, i) = Level(HeardBy(k, h), m + i),
         NEW A, NEW end, EnvelopeWalks(A, k, heard, n, end)
  PROVE  EnvelopeAt(k, h, m + n, end.env) /\ EnvelopesAt(k, h, end.envs, m, n)
  <1>1. /\ A \in [0..n -> EnvelopeStates] /\ A[0] = [env |-> k.env, envs |-> <<>>]
        /\ \A i \in 1..n : A[i] = EnvelopeFrame(k, heard, A[i - 1], i)
        /\ end = A[n]
    BY DEF EnvelopeWalks
  <1> DEFINE Good(i) == EnvelopeAt(k, h, m + i, A[i].env) /\ EnvelopesAt(k, h, A[i].envs, m, i)
             S == {i \in Nat : i <= n => Good(i)}
  <1>2. 0 \in S
    <2>1. A[0].env = k.env /\ A[0].envs = <<>> /\ m + 0 = m
      BY <1>1
    <2>2. EnvelopesAt(k, h, <<>>, m, 0)
      BY DEF EnvelopesAt
    <2>3. EnvelopeAt(k, h, m + 0, A[0].env)
      BY <2>1
    <2>. QED
      BY <2>1, <2>2, <2>3
  <1>3. ASSUME NEW i \in S
        PROVE  i + 1 \in S
    <2> SUFFICES ASSUME i + 1 <= n
                 PROVE  Good(i + 1)
      OBVIOUS
    <2> DEFINE was == A[i]
               new == A[i + 1]
               o == m + i
               before == was.envs
               env == was.env
               v == Follow(k, env, Level(heard, i + 1))
               after == Append(before, v)
    <2>1. i \in Nat /\ i \in 0..n /\ i + 1 \in 1..n /\ i + 1 - 1 = i /\ Good(i)
      OBVIOUS
    <2>2. new = EnvelopeFrame(k, heard, was, i + 1) /\ was \in EnvelopeStates /\ new \in EnvelopeStates
      BY <1>1, <2>1
    <2>3. o \in Nat /\ m + (i + 1) = o + 1
      BY <2>1
    <2>4. new = [env |-> v, envs |-> after]
      BY <2>2, Zenon DEF EnvelopeFrame
    <2>5. new.env = v /\ new.envs = after
      BY <2>4
    <2>6. v \in Nat /\ before \in Seq(Nat)
      <3> HIDE DEF v, was, after, new
      <3>. QED
        BY <2>2, <2>5 DEF EnvelopeStates
    <2>7. Level(heard, i + 1) = Level(HeardBy(k, h), o + 1)
      <3>1. Level(heard, i + 1) = Level(HeardBy(k, h), m + (i + 1))
        BY <2>1
      <3> HIDE DEF o
      <3>. QED
        BY <2>3, <3>1
    <2>8. EnvelopeAt(k, h, o, env)
      BY <2>1
    <2>9. DOMAIN before = 1..i /\ \A j \in 1..i : EnvelopeAt(k, h, m + j, before[j])
      BY <2>1 DEF EnvelopesAt
    <2>10. v = Follow(k, env, Level(HeardBy(k, h), o + 1))
      BY <2>7
    <2> HIDE DEF was, new, o, before, env, v
    <2>11. EnvelopeAt(k, h, o + 1, v)
      BY <2>3, <2>8, <2>10, FollowExact
    <2>12. /\ DOMAIN after = 1..(i + 1) /\ after[i + 1] = v
           /\ \A j \in 1..i : after[j] = before[j]
      BY <2>1, <2>6, <2>9, Appended
    <2> HIDE DEF after
    <2>13. ASSUME NEW j \in 1..(i + 1)
           PROVE  EnvelopeAt(k, h, m + j, after[j])
      <3>1. CASE j = i + 1
        BY <2>3, <2>11, <2>12, <3>1
      <3>2. CASE j # i + 1
        <4>1. j \in 1..i
          BY <2>1, <3>2
        <4>. QED
          BY <2>9, <2>12, <4>1
      <3>. QED
        BY <3>1, <3>2
    <2>14. EnvelopesAt(k, h, after, m, i + 1)
      BY <2>12, <2>13 DEF EnvelopesAt
    <2>15. EnvelopeAt(k, h, m + (i + 1), v)
      BY <2>3, <2>11
    <2>. QED
      BY <2>5, <2>14, <2>15 DEF new
  <1>4. n \in S
    <2> HIDE DEF Good
    <2>1. S \in SUBSET Nat
      OBVIOUS
    <2> HIDE DEF S
    <2>2. S = Nat
      BY <1>2, <1>3, <2>1, NatInd
    <2>. QED
      BY <2>2
  <1>. QED
    BY <1>1, <1>4

\* A block's run of a dynamics kernel.
LEMMA DynamicsRenderRight ==
  ASSUME NEW k, Formed("dynamics", k), Runnable("dynamics", k), NEW ch \in Nat,
         Shaped("dynamics", k, ch), NEW n \in Nat, NEW m \in Nat, NEW h, NEW run, NEW p,
         Plays("dynamics", k, run, p, h, ch, m, n),
         Right("dynamics", k, h, ch, m), NEW r, r = DynamicsRender(k, run, p)
  PROVE  /\ Right("dynamics", r.kernel, h, ch, m + n)
         /\ Gives("dynamics", k, h, ch, m, n, r.out)
  <1> DEFINE heard == Detector(k, run)
             in == Input(run)
             found == Envelopes(k, run)
             j == r.kernel
             outs == r.out
  <1>1. /\ run.len = n /\ DOMAIN in = 1..ch /\ AllFeed(in, h.x, ch, m, n)
        /\ \A i \in 1..n : h.p[m + i] = p
        /\ \A i \in 1..n : /\ Level(HeardBy(k, h), m + i) \in Nat
                           /\ Level(heard, i) = Level(HeardBy(k, h), m + i)
    <2>1. "dynamics" \notin Generating
      BY DEF Generating
    <2>. QED
      BY <2>1, Zenon DEF Plays
  <1>2. k.atk \in Nat \ {0} /\ k.rel \in Nat \ {0} /\ k.env \in Nat /\ "env" \in DOMAIN k
    BY SMT DEF Runnable, Shaped, Formed
  <1>3. PICK A : EnvelopeWalks(A, k, heard, n, found)
    <2>1. \A i \in 1..n : Level(heard, i) \in Nat
      BY <1>1
    <2>2. heard = Detector(k, run)
      OBVIOUS
    <2> HIDE DEF heard
    <2>. QED
      BY <1>1, <1>2, <2>1, <2>2, EnvelopesWalk
  <1>4. EnvelopeAt(k, h, m, k.env)
    BY Zenon DEF Right, EnvelopeAt
  <1>5. r = [kernel |-> [k EXCEPT !.env = found.env],
             out |-> [c \in DOMAIN in |-> [i \in 1..run.len |->
                        <<FiniteOrZero(in[c][i]), Gain(k.curve, found.envs[i], p)>>]]]
    BY Zenon DEF DynamicsRender
  <1>6. j = [k EXCEPT !.env = found.env]
        /\ outs = [c \in DOMAIN in |-> [i \in 1..run.len |->
                        <<FiniteOrZero(in[c][i]), Gain(k.curve, found.envs[i], p)>>]]
    BY <1>5
  <1>7. EnvelopeAt(k, h, m + n, found.env) /\ EnvelopesAt(k, h, found.envs, m, n)
    <2> HIDE DEF heard, found
    <2>1. \A i \in 1..n : Level(heard, i) = Level(HeardBy(k, h), m + i)
      BY <1>1
    <2>. QED
      BY <1>3, <1>4, <2>1, EnvelopesExact
  <1>8. Holds(k, j)
    BY OthersKeep, Zenon
  <1> HIDE DEF heard, found, in, j, outs
  <1>9. j.env = found.env /\ j.atk = k.atk /\ j.rel = k.rel /\ j.use_sidechain = k.use_sidechain
    <2>1. DOMAIN k = {"curve", "params", "attack_ms", "release_ms", "use_sidechain", "fs", "atk",
                      "rel", "env"}
      BY SMT DEF Formed
    <2>. QED
      BY <1>6, <2>1
  <1>10. \A e : Follows(j, h, e, m + n) <=> Follows(k, h, e, m + n)
    <2>1. HeardBy(j, h) = HeardBy(k, h)
      BY <1>9, Zenon DEF HeardBy
    <2>2. \A e, l : Follow(j, e, l) = Follow(k, e, l)
      BY <1>9, Zenon DEF Follow
    <2>. QED
      BY <2>1, <2>2, Zenon DEF Follows
  <1>11. \A e : Follows(j, h, e, m + n) => j.env = e[m + n]
    BY <1>7, <1>9, <1>10, Zenon DEF EnvelopeAt
  <1>12. Right("dynamics", j, h, ch, m + n)
    BY <1>11 DEF Right, Filters
  <1>13. ASSUME NEW c \in 1..ch
         PROVE  /\ DOMAIN outs[c] = 1..n
                /\ \A i \in 1..n : OkAt("dynamics", k, h, c, m + i, outs[c][i])
    <2>1. outs[c] = [i \in 1..n |-> <<FiniteOrZero(in[c][i]), Gain(k.curve, found.envs[i], p)>>]
      BY <1>1, <1>6
    <2>2. ASSUME NEW i \in 1..n
          PROVE  OkAt("dynamics", k, h, c, m + i, outs[c][i])
      <3>1. outs[c][i] = <<FiniteOrZero(in[c][i]), Gain(k.curve, found.envs[i], p)>>
        BY <2>1
      <3>2. FiniteOrZero(in[c][i]) = At(h.x, c, m + i)
        BY <1>1, Zenon DEF AllFeed, Feeds
      <3>3. \A e : Follows(k, h, e, m + i) => found.envs[i] = e[m + i]
        BY <1>7, Zenon DEF EnvelopesAt, EnvelopeAt
      <3>4. h.p[m + i] = p
        BY <1>1
      <3>5. \A e : Follows(k, h, e, m + i) =>
              outs[c][i] = <<At(h.x, c, m + i), Gain(k.curve, e[m + i], h.p[m + i])>>
        BY <3>1, <3>2, <3>3, <3>4, Zenon
      <3>. QED
        BY <3>5 DEF OkAt, Filters
    <2>. QED
      BY <2>1, <2>2
  <1>14. DOMAIN outs = 1..ch
    BY <1>1, <1>6
  <1>15. Gives("dynamics", k, h, ch, m, n, outs)
    BY <1>13, <1>14, Zenon DEF Gives
  <1>. QED
    BY <1>12, <1>15 DEF j, outs

-----------------------------------------------------------------------------
(* The oscillator. *)

\* The frequencies of the first n frames are numbers.
Tuned(h, n) == \A i \in 1..n : h.p[i][1] \in Nat

\* The phase is a number, and goes on by the next frame's increment.
LEMMA PhaseNext ==
  ASSUME NEW k, k.fs \in Nat \ {0}, NEW h, NEW n \in Nat, Tuned(h, n + 1)
  PROVE  /\ PhaseOf(k, h, n) \in Int
         /\ PhaseOf(k, h, n + 1) = PhaseOf(k, h, n) + Increment(k, h.p[n + 1][1])
  <1> DEFINE o == n + 1
             g == [i \in 1..o |-> Increment(k, h.p[i][1])]
             f == [i \in 1..n |-> Increment(k, h.p[i][1])]
             S == 1..n
             b == [i \in S |-> i]
  <1>1. \A i \in 1..o : g[i] \in Nat
    <2> TAKE i \in 1..o
    <2> DEFINE hz == h.p[i][1]
               dt == Increment(k, hz)
    <2>1. hz \in Nat
      BY DEF Tuned
    <2>2. 0 \in 0..(Cycle - 1)
      BY CycleAssumption
    <2>3. g[i] = dt
      OBVIOUS
    <2> HIDE DEF hz, g
    <2>4. dt \in Nat
      BY <2>1, <2>2, PhaseKept
    <2>. QED
      BY <2>3, <2>4
  <1>2. o \notin S /\ IsFiniteSet(S) /\ S \cup {o} = 1..o
    <2>1. IsFiniteSet(S)
      BY FS_Interval
    <2>2. S \cup {o} = 1..o
      OBVIOUS
    <2>. QED
      BY <2>1, <2>2
  <1>3. g[o] = Increment(k, h.p[o][1]) /\ \A i \in S : f[i] = g[i]
    BY <1>2
  <1>4. PhaseOf(k, h, o) = SumOver(g, 1..o) /\ PhaseOf(k, h, n) = SumOver(f, S)
    BY PhaseSum
  <1> HIDE DEF g, f
  <1>5. Numbers(g, S \cup {o})
    BY <1>1, <1>2 DEF Numbers
  <1>6. SumOver(f, S) = SumOver(g, S)
    <2>1. \A i \in S : f[i] \in Int
      BY <1>1, <1>3
    <2>2. Renames(b, f, g, S)
      BY <1>1, <1>3, <2>1 DEF Renames
    <2>3. {b[x] : x \in S} = S
      OBVIOUS
    <2> HIDE DEF S, b
    <2>4. SumOver(g, {b[x] : x \in S}) = SumOver(f, S)
      BY <1>2, <2>2, SumRenamed
    <2>. QED
      BY <2>3, <2>4
  <1> HIDE DEF S, o
  <1>7. SumOver(g, S) \in Int /\ SumOver(g, S \cup {o}) = SumOver(g, S) + g[o]
    BY <1>2, <1>5, SumAdd
  <1>. QED
    BY <1>2, <1>3, <1>4, <1>6, <1>7 DEF o

\* A remainder is found by any quotient.
LEMMA RemainderOf ==
  ASSUME NEW C \in Nat \ {0}, NEW x \in Int
  PROVE  /\ x \div C \in Int /\ x % C \in 0..(C - 1)
         /\ x = C * (x \div C) + (x % C)
  BY Z3

\* and there is but one.
LEMMA RemainderIs ==
  ASSUME NEW C \in Nat \ {0}, NEW x \in Int, NEW q \in Int, NEW s \in 0..(C - 1), x = C * q + s
  PROVE  x % C = s
  BY Z3

\* One subtraction wraps it.
LEMMA WrapExact ==
  ASSUME NEW a \in Int, NEW d \in Nat, d < Cycle, NEW b, b = a % Cycle
  PROVE  /\ b \in 0..(Cycle - 1)
         /\ WrapPhase(b + d) = (a + d) % Cycle
  <1> DEFINE C == Cycle
             q == a \div C
             e == a + d
             s == b + d
             next == q + 1
  <1>1. C \in Nat \ {0} /\ d < C /\ b = a % C
    BY CycleAssumption
  <1>0. C = Cycle /\ e = a + d /\ s = b + d
    OBVIOUS
  <1> HIDE DEF C, e
  <1>2. q \in Int /\ b \in 0..(C - 1) /\ a = C * q + b
    BY <1>1, RemainderOf
  <1> HIDE DEF q
  <1>3. C * q \in Int /\ C * next = C * q + C /\ next \in Int
    <2>1. C * q \in Int
      BY <1>1, <1>2, ProductTyped
    <2>2. C * (q + 1) = C * q + C
      BY <1>1, <1>2, Z3
    <2>. QED
      BY <1>2, <2>1, <2>2
  <1> HIDE DEF next, s
  <1>6. s \in Int /\ e \in Int
    BY <1>0, <1>1, <1>2
  <1>4. CASE s < C
    <2>1. s \in 0..(C - 1) /\ e = C * q + s
      BY <1>0, <1>1, <1>2, <1>3, <1>4
    <2>2. e % C = s
      BY <1>1, <1>2, <2>1, <1>6, RemainderIs
    <2>3. WrapPhase(s) = s
      BY <1>0, <1>4, <1>1, <1>6 DEF WrapPhase
    <2>. QED
      BY <1>0, <1>2, <2>2, <2>3
  <1>5. CASE ~ (s < C)
    <2> DEFINE w == s - C
    <2>1. w \in 0..(C - 1) /\ e = C * next + w
      BY <1>0, <1>1, <1>2, <1>3, <1>5
    <2>3. WrapPhase(s) = w
      BY <1>0, <1>5, <1>1, <1>6 DEF WrapPhase
    <2> HIDE DEF w
    <2>2. e % C = w
      BY <1>1, <1>3, <2>1, <1>6, RemainderIs
    <2>. QED
      BY <1>0, <1>2, <2>2, <2>3
  <1>. QED
    BY <1>4, <1>5

\* A frame of an oscillator's channel.
PhaseFrame(k, p, st) ==
  [ph |-> WrapPhase(st.ph + Increment(k, p[1])),
   out |-> Append(st.out, <<p[2], Wave(k.waveform, st.ph, Increment(k, p[1]))>>)]

\* The samples it gives.
WaveSamples(k, p) == {<<p[2], Wave(k.waveform, ph, Increment(k, p[1]))>> : ph \in 0..(Cycle - 1)}

PhaseFrames(k, p) == [ph : 0..(Cycle - 1), out : Seq(WaveSamples(k, p))]

\* The phases a run goes through, A[i] after its i-th frame.
PhaseWalks(A, k, p, n, end) ==
  /\ A \in [0..n -> PhaseFrames(k, p)]
  /\ A[0] = [ph |-> k.phase, out |-> <<>>]
  /\ \A i \in 1..n : A[i] = PhaseFrame(k, p, A[i - 1])
  /\ end = A[n]

\* A frame leaves the oscillator in its period.
LEMMA PhaseFrameTyped ==
  ASSUME NEW k, k.fs \in Nat \ {0}, NEW p, p[1] \in Nat, NEW st \in PhaseFrames(k, p)
  PROVE  PhaseFrame(k, p, st) \in PhaseFrames(k, p)
  <1> DEFINE V == WaveSamples(k, p)
             v == <<p[2], Wave(k.waveform, st.ph, Increment(k, p[1]))>>
             ph == WrapPhase(st.ph + Increment(k, p[1]))
  <1>1. st.ph \in 0..(Cycle - 1) /\ st.out \in Seq(V)
    <2> HIDE DEF V
    <2>1. st \in [ph : 0..(Cycle - 1), out : Seq(V)]
      BY DEF PhaseFrames, V
    <2>. QED
      BY <2>1
  <1>2. ph \in 0..(Cycle - 1)
    BY <1>1, PhaseKept
  <1>3. v \in V
    BY <1>1 DEF WaveSamples
  <1>4. PhaseFrame(k, p, st) = [ph |-> ph, out |-> Append(st.out, v)]
    BY Zenon DEF PhaseFrame
  <1>5. PhaseFrames(k, p) = [ph : 0..(Cycle - 1), out : Seq(V)]
    BY Zenon DEF PhaseFrames
  <1> HIDE DEF V, v, ph
  <1>6. Append(st.out, v) \in Seq(V)
    BY <1>1, <1>3
  <1>. QED
    BY <1>2, <1>4, <1>5, <1>6

\* It goes through its frames in order.
LEMMA PhasesWalk ==
  ASSUME NEW k, k.fs \in Nat \ {0}, k.phase \in 0..(Cycle - 1), NEW n \in Nat,
         NEW p, p[1] \in Nat
  PROVE  \E A : PhaseWalks(A, k, p, n, OscillatorChannel(k, n, p))
  <1> DEFINE T == PhaseFrames(k, p)
             xs == [i \in 1..n |-> i]
             U == DOMAIN xs
             Step(st, i) == PhaseFrame(k, p, st)
             base == [ph |-> k.phase, out |-> <<>>]
             G == [z \in (1..n) \X T |-> Step(z[2], xs[z[1]])]
             Rule(F) == F = [t \in SUBSET U |->
                               IF t = {} THEN base
                               ELSE Step(F[t \ {Max(t)}], xs[Max(t)])]
             F == CHOOSE F : Rule(F)
  <1>1. base \in T
    <2> DEFINE V == WaveSamples(k, p)
    <2> HIDE DEF V
    <2>1. base \in [ph : 0..(Cycle - 1), out : Seq(V)]
      OBVIOUS
    <2>. QED
      BY <2>1, Zenon DEF PhaseFrames, V
  <1>2. ASSUME NEW st \in T, NEW i \in 1..n
        PROVE  Step(st, i) \in T
    BY PhaseFrameTyped, Zenon
  <1>3. OscillatorChannel(k, n, p) = F[U]
    BY DEF OscillatorChannel, FoldLeft, MapThenFoldSet, PhaseFrame
  <1>12. U = 1..n /\ \A i \in 1..n : xs[i] = i
    OBVIOUS
  <1> HIDE DEF T, Step, base, xs, U
  <1>4. Paces(G, n, T)
    BY <1>2, <1>12 DEF Paces
  <1>5. \A i \in 1..n, st \in T : G[<<i, st>>] = Step(st, xs[i])
    OBVIOUS
  <1> HIDE DEF G
  <1>6. PICK H : Recurs(H, G, base, n, T)
    BY <1>1, <1>4, FoldExists
  <1>7. Rule(H)
    <2>1. /\ \A t \in SUBSET (1..n) : t # {} => Max(t) \in 1..n /\ H[t \ {Max(t)}] \in T
          /\ H = [t \in SUBSET (1..n) |-> IF t = {} THEN base ELSE G[<<Max(t), H[t \ {Max(t)}]>>]]
      BY <1>6 DEF Recurs
    <2>2. ASSUME NEW t \in SUBSET U, t # {}
          PROVE  G[<<Max(t), H[t \ {Max(t)}]>>] = Step(H[t \ {Max(t)}], xs[Max(t)])
      BY <1>5, <1>12, <2>1, <2>2
    <2>. QED
      BY <1>12, <2>1, <2>2
  <1>8. Rule(F)
    <2> HIDE DEF Rule
    <2>. QED
      BY <1>7
  <1>9. Steps(F, G, base, n, T)
    <2> HIDE DEF F
    <2>1. F[{}] = base
      BY <1>8
    <2>2. ASSUME NEW t \in SUBSET (1..n), t # {}, F[t \ {Max(t)}] \in T
          PROVE  F[t] = G[<<Max(t), F[t \ {Max(t)}]>>]
      <3>1. F[t] = Step(F[t \ {Max(t)}], xs[Max(t)])
        BY <1>8, <1>12, <2>2
      <3>2. Max(t) \in 1..n
        BY <1>6, <2>2 DEF Recurs
      <3>. QED
        BY <1>5, <2>2, <3>1, <3>2
    <2>. QED
      BY <2>1, <2>2 DEF Steps
  <1> HIDE DEF F
  <1>10. PICK A : Passes(A, F, G, base, n, T)
    BY <1>1, <1>4, <1>9, FoldWalks
  <1>11. ASSUME NEW i \in 1..n
         PROVE  A[i] = PhaseFrame(k, p, A[i - 1])
    <2>1. i - 1 \in 0..n
      OBVIOUS
    <2>2. A[i - 1] \in T /\ A[i] = G[<<i, A[i - 1]>>]
      BY <1>10, <2>1 DEF Walks, Passes
    <2>3. A[i] = Step(A[i - 1], xs[i])
      BY <1>5, <2>2
    <2>. QED
      BY <2>3 DEF Step
  <1>13. PhaseWalks(A, k, p, n, OscillatorChannel(k, n, p))
    BY <1>3, <1>10, <1>11, <1>12 DEF PhaseWalks, Walks, Passes, base, T
  <1>. QED
    BY <1>13

\* What an oscillator is to give at frame n.
WaveRight(k, h, n, v) ==
  v = <<h.p[n][2], Wave(k.waveform, PhaseOf(k, h, n - 1) % Cycle, Increment(k, h.p[n][1]))>>

\* The n samples found after the m-th frame are those.
WavesRight(k, h, ws, m, n) ==
  /\ DOMAIN ws = 1..n
  /\ \A i \in 1..n : WaveRight(k, h, m + i, ws[i])

\* The wrapped phase of the first n frames.
PhaseRight(k, h, n, v) == v = PhaseOf(k, h, n) % Cycle

\* A frame moves the phase on.
LEMMA PhaseStepExact ==
  ASSUME NEW k, k.fs \in Nat \ {0}, NEW h, NEW n \in Nat, Tuned(h, n + 1),
         NEW ph, PhaseRight(k, h, n, ph)
  PROVE  PhaseRight(k, h, n + 1, WrapPhase(ph + Increment(k, h.p[n + 1][1])))
  <1> DEFINE o == n + 1
             a == PhaseOf(k, h, n)
             hz == h.p[o][1]
             d == Increment(k, hz)
  <1>1. a \in Int /\ PhaseOf(k, h, o) = a + d
    BY PhaseNext
  <1>2. hz \in Nat
    BY DEF Tuned
  <1>3. ph = a % Cycle
    BY DEF PhaseRight
  <1>4. 0 \in 0..(Cycle - 1)
    BY CycleAssumption
  <1> HIDE DEF o, a, hz
  <1>5. d \in Nat /\ 2 * d <= Cycle
    BY <1>2, <1>4, PhaseKept
  <1> HIDE DEF d
  <1>6. d < Cycle
    BY <1>5, CycleAssumption
  <1>7. WrapPhase(ph + d) = (a + d) % Cycle
    BY <1>1, <1>3, <1>5, <1>6, WrapExact
  <1>8. PhaseRight(k, h, o, WrapPhase(ph + d))
    BY <1>1, <1>7 DEF PhaseRight
  <1>. QED
    BY <1>8 DEF o, d, hz

\* A run finds the waves of its frames.
LEMMA PhasesExact ==
  ASSUME NEW k, k.fs \in Nat \ {0}, NEW h, NEW m \in Nat, NEW n \in Nat,
         PhaseRight(k, h, m, k.phase), NEW p, \A i \in 1..n : h.p[m + i] = p,
         Tuned(h, m + n), NEW A, NEW end, PhaseWalks(A, k, p, n, end)
  PROVE  PhaseRight(k, h, m + n, end.ph) /\ WavesRight(k, h, end.out, m, n)
  <1>1. /\ A \in [0..n -> PhaseFrames(k, p)] /\ A[0] = [ph |-> k.phase, out |-> <<>>]
        /\ \A i \in 1..n : A[i] = PhaseFrame(k, p, A[i - 1])
        /\ end = A[n]
    BY DEF PhaseWalks
  <1> DEFINE Good(i) == PhaseRight(k, h, m + i, A[i].ph) /\ WavesRight(k, h, A[i].out, m, i)
             S == {i \in Nat : i <= n => Good(i)}
  <1>2. 0 \in S
    <2>1. A[0].ph = k.phase /\ A[0].out = <<>> /\ m + 0 = m
      BY <1>1
    <2>2. WavesRight(k, h, <<>>, m, 0)
      BY DEF WavesRight
    <2>3. PhaseRight(k, h, m + 0, A[0].ph)
      BY <2>1
    <2>. QED
      BY <2>1, <2>2, <2>3
  <1>3. ASSUME NEW i \in S
        PROVE  i + 1 \in S
    <2> SUFFICES ASSUME i + 1 <= n
                 PROVE  Good(i + 1)
      OBVIOUS
    <2> DEFINE was == A[i]
               new == A[i + 1]
               o == m + i
               before == was.out
               ph == was.ph
               V == WaveSamples(k, p)
               v == <<p[2], Wave(k.waveform, ph, Increment(k, p[1]))>>
               next == WrapPhase(ph + Increment(k, p[1]))
               after == Append(before, v)
    <2>1. i \in Nat /\ i \in 0..n /\ i + 1 \in 1..n /\ i + 1 - 1 = i /\ Good(i)
      OBVIOUS
    <2>2. new = PhaseFrame(k, p, was) /\ was \in PhaseFrames(k, p)
      BY <1>1, <2>1
    <2>3. o \in Nat /\ m + (i + 1) = o + 1 /\ o + 1 - 1 = o
      BY <2>1
    <2>4. new = [ph |-> next, out |-> after]
      BY <2>2, Zenon DEF PhaseFrame
    <2>5. new.ph = next /\ new.out = after
      BY <2>4
    <2>6. ph \in 0..(Cycle - 1) /\ before \in Seq(V)
      <3> HIDE DEF V
      <3>1. was \in [ph : 0..(Cycle - 1), out : Seq(V)]
        BY <2>2 DEF PhaseFrames, V
      <3> HIDE DEF was
      <3>. QED
        BY <3>1
    <2>7. v \in V
      BY <2>6 DEF WaveSamples
    <2>8. PhaseRight(k, h, o, ph)
      BY <2>1
    <2>9. DOMAIN before = 1..i /\ \A j \in 1..i : WaveRight(k, h, m + j, before[j])
      BY <2>1 DEF WavesRight
    <2>10. h.p[o + 1] = p
      BY <2>1, <2>3
    <2>11. WaveRight(k, h, o + 1, v)
      <3>1. ph = PhaseOf(k, h, o) % Cycle
        BY <2>8 DEF PhaseRight
      <3> DEFINE w == o + 1
      <3>2. w - 1 = o /\ h.p[w] = p
        BY <2>3, <2>10
      <3> HIDE DEF ph, o, w
      <3>3. WaveRight(k, h, w, v)
        BY <3>1, <3>2 DEF WaveRight, v
      <3>. QED
        BY <3>3 DEF w
    <2>12. Tuned(h, o + 1)
      BY <2>1, <2>3 DEF Tuned
    <2> HIDE DEF was, new, o, before, ph, v, V
    <2>13. PhaseRight(k, h, o + 1, next)
      BY <2>3, <2>8, <2>10, <2>12, PhaseStepExact
    <2> HIDE DEF next
    <2>14. /\ DOMAIN after = 1..(i + 1) /\ after[i + 1] = v
           /\ \A j \in 1..i : after[j] = before[j]
      BY <2>1, <2>6, <2>7, <2>9, Appended
    <2> HIDE DEF after
    <2>15. ASSUME NEW j \in 1..(i + 1)
           PROVE  WaveRight(k, h, m + j, after[j])
      <3>1. CASE j = i + 1
        BY <2>3, <2>11, <2>14, <3>1
      <3>2. CASE j # i + 1
        <4>1. j \in 1..i
          BY <2>1, <3>2
        <4>. QED
          BY <2>9, <2>14, <4>1
      <3>. QED
        BY <3>1, <3>2
    <2>16. WavesRight(k, h, after, m, i + 1)
      BY <2>14, <2>15 DEF WavesRight
    <2>17. PhaseRight(k, h, m + (i + 1), next)
      BY <2>3, <2>13
    <2>. QED
      BY <2>5, <2>16, <2>17 DEF new
  <1>4. n \in S
    <2> HIDE DEF Good
    <2>1. S \in SUBSET Nat
      OBVIOUS
    <2> HIDE DEF S
    <2>2. S = Nat
      BY <1>2, <1>3, <2>1, NatInd
    <2>. QED
      BY <2>2
  <1>. QED
    BY <1>1, <1>4

\* A block's run of an oscillator.
LEMMA OscillatorRenderRight ==
  ASSUME NEW k, Formed("oscillator", k), Runnable("oscillator", k), NEW ch \in Nat \ {0},
         Shaped("oscillator", k, ch), NEW n \in Nat \ {0}, NEW m \in Nat, NEW h, NEW run, NEW p,
         Plays("oscillator", k, run, p, h, ch, m, n), Tuned(h, m + n),
         Right("oscillator", k, h, ch, m), NEW r, r = OscillatorRender(k, run, p)
  PROVE  /\ Right("oscillator", r.kernel, h, ch, m + n)
         /\ Gives("oscillator", k, h, ch, m, n, r.out)
  <1> DEFINE end == OscillatorChannel(k, n, p)
             j == r.kernel
             outs == r.out
  <1>1. run.len = n /\ Channels(run) = ch /\ \A i \in 1..n : h.p[m + i] = p
    BY Zenon DEF Plays, Channels
  <1>2. k.fs \in Nat \ {0} /\ k.phase \in 0..(Cycle - 1)
        /\ DOMAIN k = {"waveform", "params", "fs", "phase"}
    BY SMT DEF Runnable, Shaped, Formed
  <1>3. p[1] \in Nat
    <2>1. n \in 1..n /\ m + n \in 1..(m + n)
      OBVIOUS
    <2>. QED
      BY <1>1, <2>1, Zenon DEF Tuned
  <1>4. PICK A : PhaseWalks(A, k, p, n, end)
    BY <1>2, <1>3, PhasesWalk
  <1>5. PhaseRight(k, h, m, k.phase)
    BY Zenon DEF Right, PhaseRight
  <1>6. j = [k EXCEPT !.phase = IF ch = 0 THEN k.phase ELSE end.ph]
        /\ outs = [c \in 1..ch |-> end.out]
    BY <1>1 DEF OscillatorRender
  <1> HIDE DEF end, j, outs
  <1>7. PhaseRight(k, h, m + n, end.ph) /\ WavesRight(k, h, end.out, m, n)
    BY <1>1, <1>2, <1>4, <1>5, PhasesExact
  <1>8. j.phase = end.ph /\ j.fs = k.fs
    BY <1>2, <1>6
  <1>9. PhaseOf(j, h, m + n) = PhaseOf(k, h, m + n)
    <2> DEFINE o == m + n
    <2>1. [i \in 1..o |-> Increment(j, h.p[i][1])] = [i \in 1..o |-> Increment(k, h.p[i][1])]
      <3>1. \A hz : Increment(j, hz) = Increment(k, hz)
        BY <1>8, SMT DEF Increment
      <3>. QED
        BY <3>1
    <2> HIDE DEF o
    <2>2. PhaseOf(j, h, o) = PhaseOf(k, h, o)
      BY <2>1, PhaseSum
    <2>. QED
      BY <2>2 DEF o
  <1>10. Right("oscillator", j, h, ch, m + n)
    BY <1>7, <1>8, <1>9 DEF Right, Filters, PhaseRight
  <1>11. ASSUME NEW c \in 1..ch
         PROVE  /\ DOMAIN outs[c] = 1..n
                /\ \A i \in 1..n : OkAt("oscillator", k, h, c, m + i, outs[c][i])
    <2>1. outs[c] = end.out
      BY <1>6
    <2>2. \A i, v : WaveRight(k, h, i, v) => OkAt("oscillator", k, h, c, i, v)
      BY DEF WaveRight, OkAt, Filters
    <2>. QED
      BY <1>7, <2>1, <2>2, Zenon DEF WavesRight
  <1>12. DOMAIN outs = 1..ch
    BY <1>6
  <1>13. Gives("oscillator", k, h, ch, m, n, outs)
    BY <1>11, <1>12, Zenon DEF Gives
  <1>. QED
    BY <1>10, <1>13 DEF j, outs

-----------------------------------------------------------------------------
(* The random kernels. *)

\* A run draws what its frames take.
LEMMA DrawnRight ==
  ASSUME NEW k, NEW ch \in Nat, "rngs" \in DOMAIN k, DOMAIN k.rngs = 1..ch,
         NEW n \in Nat, NEW m \in Nat, DrawsRight(k, ch, m), NEW j, j = Drawn(k, n)
  PROVE  DrawsRight(j, ch, m + n)
  <1> DEFINE rngs == k.rngs
             next == [c \in DOMAIN rngs |-> [rngs[c] EXCEPT !.draws = @ + n]]
  <1>1. j = [k EXCEPT !.rngs = next]
    BY DEF Drawn
  <1>2. DOMAIN rngs = 1..ch
        /\ \A c \in 1..ch : {"seed", "draws"} \subseteq DOMAIN rngs[c] /\ rngs[c].draws = m
    BY DEF DrawsRight
  <1> HIDE DEF rngs
  <1>3. \A c \in 1..ch : {"seed", "draws"} \subseteq DOMAIN next[c] /\ next[c].draws = m + n
    <2> TAKE c \in 1..ch
    <2>1. next[c] = [rngs[c] EXCEPT !.draws = rngs[c].draws + n]
      BY <1>2
    <2> HIDE DEF next
    <2>. QED
      BY <1>2, <2>1
  <1> HIDE DEF next
  <1>4. j.rngs = next
    BY <1>1
  <1>. QED
    BY <1>3, <1>4 DEF DrawsRight

\* A block's run of noise.
LEMMA NoiseRenderRight ==
  ASSUME NEW k, Formed("noise", k), NEW ch \in Nat, Shaped("noise", k, ch),
         NEW n \in Nat, NEW m \in Nat, NEW h, NEW run, NEW p,
         Plays("noise", k, run, p, h, ch, m, n),
         Right("noise", k, h, ch, m), NEW r, r = NoiseRender(k, run, p)
  PROVE  /\ Right("noise", r.kernel, h, ch, m + n)
         /\ Gives("noise", k, h, ch, m, n, r.out)
  <1> DEFINE j == r.kernel
             outs == r.out
  <1>1. run.len = n /\ \A i \in 1..n : h.p[m + i] = p
    BY Zenon DEF Plays
  <1>2. DOMAIN k = {"params", "seed", "rngs"} /\ DOMAIN k.rngs = 1..ch
        /\ \A c \in 1..ch : k.rngs[c].seed = ChannelSeed(k.seed, c)
    BY SMT DEF Shaped, Formed
  <1>3. DrawsRight(k, ch, m)
    BY Zenon DEF Right
  <1>4. j = Drawn(k, n)
        /\ outs = [c \in 1..ch |-> [i \in 1..n |-> <<p[1], RngDraw(k.rngs[c], i - 1)>>]]
    BY <1>1, <1>2 DEF NoiseRender
  <1> HIDE DEF j, outs
  <1>5. DrawsRight(j, ch, m + n)
    BY <1>2, <1>3, <1>4, DrawnRight
  <1>6. Right("noise", j, h, ch, m + n)
    BY <1>5 DEF Right, Filters
  <1>7. ASSUME NEW c \in 1..ch
        PROVE  /\ DOMAIN outs[c] = 1..n
               /\ \A i \in 1..n : OkAt("noise", k, h, c, m + i, outs[c][i])
    <2>1. outs[c] = [i \in 1..n |-> <<p[1], RngDraw(k.rngs[c], i - 1)>>]
      BY <1>4
    <2>2. ASSUME NEW i \in 1..n
          PROVE  OkAt("noise", k, h, c, m + i, outs[c][i])
      <3> DEFINE o == m + i
      <3>1. outs[c][i] = <<p[1], Draw(k.rngs[c].seed, k.rngs[c].draws + (i - 1))>>
        BY <2>1 DEF RngDraw
      <3>2. k.rngs[c].draws = m /\ m + (i - 1) = o - 1 /\ h.p[o] = p
        BY <1>1, <1>3 DEF DrawsRight
      <3> HIDE DEF o
      <3>3. outs[c][i] = <<h.p[o][1], Draw(ChannelSeed(k.seed, c), o - 1)>>
        BY <1>2, <3>1, <3>2
      <3>4. OkAt("noise", k, h, c, o, outs[c][i])
        BY <3>3 DEF OkAt, Filters
      <3>. QED
        BY <3>4 DEF o
    <2>. QED
      BY <2>1, <2>2
  <1>8. DOMAIN outs = 1..ch
    BY <1>4
  <1>9. Gives("noise", k, h, ch, m, n, outs)
    BY <1>7, <1>8, Zenon DEF Gives
  <1>. QED
    BY <1>6, <1>9 DEF j, outs

\* A block's run of dither.
LEMMA DitherRenderRight ==
  ASSUME NEW k, Formed("dither", k), NEW ch \in Nat, Shaped("dither", k, ch),
         NEW n \in Nat, NEW m \in Nat, NEW h, NEW run, NEW p,
         Plays("dither", k, run, p, h, ch, m, n),
         Right("dither", k, h, ch, m), NEW r, r = DitherRender(k, run)
  PROVE  /\ Right("dither", r.kernel, h, ch, m + n)
         /\ Gives("dither", k, h, ch, m, n, r.out)
  <1> DEFINE j == r.kernel
             outs == r.out
             in == Input(run)
             more == 2 * n
  <1>1. run.len = n /\ AllFeed(in, h.x, ch, m, n)
    <2>1. "dither" \notin Generating
      BY DEF Generating
    <2>. QED
      BY <2>1, Zenon DEF Plays
  <1>2. DOMAIN k = {"bits", "seed", "rngs", "levels"} /\ DOMAIN k.rngs = 1..ch
        /\ \A c \in 1..ch : k.rngs[c].seed = ChannelSeed(k.seed, c)
    BY SMT DEF Shaped, Formed
  <1>3. DrawsRight(k, ch, 2 * m)
    BY Zenon DEF Right
  <1>4. j = Drawn(k, more)
        /\ outs = [c \in 1..ch |-> [i \in 1..n |->
                     Quantized(k.levels, in[c][i], RngDraw(k.rngs[c], 2 * (i - 1)),
                               RngDraw(k.rngs[c], 2 * (i - 1) + 1))]]
    BY <1>1, <1>2 DEF DitherRender
  <1>10. more \in Nat /\ 2 * m \in Nat /\ 2 * m + more = 2 * (m + n)
    OBVIOUS
  <1> HIDE DEF j, outs, in, more
  <1>5. DrawsRight(j, ch, 2 * m + more)
    <2> DEFINE b == 2 * m
    <2>1. b \in Nat /\ DrawsRight(k, ch, b)
      BY <1>3, <1>10
    <2> HIDE DEF b
    <2>2. DrawsRight(j, ch, b + more)
      BY <1>2, <2>1, <1>4, <1>10, DrawnRight
    <2>. QED
      BY <2>2 DEF b
  <1>6. Right("dither", j, h, ch, m + n)
    BY <1>5, <1>10 DEF Right, Filters
  <1>7. ASSUME NEW c \in 1..ch
        PROVE  /\ DOMAIN outs[c] = 1..n
               /\ \A i \in 1..n : OkAt("dither", k, h, c, m + i, outs[c][i])
    <2>1. outs[c] = [i \in 1..n |->
                     Quantized(k.levels, in[c][i], RngDraw(k.rngs[c], 2 * (i - 1)),
                               RngDraw(k.rngs[c], 2 * (i - 1) + 1))]
      BY <1>4
    <2>2. ASSUME NEW i \in 1..n
          PROVE  OkAt("dither", k, h, c, m + i, outs[c][i])
      <3> DEFINE o == m + i
                 seed == ChannelSeed(k.seed, c)
                 x == At(h.x, c, o)
      <3>1. outs[c][i] = Quantized(k.levels, in[c][i],
                                   Draw(k.rngs[c].seed, k.rngs[c].draws + 2 * (i - 1)),
                                   Draw(k.rngs[c].seed, k.rngs[c].draws + (2 * (i - 1) + 1)))
        BY <2>1 DEF RngDraw
      <3>2. k.rngs[c].draws = 2 * m /\ k.rngs[c].seed = seed
        BY <1>2, <1>3 DEF DrawsRight
      <3>3. 2 * m + 2 * (i - 1) = 2 * o - 2 /\ 2 * m + (2 * (i - 1) + 1) = 2 * o - 1
        OBVIOUS
      <3>4. FiniteOrZero(in[c][i]) = x /\ x \in Int
        <4>1. FiniteOrZero(in[c][i]) = At(h.x, c, o) /\ Known(h.x, c, m + n)
          BY <1>1, Zenon DEF AllFeed, Feeds
        <4>2. o \in 1..(m + n)
          OBVIOUS
        <4> HIDE DEF o
        <4>3. At(h.x, c, o) \in Int
          BY <4>1, <4>2 DEF Known
        <4>. QED
          BY <4>1, <4>3
      <3> HIDE DEF o, seed, x
      <3>5. FiniteOrZero(x) = x
        BY <3>4, ParameterAssumption DEF FiniteOrZero, Finite
      <3>6. \A a, b : Quantized(k.levels, in[c][i], a, b) = Quantized(k.levels, x, a, b)
        BY <3>4, <3>5, Zenon DEF Quantized
      <3>7. outs[c][i] = Quantized(k.levels, x, Draw(seed, 2 * o - 2), Draw(seed, 2 * o - 1))
        BY <3>1, <3>2, <3>3, <3>6
      <3>8. OkAt("dither", k, h, c, o, outs[c][i])
        BY <3>7 DEF OkAt, Filters, seed, x
      <3>. QED
        BY <3>8 DEF o
    <2>. QED
      BY <2>1, <2>2
  <1>8. DOMAIN outs = 1..ch
    BY <1>4
  <1>9. Gives("dither", k, h, ch, m, n, outs)
    BY <1>7, <1>8, Zenon DEF Gives
  <1>. QED
    BY <1>6, <1>9 DEF j, outs

-----------------------------------------------------------------------------
(* A run, and a block. *)

\* A run makes of its frames what the history has there.
LEMMA RunRight ==
  ASSUME kind \in KernelKinds, NEW k, Formed(kind, k), Runnable(kind, k), NEW ch \in Nat \ {0},
         Shaped(kind, k, ch), NEW n \in Nat \ {0}, NEW m \in Nat, NEW h, NEW run, NEW p,
         Plays(kind, k, run, p, h, ch, m, n), Steers(kind, k, p),
         kind = "oscillator" => Tuned(h, m + n), NEW slip \in -1..1,
         Right(kind, k, h, ch, m), NEW r, r = KernelRender(k, run, p, slip)
  PROVE  /\ Right(kind, r.kernel, h, ch, m + n)
         /\ Gives(kind, k, h, ch, m, n, r.out)
  <1>0. kind \notin Generating => AllFeed(Input(run), h.x, ch, m, n)
    BY Zenon DEF Plays
  <1>9. \A i \in 1..n : h.p[m + i] = p
    BY Zenon DEF Plays
  <1>10. ch \in Nat /\ n \in Nat
    OBVIOUS
  <1>1. CASE kind = "average"
    <2>1. /\ Formed("average", k) /\ Runnable("average", k) /\ Shaped("average", k, ch)
          /\ Right("average", k, h, ch, m) /\ AllFeed(Input(run), h.x, ch, m, n)
      BY <1>0, <1>1 DEF Generating
    <2>2. r = AverageRender(k, run, slip)
      BY <1>1, Zenon DEF KernelRender
    <2>3. Right("average", r.kernel, h, ch, m + n) /\ Gives("average", k, h, ch, m, n, r.out)
      BY <1>10, <2>1, <2>2, AverageRenderRight
    <2>. QED
      BY <1>1, <2>3
  <1>2. CASE kind \in Filters
    <2>1. AllFeed(Input(run), h.x, ch, m, n)
      BY <1>0, <1>2 DEF Generating, Filters
    <2>2. r = IF kind = "dc_blocker" THEN DcRender(k, run, p) ELSE BiquadRender(k, run, p)
      <3>1. CASE kind = "dc_blocker"
        BY <3>1, Zenon DEF KernelRender
      <3>2. CASE kind = "biquad"
        BY <3>2, "biquad" # "dc_blocker", Zenon DEF KernelRender
      <3>. QED
        BY <1>2, <3>1, <3>2 DEF Filters
    <2>. QED
      BY <1>2, <1>9, <1>10, <2>1, <2>2, FilterRenderRight, Zenon
  <1>3. CASE kind = "dynamics"
    <2>1. /\ Formed("dynamics", k) /\ Runnable("dynamics", k) /\ Shaped("dynamics", k, ch)
          /\ Right("dynamics", k, h, ch, m) /\ Plays("dynamics", k, run, p, h, ch, m, n)
      BY <1>3
    <2>2. r = DynamicsRender(k, run, p)
      BY <1>3, Zenon DEF KernelRender
    <2>3. Right("dynamics", r.kernel, h, ch, m + n) /\ Gives("dynamics", k, h, ch, m, n, r.out)
      BY <1>10, <2>1, <2>2, DynamicsRenderRight
    <2>. QED
      BY <1>3, <2>3
  <1>4. CASE kind = "oscillator"
    <2>1. /\ Formed("oscillator", k) /\ Runnable("oscillator", k) /\ Shaped("oscillator", k, ch)
          /\ Right("oscillator", k, h, ch, m) /\ Plays("oscillator", k, run, p, h, ch, m, n)
          /\ Tuned(h, m + n)
      BY <1>4
    <2>2. r = OscillatorRender(k, run, p)
      BY <1>4, Zenon DEF KernelRender
    <2>3. Right("oscillator", r.kernel, h, ch, m + n) /\ Gives("oscillator", k, h, ch, m, n, r.out)
      BY <2>1, <2>2, OscillatorRenderRight
    <2>. QED
      BY <1>4, <2>3
  <1>5. CASE kind = "noise"
    <2>1. /\ Formed("noise", k) /\ Shaped("noise", k, ch)
          /\ Right("noise", k, h, ch, m) /\ Plays("noise", k, run, p, h, ch, m, n)
      BY <1>5
    <2>2. r = NoiseRender(k, run, p)
      BY <1>5, Zenon DEF KernelRender
    <2>3. Right("noise", r.kernel, h, ch, m + n) /\ Gives("noise", k, h, ch, m, n, r.out)
      BY <1>10, <2>1, <2>2, NoiseRenderRight
    <2>. QED
      BY <1>5, <2>3
  <1>6. CASE kind = "dither"
    <2>1. /\ Formed("dither", k) /\ Shaped("dither", k, ch)
          /\ Right("dither", k, h, ch, m) /\ Plays("dither", k, run, p, h, ch, m, n)
      BY <1>6
    <2>2. r = DitherRender(k, run)
      BY <1>6, Zenon DEF KernelRender
    <2>3. Right("dither", r.kernel, h, ch, m + n) /\ Gives("dither", k, h, ch, m, n, r.out)
      BY <1>10, <2>1, <2>2, DitherRenderRight
    <2>. QED
      BY <1>6, <2>3
  <1>7. CASE kind \in {"gain", "scale", "dc_offset", "custom"}
    BY <1>7 DEF Right, Gives, Claimed, Filters
  <1>. QED
    BY <1>1, <1>2, <1>3, <1>4, <1>5, <1>6, <1>7 DEF KernelKinds, Filters

\* What is right by a kernel is so by one that keeps its measures.
LEMMA GivesHolds ==
  ASSUME NEW kind_, NEW k, NEW j, Formed(kind_, k), Holds(k, j), NEW h, NEW ch, NEW m, NEW n,
         NEW outs
  PROVE  Gives(kind_, j, h, ch, m, n, outs) <=> Gives(kind_, k, h, ch, m, n, outs)
  <1>1. \A c, i, v : OkAt(kind_, j, h, c, i, v) <=> OkAt(kind_, k, h, c, i, v)
    BY OkHolds, Zenon
  <1>. QED
    BY <1>1, Zenon DEF Gives

\* The planes once len frames of them from start on are new.
Patched(old, start, len, new) ==
  [c \in DOMAIN old |->
     [i \in DOMAIN old[c] |-> IF i - start \in 1..len THEN new[c][i - start] ELSE old[c][i]]]

\* ch planes of n frames.
Framed(planes, ch, n) == DOMAIN planes = 1..ch /\ \A c \in 1..ch : DOMAIN planes[c] = 1..n

\* The first n frames of planes are what is to be given of the history after its m-th.
GivesTo(kind_, k, h, ch, m, n, planes) ==
  \A c \in 1..ch, i \in 1..n : OkAt(kind_, k, h, c, m + i, planes[c][i])

\* A run's output follows that of the runs before it.
LEMMA PatchedGives ==
  ASSUME NEW kind_ \in Claimed, NEW k, NEW h, NEW ch, NEW m \in Nat, NEW n \in Nat, NEW old,
         Framed(old, ch, n), NEW start \in Nat, GivesTo(kind_, k, h, ch, m, start, old),
         NEW len \in Nat, start + len <= n, NEW new,
         Gives(kind_, k, h, ch, m + start, len, new),
         NEW planes, planes = Patched(old, start, len, new)
  PROVE  Framed(planes, ch, n) /\ GivesTo(kind_, k, h, ch, m, start + len, planes)
  <1>1. DOMAIN old = 1..ch /\ \A c \in 1..ch : DOMAIN old[c] = 1..n
    BY DEF Framed
  <1>2. DOMAIN planes = 1..ch /\ \A c \in 1..ch : DOMAIN planes[c] = 1..n
    BY <1>1 DEF Patched
  <1>3. ASSUME NEW c \in 1..ch, NEW i \in 1..(start + len)
        PROVE  OkAt(kind_, k, h, c, m + i, planes[c][i])
    <2>1. planes[c][i] = IF i - start \in 1..len THEN new[c][i - start] ELSE old[c][i]
      <3>1. i \in 1..n
        OBVIOUS
      <3>. QED
        BY <1>1, <3>1 DEF Patched
    <2>2. CASE i - start \in 1..len
      <3> DEFINE e == i - start
      <3>1. m + start + e = m + i /\ e \in 1..len
        BY <2>2
      <3>2. \A a \in 1..len : OkAt(kind_, k, h, c, m + start + a, new[c][a])
        BY Zenon DEF Gives
      <3>3. planes[c][i] = new[c][e]
        BY <2>1, <2>2
      <3> HIDE DEF e
      <3>. QED
        BY <3>1, <3>2, <3>3
    <2>3. CASE ~ (i - start \in 1..len)
      <3>1. i \in 1..start
        BY <2>3
      <3>2. OkAt(kind_, k, h, c, m + i, old[c][i])
        BY <3>1, Zenon DEF GivesTo
      <3>. QED
        BY <2>1, <2>3, <3>2
    <2>. QED
      BY <2>2, <2>3
  <1>. QED
    BY <1>2, <1>3 DEF Framed, GivesTo

\* b is what a run that gave r makes of a block.
Writes(b, r, ctx, start, len) ==
  /\ b.kernel = r.kernel
  /\ b.ctx = [ctx EXCEPT !.main = Written(Run(ctx, start, len), r.out)]
  /\ b.ctx.main.planes = Patched(ctx.main.planes, start, len, r.out)

\* What a run writes, it writes into the block.
LEMMA RunWrites ==
  ASSUME NEW k, NEW ctx, {"main"} \subseteq DOMAIN ctx, {"planes"} \subseteq DOMAIN ctx.main,
         NEW start, NEW len, NEW p, NEW slip,
         NEW r, r = KernelRender(k, Run(ctx, start, len), p, slip),
         NEW b, b = RenderRun(k, ctx, start, len, p, slip)
  PROVE  Writes(b, r, ctx, start, len)
  <1> DEFINE run == Run(ctx, start, len)
             io == Written(run, r.out)
  <1>1. b = [kernel |-> r.kernel, ctx |-> [ctx EXCEPT !.main = io]]
    BY Zenon DEF RenderRun
  <1>2. run.io = ctx.main /\ run.start = start /\ run.len = len
    BY DEF Run
  <1> HIDE DEF run
  <1>3. io.planes = Patched(ctx.main.planes, start, len, r.out)
    BY <1>2 DEF Written, Patched
  <1> HIDE DEF io
  <1>4. b.kernel = r.kernel /\ b.ctx = [ctx EXCEPT !.main = io] /\ b.ctx.main = io
    BY <1>1
  <1>. QED
    BY <1>3, <1>4 DEF io, run, Writes

\* Steering is a matter of what a kernel keeps.
LEMMA SteersHolds ==
  ASSUME NEW kind_, NEW k, Formed(kind_, k), NEW j, Holds(k, j), NEW p, Steers(kind_, k, p)
  PROVE  Steers(kind_, j, p)
  <1>1. CASE kind_ \in Filters
    <2>1. FilterOf(kind_, j, p) = FilterOf(kind_, k, p)
      BY <1>1, AnswersHold
    <2>. QED
      BY <2>1, Zenon DEF Steers
  <1>2. CASE kind_ \notin Filters
    BY <1>2, Zenon DEF Steers
  <1>. QED
    BY <1>1, <1>2

\* A block, in one run or two, makes of its frames what the history has there.
LEMMA BlockRight ==
  ASSUME kind \in KernelKinds, Formed(kind, kernel), Runnable(kind, kernel),
         NEW ch \in Nat \ {0}, Shaped(kind, kernel, ch), NEW n \in Nat \ {0}, NEW ctx,
         ctx.frames = n, Hears(kernel, ctx, ch, n, 1), NEW cut \in 1..n, NEW p, NEW q,
         NEW h, NEW m \in Nat, Offers(kind, kernel, ctx, h, ch, m, n, 1),
         Chronicle(kind, kernel, h, ch, m + n),
         \A i \in 1..n : h.p[m + i] = IF i <= cut THEN p ELSE q,
         Steers(kind, kernel, p), Steers(kind, kernel, q),
         kind = "oscillator" => Tuned(h, m + n), NEW slip \in -1..1,
         Right(kind, kernel, h, ch, m),
         NEW b, b = RenderBlock(ctx, cut, p, q, slip)
  PROVE  /\ Right(kind, b.kernel, h, ch, m + n)
         /\ Gives(kind, kernel, h, ch, m, n, b.ctx.main.planes)
  <1> DEFINE zero == 0
             one == 1
             r == KernelRender(kernel, Run(ctx, zero, cut), p, slip)
             first == RenderRun(kernel, ctx, zero, cut, p, slip)
             k == first.kernel
             block == first.ctx
             left == n - cut
             s == KernelRender(k, Run(block, cut, left), q, slip)
             rest == RenderRun(k, block, cut, left, q, slip)
             at == m + cut
             t == m + n
             planes == block.main.planes
  <1>1. /\ cut \in Nat \ {0} /\ left \in Nat /\ cut + left = n /\ at \in Nat /\ at + left = t
        /\ zero \in Nat /\ zero + cut = cut /\ m + zero = m /\ one <= zero + 1 /\ one \in Nat
        /\ t \in Nat /\ cut <= n /\ ch \in Nat /\ n \in Nat
    OBVIOUS
  <1>2. slip \in Int
    OBVIOUS
  <1>3. {"main"} \subseteq DOMAIN ctx /\ {"planes"} \subseteq DOMAIN ctx.main
        /\ DOMAIN ctx.main.planes = 1..ch /\ \A c \in 1..ch : DOMAIN ctx.main.planes[c] = 1..n
    BY DEF Offers
  <1>30. Chronicle(kind, kernel, h, ch, t) /\ Offers(kind, kernel, ctx, h, ch, m, n, one)
         /\ Hears(kernel, ctx, ch, n, one)
    OBVIOUS
  <1>31. kind = "oscillator" => Tuned(h, t) /\ Tuned(h, at)
    BY <1>1 DEF Tuned
  <1>4. RenderBlock(ctx, cut, p, q, slip) = IF cut = n THEN first ELSE rest
    BY Zenon DEF RenderBlock
  <1> HIDE DEF zero, one
  <1>5. Shaped(kind, k, ch) /\ Holds(kernel, k) /\ k = r.kernel
    <2>1. Heeds(kind, kernel, Run(ctx, zero, cut), p, ch, cut)
      <3>1. kind = "oscillator" => p[1] \in Nat
        BY DEF Steers
      <3>. QED
        BY <1>1, <1>30, <3>1, RunHeeds
    <2>2. k = KernelRender(kernel, Run(ctx, zero, cut), p, slip).kernel
      BY Zenon DEF RenderRun
    <2> HIDE DEF k
    <2>. QED
      BY <1>1, <1>2, <2>1, <2>2, RenderShaped, RenderKeeps
  <1>6. Runnable(kind, k) /\ Formed(kind, k)
        /\ (kind = "dynamics" => k.use_sidechain = kernel.use_sidechain)
    <2> HIDE DEF k
    <2>. QED
      BY <1>5, HoldsRunnable
  <1>7. /\ block = [ctx EXCEPT !.main = Written(Run(ctx, zero, cut), r.out)]
        /\ planes = Patched(ctx.main.planes, zero, cut, r.out)
    <2> HIDE DEF r
    <2>1. r = KernelRender(kernel, Run(ctx, zero, cut), p, slip)
      BY DEF r
    <2>2. first = RenderRun(kernel, ctx, zero, cut, p, slip)
      OBVIOUS
    <2> HIDE DEF first
    <2>3. Writes(first, r, ctx, zero, cut)
      BY <1>3, <2>1, <2>2, RunWrites
    <2>. QED
      BY <2>3 DEF Writes, first
  <1>8. Plays(kind, kernel, Run(ctx, zero, cut), p, h, ch, m, cut)
    <2>1. \A i \in 1..cut : h.p[(m + zero) + i] = p
      BY <1>1
    <2>2. Plays(kind, kernel, Run(ctx, zero, cut), p, h, ch, m + zero, cut)
      <3>1. m + n <= t /\ zero + cut <= n /\ one <= zero + 1 /\ ch \in Nat /\ n \in Nat
        BY <1>1
      <3> HIDE DEF t
      <3>. QED
        BY <1>1, <1>30, <2>1, <3>1, RunPlays, Zenon
    <2>. QED
      BY <1>1, <2>2
  <1> HIDE DEF r
  <1>9. Right(kind, r.kernel, h, ch, at) /\ Gives(kind, kernel, h, ch, m, cut, r.out)
    <2>1. r = KernelRender(kernel, Run(ctx, zero, cut), p, slip)
      BY DEF r
    <2>2. kind = "oscillator" => Tuned(h, m + cut)
      BY <1>31
    <2>. QED
      BY <1>1, <1>8, <2>1, <2>2, RunRight
  <1>10. kind \in Claimed => Framed(planes, ch, n) /\ GivesTo(kind, kernel, h, ch, m, cut, planes)
    <2>1. SUFFICES ASSUME kind \in Claimed
                   PROVE  Framed(planes, ch, n) /\ GivesTo(kind, kernel, h, ch, m, cut, planes)
      OBVIOUS
    <2> DEFINE old == ctx.main.planes
    <2>2. Framed(old, ch, n) /\ GivesTo(kind, kernel, h, ch, m, zero, old)
      BY <1>3 DEF Framed, GivesTo, zero
    <2>3. planes = Patched(old, zero, cut, r.out) /\ Gives(kind, kernel, h, ch, m + zero, cut, r.out)
          /\ zero + cut <= n
      BY <1>1, <1>7, <1>9
    <2> HIDE DEF old, planes
    <2>4. Framed(planes, ch, n) /\ GivesTo(kind, kernel, h, ch, m, zero + cut, planes)
      BY <1>1, <2>1, <2>2, <2>3, PatchedGives
    <2>. QED
      BY <1>1, <2>4
  <1>11. CASE cut = n
    <2>1. b = first
      BY <1>4, <1>11
    <2>2. b.kernel = r.kernel /\ b.ctx.main.planes = planes
      BY <1>5, <2>1
    <2>3. Gives(kind, kernel, h, ch, m, n, planes)
      BY <1>10, <1>11, Zenon DEF Gives, Framed, GivesTo
    <2>. QED
      BY <1>9, <1>11, <2>2, <2>3
  <1>12. CASE cut # n
    <2>0. left \in Nat \ {0}
      BY <1>1, <1>12
    <2>1. Offers(kind, k, block, h, ch, m, n, cut + 1)
      <3> DEFINE out_ == r.out
      <3>1. block = [ctx EXCEPT !.main = Written(Run(ctx, 0, cut), out_)]
        BY <1>7 DEF zero
      <3>2. Offers(kind, kernel, ctx, h, ch, m, n, 1)
        OBVIOUS
      <3> HIDE DEF out_, block, k
      <3>. QED
        BY <1>1, <1>6, <3>1, <3>2, NextOffers
    <2> HIDE DEF k, block
    <2>2. Chronicle(kind, k, h, ch, t)
      BY <1>6, <1>30, Zenon DEF Chronicle
    <2>3. Plays(kind, k, Run(block, cut, left), q, h, ch, at, left)
      <3>1. \A i \in 1..left : h.p[(m + cut) + i] = q
        <4> TAKE i \in 1..left
        <4>1. cut + i \in 1..n /\ ~ (cut + i <= cut) /\ m + (cut + i) = (m + cut) + i
          BY <1>1
        <4>. QED
          BY <4>1
      <3>2. cut \in Nat /\ cut + 1 \in Nat /\ cut + 1 <= cut + 1 /\ cut + left <= n /\ m + n <= t
        BY <1>1
      <3> HIDE DEF left, t
      <3>. QED
        BY <1>1, <2>1, <2>2, <3>1, <3>2, RunPlays
    <2>4. Steers(kind, k, q)
      BY <1>5, SteersHolds
    <2>5. Right(kind, k, h, ch, at)
      BY <1>5, <1>9
    <2>6. s = KernelRender(k, Run(block, cut, left), q, slip)
      OBVIOUS
    <2> HIDE DEF s
    <2>7. Right(kind, s.kernel, h, ch, at + left) /\ Gives(kind, k, h, ch, at, left, s.out)
      <3>1. kind = "oscillator" => Tuned(h, at + left)
        BY <1>1, <1>31
      <3> HIDE DEF at, left
      <3>. QED
        BY <1>1, <1>5, <1>6, <2>0, <2>3, <2>4, <2>5, <2>6, <3>1, RunRight
    <2>8. Gives(kind, kernel, h, ch, at, left, s.out)
      BY <1>5, <2>7, GivesHolds
    <2>9. {"main"} \subseteq DOMAIN block /\ {"planes"} \subseteq DOMAIN block.main
      BY <2>1 DEF Offers
    <2>10. rest.kernel = s.kernel /\ rest.ctx.main.planes = Patched(planes, cut, left, s.out)
      <3>1. rest = RenderRun(k, block, cut, left, q, slip)
        OBVIOUS
      <3> HIDE DEF rest, left
      <3>2. Writes(rest, s, block, cut, left)
        BY <2>6, <2>9, <3>1, RunWrites
      <3>. QED
        BY <3>2 DEF Writes
    <2>11. b = rest
      BY <1>4, <1>12
    <2> DEFINE end == rest.ctx.main.planes
    <2>12. kind \in Claimed => Framed(end, ch, n) /\ GivesTo(kind, kernel, h, ch, m, n, end)
      <3>1. SUFFICES ASSUME kind \in Claimed
                     PROVE  Framed(end, ch, n) /\ GivesTo(kind, kernel, h, ch, m, n, end)
        OBVIOUS
      <3>2. /\ Framed(planes, ch, n) /\ GivesTo(kind, kernel, h, ch, m, cut, planes)
            /\ end = Patched(planes, cut, left, s.out)
            /\ Gives(kind, kernel, h, ch, m + cut, left, s.out)
        BY <1>10, <2>8, <2>10, <3>1
      <3>4. cut + left <= n /\ cut \in Nat
        BY <1>1
      <3> HIDE DEF end, planes, left
      <3>3. Framed(end, ch, n) /\ GivesTo(kind, kernel, h, ch, m, cut + left, end)
        BY <1>1, <3>1, <3>2, <3>4, PatchedGives
      <3>. QED
        BY <1>1, <3>3
    <2>13. Gives(kind, kernel, h, ch, m, n, end)
      <3> HIDE DEF end
      <3>. QED
        BY <2>12, Zenon DEF Gives, Framed, GivesTo
    <2>14. Right(kind, b.kernel, h, ch, t)
      <3> HIDE DEF rest, at, left, t
      <3>. QED
        BY <1>1, <2>7, <2>10, <2>11
    <2>15. b.ctx.main.planes = end
      BY <2>11
    <2>. QED
      BY <2>13, <2>14, <2>15
  <1>. QED
    BY <1>11, <1>12

-----------------------------------------------------------------------------
(* A drain. *)

\* What a filter's drain goes on with.
FlushOf(kind_, k) == IF kind_ = "dc_blocker" THEN k.flush_r ELSE k.flush_coeffs

\* f is a run on silence, or nothing.
FilterDrains(kind_, k, f) ==
  LET done == FilterRun(kind_, k.state, Silence(Len(k.state), f.frames), FlushOf(kind_, k))
  IN  /\ FlushOf(kind_, f.kernel) = FlushOf(kind_, k)
      /\ \/ f.frames = 0 /\ f.kernel.state = k.state /\ f.out = Silence(Len(k.state), 0)
         \/ f.kernel.state = done.state /\ f.out = done.out

\* A drain's end is a matter of its count.
LEMMA SettleKeeps ==
  ASSUME NEW k
  PROVE  \A f \in DOMAIN k \ {"flushed"} : Settle(k)[f] = k[f]
  BY DEF Settle

\* A filter's drain is one of the two.
LEMMA FilterDrainIs ==
  ASSUME NEW kind_ \in Filters, NEW k, Formed(kind_, k), NEW room,
         NEW f, f = IF kind_ = "dc_blocker" THEN DcFlush(k, room) ELSE BiquadFlush(k, room)
  PROVE  FilterDrains(kind_, k, f)
  <1> DEFINE want == Min({room, k.tail_bound - k.flushed})
             planes == Silence(Len(k.state), want)
             g == FlushOf(kind_, k)
             done == FilterRun(kind_, k.state, planes, g)
             z == done.state
             w == k.flushed + want
             drained == [k EXCEPT !.state = z, !.flushed = w]
  <1>1. {"state", "flushed"} \subseteq DOMAIN k
        /\ (kind_ = "dc_blocker" => "flush_r" \in DOMAIN k)
        /\ (kind_ = "biquad" => "flush_coeffs" \in DOMAIN k)
    BY SMT DEF Formed, Filters
  <1>2. f = IF TailDone(k)
            THEN [kernel |-> Settle(k), out |-> Silence(Len(k.state), 0), frames |-> 0,
                  done |-> TRUE]
            ELSE [kernel |-> Settle(drained), out |-> done.out, frames |-> want,
                  done |-> TailDone(drained)]
    <2>1. CASE kind_ = "dc_blocker"
      <3> DEFINE r == k.flush_r
      <3>1. FilterRun(kind_, k.state, planes, r)
              = RunStates(k.state, planes, LAMBDA s, x : DcStep(s, x, r))
        BY <2>1, Zenon DEF FilterRun
      <3>2. f = DcFlush(k, room)
        BY <2>1
      <3>3. g = r
        BY <2>1 DEF FlushOf
      <3>4. done = FilterRun(kind_, k.state, planes, r)
        <4> HIDE DEF g, r
        <4>. QED
          BY <3>3
      <3> DEFINE run == FilterRun(kind_, k.state, planes, r)
                 after == [k EXCEPT !.state = run.state, !.flushed = k.flushed + want]
      <3>5. f = IF TailDone(k)
                THEN [kernel |-> Settle(k), out |-> Silence(Len(k.state), 0), frames |-> 0,
                      done |-> TRUE]
                ELSE [kernel |-> Settle(after), out |-> run.out, frames |-> want,
                      done |-> TailDone(after)]
        BY <3>1, <3>2, Zenon DEF DcFlush, FlushStates
      <3> HIDE DEF done, run
      <3>6. done = run
        BY <3>4 DEF run
      <3>. QED
        BY <3>5, <3>6
    <2>2. CASE kind_ = "biquad"
      <3> DEFINE r == k.flush_coeffs
      <3>0. "biquad" # "dc_blocker"
        OBVIOUS
      <3>1. FilterRun(kind_, k.state, planes, r)
              = RunStates(k.state, planes, LAMBDA s, x : BiquadStep(s, x, r))
        BY <2>2, <3>0, Zenon DEF FilterRun
      <3>2. f = BiquadFlush(k, room)
        BY <2>2
      <3>3. g = r
        BY <2>2 DEF FlushOf
      <3>4. done = FilterRun(kind_, k.state, planes, r)
        <4> HIDE DEF g, r
        <4>. QED
          BY <3>3
      <3> DEFINE run == FilterRun(kind_, k.state, planes, r)
                 after == [k EXCEPT !.state = run.state, !.flushed = k.flushed + want]
      <3>5. f = IF TailDone(k)
                THEN [kernel |-> Settle(k), out |-> Silence(Len(k.state), 0), frames |-> 0,
                      done |-> TRUE]
                ELSE [kernel |-> Settle(after), out |-> run.out, frames |-> want,
                      done |-> TailDone(after)]
        BY <3>1, <3>2, Zenon DEF BiquadFlush, FlushStates
      <3> HIDE DEF done, run
      <3>6. done = run
        BY <3>4 DEF run
      <3>. QED
        BY <3>5, <3>6
    <2>. QED
      BY <2>1, <2>2 DEF Filters
  <1> HIDE DEF g
  <1>3. CASE TailDone(k)
    <2>1. f.kernel = Settle(k) /\ f.frames = 0 /\ f.out = Silence(Len(k.state), 0)
      BY <1>2, <1>3
    <2>2. f.kernel.state = k.state /\ FlushOf(kind_, f.kernel) = FlushOf(kind_, k)
      BY <1>1, <2>1, SettleKeeps DEF FlushOf, Filters
    <2>. QED
      BY <2>1, <2>2 DEF FilterDrains
  <1>4. CASE ~ TailDone(k)
    <2> HIDE DEF done
    <2>1. f.kernel = Settle(drained) /\ f.frames = want /\ f.out = done.out
      BY <1>2, <1>4
    <2> HIDE DEF z, w
    <2>2. DOMAIN drained = DOMAIN k /\ drained.state = z
          /\ \A a \in DOMAIN k : a \notin {"state", "flushed"} => drained[a] = k[a]
      BY <1>1
    <2> HIDE DEF drained
    <2>3. f.kernel.state = z
      BY <1>1, <2>1, <2>2, SettleKeeps
    <2>4. FlushOf(kind_, f.kernel) = FlushOf(kind_, k)
      BY <1>1, <2>1, <2>2, SettleKeeps DEF FlushOf, Filters
    <2> HIDE DEF want
    <2>5. done = FilterRun(kind_, k.state, Silence(Len(k.state), f.frames), FlushOf(kind_, k))
      BY <2>1 DEF done, g
    <2>. QED
      BY <2>1, <2>3, <2>4, <2>5, Zenon DEF FilterDrains, z
  <1>. QED
    BY <1>3, <1>4

\* What a filter's drain goes on with is what was last run with: right before it and after it.
LEMMA FlushStays ==
  ASSUME NEW kind_ \in Filters, NEW k, NEW h, NEW ch, NEW m \in Nat, NEW n \in Nat,
         StatesRight(kind_, k, h, ch, m), FilteredBy(kind_, k, h, FlushOf(kind_, k), m, n)
  PROVE  /\ kind_ = "dc_blocker" =>
              k.flush_r = Pole(IF m + n = 0 THEN FiniteOrZero(k.params[1].default)
                               ELSE h.p[m + n][1], k.fs)
         /\ kind_ = "biquad" => k.flush_coeffs = RuntimeCoeffs(k, ParamsAt(k, h, m + n))
  <1>1. /\ kind_ = "dc_blocker" =>
             k.flush_r = Pole(IF m = 0 THEN FiniteOrZero(k.params[1].default) ELSE h.p[m][1], k.fs)
        /\ kind_ = "biquad" => k.flush_coeffs = RuntimeCoeffs(k, ParamsAt(k, h, m))
    BY Zenon DEF StatesRight
  <1>2. CASE n = 0
    <2>1. m + n = m
      BY <1>2
    <2> DEFINE o == m + n
    <2>2. o = m
      BY <2>1
    <2> HIDE DEF o
    <2>3. /\ kind_ = "dc_blocker" =>
               k.flush_r = Pole(IF o = 0 THEN FiniteOrZero(k.params[1].default)
                                ELSE h.p[o][1], k.fs)
          /\ kind_ = "biquad" => k.flush_coeffs = RuntimeCoeffs(k, ParamsAt(k, h, o))
      BY <1>1, <2>2
    <2>. QED
      BY <2>3 DEF o
  <1>3. CASE n # 0
    <2> DEFINE o == m + n
    <2>1. n \in 1..n /\ o # 0
      BY <1>3
    <2>2. FlushOf(kind_, k) = FilterOf(kind_, k, h.p[o])
      BY <2>1 DEF FilteredBy
    <2> HIDE DEF o
    <2>3. /\ kind_ = "dc_blocker" =>
               k.flush_r = Pole(IF o = 0 THEN FiniteOrZero(k.params[1].default)
                                ELSE h.p[o][1], k.fs)
          /\ kind_ = "biquad" => k.flush_coeffs = RuntimeCoeffs(k, ParamsAt(k, h, o))
      <3>1. kind_ = "biquad" => ~ (kind_ = "dc_blocker")
        OBVIOUS
      <3>. QED
        BY <2>1, <2>2, <3>1, Zenon DEF FlushOf, FilterOf, ParamsAt
    <2>. QED
      BY <2>3 DEF o
  <1>. QED
    BY <1>2, <1>3

\* A filter's drain makes of silence what the history has there.
LEMMA FilterFlushRight ==
  ASSUME NEW kind_ \in Filters, NEW k, Formed(kind_, k), NEW ch \in Nat, Shaped(kind_, k, ch),
         NEW m \in Nat, NEW h, NEW f, FilterDrains(kind_, k, f), Holds(k, f.kernel),
         NEW n \in Nat, n = f.frames, AllFeed(Silence(ch, n), h.x, ch, m, n),
         NEW g, g = FlushOf(kind_, k), Works(kind_, g), FilteredBy(kind_, k, h, g, m, n),
         Right(kind_, k, h, ch, m)
  PROVE  /\ Right(kind_, f.kernel, h, ch, m + n)
         /\ Gives(kind_, k, h, ch, m, n, f.out)
  <1> DEFINE x == h.x
             planes == Silence(ch, n)
             done == FilterRun(kind_, k.state, planes, g)
             j == f.kernel
  <1>1. Len(k.state) = ch
    <2>1. DOMAIN k.state = 1..ch
      BY Zenon DEF Shaped
    <2>. QED
      BY <2>1, Length
  <1>2. StatesRight(kind_, k, h, ch, m)
    BY Zenon DEF Right
  <1>3. /\ FlushOf(kind_, j) = g
        /\ \/ n = 0 /\ j.state = k.state /\ f.out = Silence(ch, 0)
           \/ j.state = done.state /\ f.out = done.out
    BY <1>1, Zenon DEF FilterDrains
  <1>4. /\ kind_ = "dc_blocker" =>
             k.flush_r = Pole(IF m + n = 0 THEN FiniteOrZero(k.params[1].default)
                              ELSE h.p[m + n][1], k.fs)
        /\ kind_ = "biquad" => k.flush_coeffs = RuntimeCoeffs(k, ParamsAt(k, h, m + n))
    BY <1>2, FlushStays
  <1>5. /\ kind_ = "dc_blocker" => j.flush_r = k.flush_r
        /\ kind_ = "biquad" => j.flush_coeffs = k.flush_coeffs
    <2>1. kind_ = "biquad" => ~ (kind_ = "dc_blocker")
      OBVIOUS
    <2>. QED
      BY <1>3, <2>1, Zenon DEF FlushOf
  <1>6. /\ kind_ = "dc_blocker" =>
             j.flush_r = Pole(IF m + n = 0 THEN FiniteOrZero(k.params[1].default)
                              ELSE h.p[m + n][1], k.fs)
        /\ kind_ = "biquad" => j.flush_coeffs = RuntimeCoeffs(k, ParamsAt(k, h, m + n))
    BY <1>4, <1>5
  <1>7. CASE j.state = done.state /\ f.out = done.out
    <2>1. /\ x = h.x /\ AllFeed(planes, x, ch, m, n)
          /\ done = FilterRun(kind_, k.state, planes, g) /\ Holds(k, j)
      OBVIOUS
    <2> HIDE DEF x, planes, done, j
    <2>2. Right(kind_, j, h, ch, m + n) /\ Gives(kind_, k, h, ch, m, n, done.out)
      BY <1>6, <1>7, <2>1, FilterRunRight
    <2>. QED
      BY <1>7, <2>2 DEF j
  <1>8. CASE n = 0 /\ j.state = k.state /\ f.out = Silence(ch, 0)
    <2>1. /\ \A c, s, i : StateRight(kind_, j, h, c, s, i) <=> StateRight(kind_, k, h, c, s, i)
          /\ j.params = k.params /\ j.fs = k.fs
          /\ \A p : FilterOf(kind_, j, p) = FilterOf(kind_, k, p)
      BY AnswersHold
    <2>2. kind_ = "biquad" => \A p : RuntimeCoeffs(j, p) = RuntimeCoeffs(k, p)
      <3>1. "biquad" # "dc_blocker"
        OBVIOUS
      <3>. QED
        BY <2>1, <3>1, Zenon DEF FilterOf
    <2>3. m + n = m
      BY <1>8
    <2>4. ParamsAt(j, h, m) = ParamsAt(k, h, m)
      BY <2>1, Zenon DEF ParamsAt, BiquadDefaults
    <2>5. \A c \in 1..ch : StateRight(kind_, k, h, c, k.state[c], m)
      BY <1>2, Zenon DEF StatesRight
    <2>6. \A c \in 1..ch : StateRight(kind_, j, h, c, j.state[c], m)
      BY <1>8, <2>1, <2>5, Zenon
    <2>7. kind_ = "dc_blocker" =>
            j.flush_r = Pole(IF m = 0 THEN FiniteOrZero(j.params[1].default) ELSE h.p[m][1], j.fs)
      BY <1>2, <1>5, <2>1, Zenon DEF StatesRight
    <2>8. kind_ = "biquad" => j.flush_coeffs = RuntimeCoeffs(j, ParamsAt(j, h, m))
      BY <1>2, <1>5, <2>2, <2>4, Zenon DEF StatesRight
    <2>9. StatesRight(kind_, j, h, ch, m)
      BY <2>6, <2>7, <2>8, Zenon DEF StatesRight
    <2> HIDE DEF j
    <2>10. Right(kind_, j, h, ch, m + n)
      BY <2>3, <2>9 DEF Right, Filters
    <2>11. Gives(kind_, k, h, ch, m, n, f.out)
      <3>1. f.out = [c \in 1..ch |-> [i \in 1..n |-> 0]] /\ 1..n = {}
        BY <1>8 DEF Silence
      <3>2. DOMAIN f.out = 1..ch /\ \A c \in 1..ch : DOMAIN f.out[c] = 1..n
        BY <3>1
      <3>. QED
        BY <3>1, <3>2, Zenon DEF Gives
    <2>. QED
      BY <2>10, <2>11 DEF j
  <1>. QED
    BY <1>3, <1>7, <1>8

\* The parameters of the n-th frame; before the first, all the declared defaults.
LastAt(k, h, n) == IF n = 0 THEN [i \in DOMAIN k.params |-> k.params[i].default] ELSE h.p[n]

\* A filter's drain goes on with the last parameters.
LEMMA FlushIsLast ==
  ASSUME NEW kind_ \in Filters, NEW k, NEW h, NEW ch, NEW n \in Nat,
         StatesRight(kind_, k, h, ch, n),
         kind_ = "dc_blocker" => 1 \in DOMAIN k.params /\ Finite(k.params[1].default),
         kind_ = "biquad" => DOMAIN k.params = 1..3
  PROVE  FlushOf(kind_, k) = FilterOf(kind_, k, LastAt(k, h, n))
  <1>1. /\ kind_ = "dc_blocker" =>
             k.flush_r = Pole(IF n = 0 THEN FiniteOrZero(k.params[1].default) ELSE h.p[n][1], k.fs)
        /\ kind_ = "biquad" => k.flush_coeffs = RuntimeCoeffs(k, ParamsAt(k, h, n))
    BY Zenon DEF StatesRight
  <1>2. CASE kind_ = "dc_blocker"
    <2>1. (IF n = 0 THEN FiniteOrZero(k.params[1].default) ELSE h.p[n][1]) = LastAt(k, h, n)[1]
      BY <1>2 DEF LastAt, FiniteOrZero
    <2>. QED
      BY <1>1, <1>2, <2>1 DEF FlushOf, FilterOf
  <1>3. CASE kind_ = "biquad"
    <2>1. ParamsAt(k, h, n) = LastAt(k, h, n)
      BY <1>3 DEF LastAt, ParamsAt, BiquadDefaults
    <2>2. "biquad" # "dc_blocker"
      OBVIOUS
    <2>. QED
      BY <1>1, <1>3, <2>1, <2>2, Zenon DEF FlushOf, FilterOf
  <1>. QED
    BY <1>2, <1>3 DEF Filters

-----------------------------------------------------------------------------
(* What a prepared kernel can rely on. *)

\* A declaration's range.
Ranged(param, lo, hi) == param.lo = lo /\ param.hi = hi

\* What the constructors declare.
Made(kind_, k) ==
  /\ kind_ = "dc_blocker" => DOMAIN k.params = 1..1 /\ Ranged(k.params[1], DcLowest, DcHighest)
  /\ kind_ = "biquad" =>
       /\ k.kind \in BiquadShapes /\ DOMAIN k.params = 1..3
       /\ Ranged(k.params[1], 10, HighestCutoff) /\ Ranged(k.params[2], 1, 160)
       /\ Ranged(k.params[3], -24, 24)
  /\ kind_ = "dynamics" =>
       /\ k.curve \in {"compressor", "gate", "expander"}
       /\ DOMAIN k.params = IF k.curve = "expander" THEN 1..2 ELSE 1..3
       /\ \E lo \in -80..0 : Ranged(k.params[1], lo, 0)
       /\ Ranged(k.params[2], 1, 20)
       /\ k.curve = "compressor" => Ranged(k.params[3], 0, 24)
       /\ k.curve = "gate" => Ranged(k.params[3], -120, 0)
  /\ kind_ = "oscillator" =>
       /\ k.waveform \in {"Sine", "Saw", "Square"} /\ DOMAIN k.params = 1..2
       /\ Ranged(k.params[1], 1, HighestTone)

\* They do,
LEMMA ConstructedMade ==
  ASSUME NEW kind_ \in KernelKinds, NEW k, Constructed(kind_, k)
  PROVE  Made(kind_, k)
  <1>1. CASE kind_ = "dc_blocker"
    <2>1. PICK s : k = DcNew(s)
      BY <1>1, Zenon DEF Constructed
    <2>2. k.params = <<NewParam(0, DcLowest, DcHighest, s.cutoff_hz, "Hz")>>
      BY <2>1 DEF DcNew, DcParams
    <2>. QED
      BY <1>1, <2>2 DEF Made, Ranged, NewParam
  <1>2. CASE kind_ = "biquad"
    <2>1. /\ k.kind \in BiquadShapes
          /\ \E s : k = BiquadNew(s)
      BY <1>2, Zenon DEF Constructed
    <2>2. PICK s : k = BiquadNew(s)
      BY <2>1
    <2>3. k.params = <<NewParam(0, 10, HighestCutoff, s.cutoff_hz, "Hz"),
                       NewParam(1, 1, 160, s.q, "Q"), NewParam(2, -24, 24, s.gain_db, "Db")>>
      BY <2>2 DEF BiquadNew, BiquadParams
    <2>. QED
      BY <1>2, <2>1, <2>3 DEF Made, Ranged, NewParam
  <1>3. CASE kind_ = "dynamics"
    <2>1. k.curve \in {"compressor", "gate", "expander"} /\ k = DynamicsNew(DynamicsSettings(k))
      BY <1>3, Zenon DEF Constructed
    <2> DEFINE s == DynamicsSettings(k)
    <2>2. s.curve = k.curve
      BY DEF DynamicsSettings
    <2> HIDE DEF s
    <2>3. k.params = DynamicsParams(s)
      BY <2>1 DEF DynamicsNew, s
    <2>4. CASE k.curve = "compressor"
      <3>1. k.params = <<NewParam(0, -60, 0, s.threshold_db, "Db"), RatioParam(s.ratio),
                         NewParam(2, 0, 24, s.makeup_db, "Db")>>
        BY <2>2, <2>3, <2>4 DEF DynamicsParams, CompressorParams
      <3>2. -60 \in -80..0
        OBVIOUS
      <3>. QED
        BY <1>3, <2>4, <3>1, <3>2 DEF Made, Ranged, NewParam, RatioParam
    <2>5. CASE k.curve = "gate"
      <3>1. k.params = <<NewParam(0, -80, 0, s.threshold_db, "Db"), RatioParam(s.ratio),
                         NewParam(2, -120, 0, s.range_db, "Db")>>
        BY <2>2, <2>3, <2>5 DEF DynamicsParams, GateParams
      <3>2. -80 \in -80..0
        OBVIOUS
      <3>. QED
        BY <1>3, <2>5, <3>1, <3>2 DEF Made, Ranged, NewParam, RatioParam
    <2>6. CASE k.curve = "expander"
      <3>1. k.params = <<NewParam(0, -80, 0, s.threshold_db, "Db"), RatioParam(s.ratio)>>
        BY <2>2, <2>3, <2>6 DEF DynamicsParams, ExpanderParams
      <3>2. -80 \in -80..0
        OBVIOUS
      <3>. QED
        BY <1>3, <2>6, <3>1, <3>2 DEF Made, Ranged, NewParam, RatioParam
    <2>. QED
      BY <2>1, <2>4, <2>5, <2>6
  <1>4. CASE kind_ = "oscillator"
    <2>1. k.waveform \in {"Sine", "Saw", "Square"} /\ \E s : k = OscillatorNew(s)
      BY <1>4, Zenon DEF Constructed
    <2>2. PICK s : k = OscillatorNew(s)
      BY <2>1
    <2>3. k.params = <<NewParam(0, 1, HighestTone, s.frequency_hz, "Hz"),
                       NewParam(1, 0, 100, s.amplitude, "Linear")>>
      BY <2>2 DEF OscillatorNew, OscillatorParams
    <2>. QED
      BY <1>4, <2>1, <2>3 DEF Made, Ranged, NewParam
  <1>5. CASE kind_ \notin {"dc_blocker", "biquad", "dynamics", "oscillator"}
    BY <1>5 DEF Made
  <1>. QED
    BY <1>1, <1>2, <1>3, <1>4, <1>5

\* for life.
LEMMA KeepsMade ==
  ASSUME NEW kind_, NEW k, NEW j, Formed(kind_, k), Keeps(k, j), Made(kind_, k)
  PROVE  Made(kind_, j)
  <1>1. \A f \in {"params", "kind", "curve", "waveform"} \cap DOMAIN k : j[f] = k[f]
    BY DEF Keeps, Kept
  <1>2. CASE kind_ = "dc_blocker"
    <2>1. "params" \in DOMAIN k
      BY <1>2, SMT DEF Formed
    <2>2. j.params = k.params
      BY <1>1, <2>1
    <2>. QED
      BY <1>2, <2>2 DEF Made
  <1>3. CASE kind_ = "biquad"
    <2>1. {"params", "kind"} \subseteq DOMAIN k
      BY <1>3, SMT DEF Formed
    <2>2. j.params = k.params /\ j.kind = k.kind
      BY <1>1, <2>1
    <2>. QED
      BY <1>3, <2>2 DEF Made
  <1>4. CASE kind_ = "dynamics"
    <2>1. {"params", "curve"} \subseteq DOMAIN k
      BY <1>4, SMT DEF Formed
    <2>2. j.params = k.params /\ j.curve = k.curve
      BY <1>1, <2>1
    <2>. QED
      BY <1>4, <2>2 DEF Made
  <1>5. CASE kind_ = "oscillator"
    <2>1. {"params", "waveform"} \subseteq DOMAIN k
      BY <1>5, SMT DEF Formed
    <2>2. j.params = k.params /\ j.waveform = k.waveform
      BY <1>1, <2>1
    <2>. QED
      BY <1>5, <2>2 DEF Made
  <1>6. CASE kind_ \notin {"dc_blocker", "biquad", "dynamics", "oscillator"}
    BY <1>6 DEF Made
  <1>. QED
    BY <1>2, <1>3, <1>4, <1>5, <1>6

\* So the processor's kernel has declared it.
LEMMA SteadyMade ==
  ASSUME Steady
  PROVE  Made(kind, kernel)
  <1>1. PICK k \in Kernels : kind = k.kind /\ Keeps(k.kernel, kernel)
    BY DEF Steady
  <1>2. kind \in KernelKinds /\ Constructed(kind, k.kernel)
    BY <1>1, HostAssumption, Zenon
  <1> DEFINE j == k.kernel
  <1> HIDE DEF j
  <1>3. Constructed(kind, j) /\ Keeps(j, kernel)
    BY <1>1, <1>2 DEF j
  <1>4. Made(kind, j) /\ Formed(kind, j)
    BY <1>2, <1>3, ConstructedMade, ConstructedFormed
  <1>. QED
    BY <1>3, <1>4, KeepsMade

\* What a prepare leaves a kernel with.
Ready(kind_, k) ==
  /\ Runnable(kind_, k)
  /\ kind_ = "dc_blocker" => k.fs \in Nat \ {0}
  /\ kind_ = "biquad" => k.fs \in Nat /\ k.fs >= 3
  /\ kind_ = "dither" => k.levels \in Nat \ {0}
  /\ "params" \in DOMAIN k => ValidParams(k.params)

\* Values that declared parameters may have.
Vetted(params, p) == \A i \in DOMAIN params : p[i] \in (params[i].lo)..(params[i].hi)

\* What a kernel declares.
InfoOf(k) == IF "params" \in DOMAIN k THEN k.params ELSE NoParams

\* Coefficients are numbers, whatever they are made of.
LEMMA RbjTyped ==
  ASSUME NEW shape \in BiquadShapes, NEW cos \in Int, NEW alpha \in Int, NEW a \in Int,
         NEW root \in Int, NEW c, c = Rbj(shape, cos, alpha, a, root)
  PROVE  {c.b0, c.b1, c.b2, c.a0, c.a1, c.a2} \subseteq Int
  <1>1. Unit \in Int
    BY TailAssumption
  <1>2. CASE shape \in {"Lowpass", "Highpass"}
    BY <1>1, <1>2 DEF Rbj
  <1>3. CASE shape = "Peaking"
    <2> DEFINE square == Unit * Unit
               high == alpha * a
    <2>1. square \in Int /\ high \in Int
      BY <1>1
    <2>2. /\ c.b0 = a * (square + high) /\ c.b1 = -2 * cos * Unit * a
          /\ c.b2 = a * (square - high) /\ c.a0 = square * (a + alpha)
          /\ c.a1 = -2 * cos * Unit * a /\ c.a2 = square * (a - alpha)
      BY <1>3 DEF Rbj
    <2> HIDE DEF square, high
    <2>. QED
      BY <1>1, <2>1, <2>2
  <1>4. CASE shape \in {"LowShelf", "HighShelf"}
    <2> DEFINE sign == IF shape = "LowShelf" THEN 1 ELSE -1
               shelf == 2 * root * alpha
               plus == (a + Unit) * Unit
               tilt == sign * (a - Unit) * cos
               low == sign * ((a - Unit) * Unit - sign * (a + Unit) * cos)
               high == sign * ((a - Unit) * Unit + sign * (a + Unit) * cos)
    <2>1. /\ c.b0 = a * (plus - tilt + shelf) /\ c.b2 = a * (plus - tilt - shelf)
          /\ c.a0 = Unit * (plus + tilt + shelf) /\ c.a2 = Unit * (plus + tilt - shelf)
          /\ c.b1 = 2 * a * sign * ((a - Unit) * Unit - sign * (a + Unit) * cos)
          /\ c.a1 = -2 * Unit * sign * ((a - Unit) * Unit + sign * (a + Unit) * cos)
      BY <1>4 DEF Rbj
    <2>2. sign \in Int
      OBVIOUS
    <2> HIDE DEF sign
    <2>3. shelf \in Int /\ plus \in Int /\ tilt \in Int
      BY <1>1, <2>2
    <2>4. c.b1 \in Int /\ c.a1 \in Int
      BY <1>1, <2>1, <2>2
    <2> HIDE DEF shelf, plus, tilt, low, high
    <2>. QED
      BY <1>1, <2>1, <2>3, <2>4
  <1>. QED
    BY <1>2, <1>3, <1>4 DEF BiquadShapes

\* Clamping lands in the range.
LEMMA ClampBounds ==
  ASSUME NEW v \in Int, NEW lo \in Int, NEW hi \in Int, lo <= hi
  PROVE  ClampTo(v, lo, hi) \in lo..hi
  BY DEF ClampTo

\* A biquad's coefficients for the values of its parameters.
LEMMA RuntimeWorks ==
  ASSUME NEW k, Made("biquad", k), Ready("biquad", k), NEW p, Vetted(k.params, p)
  PROVE  /\ Works("biquad", RuntimeCoeffs(k, p)) /\ IsStable(RuntimeCoeffs(k, p))
         /\ \A i \in 1..3 : Finite(p[i])
  <1>1. /\ k.kind \in BiquadShapes /\ DOMAIN k.params = 1..3
        /\ k.params[1].lo = 10 /\ k.params[1].hi = HighestCutoff
        /\ k.params[2].lo = 1 /\ k.params[2].hi = 160
        /\ k.params[3].lo = -24 /\ k.params[3].hi = 24
    BY DEF Made, Ranged
  <1>2. k.fs \in Nat /\ k.fs >= 3
    BY DEF Ready
  <1>3. p[1] \in 10..HighestCutoff /\ p[2] \in 1..160 /\ p[3] \in -24..24
    <2>1. 1 \in 1..3 /\ 2 \in 1..3 /\ 3 \in 1..3
      OBVIOUS
    <2>2. \A i \in 1..3 : p[i] \in (k.params[i].lo)..(k.params[i].hi)
      BY <1>1, Zenon DEF Vetted
    <2>3. /\ p[1] \in (k.params[1].lo)..(k.params[1].hi)
          /\ p[2] \in (k.params[2].lo)..(k.params[2].hi)
          /\ p[3] \in (k.params[3].lo)..(k.params[3].hi)
      BY <2>1, <2>2, Zenon
    <2>. QED
      BY <1>1, <2>3, Zenon
  <1> DEFINE In(i) == ClampTo(p[i], k.params[i].lo, k.params[i].hi)
             hz == In(1)
             q == In(2)
             g == In(3)
             h == Share(hz, k.fs)
             shape == k.kind
             fs == k.fs
             co == RuntimeCoeffs(k, p)
  <1>4. hz \in Int /\ q \in Nat \ {0} /\ g \in -24..24
    <2>1. hz = ClampTo(p[1], 10, HighestCutoff) /\ q = ClampTo(p[2], 1, 160) /\ g = ClampTo(p[3], -24, 24)
      BY <1>1, Zenon
    <2> HIDE DEF hz, q, g
    <2>2. hz \in Int
      <3>1. HighestCutoff \in Int
        BY DEF HighestCutoff
      <3>. QED
        BY <1>3, <2>1, <3>1 DEF ClampTo
    <2>3. q \in Nat \ {0}
      BY <1>3, <2>1 DEF ClampTo
    <2>4. g \in -24..24
      BY <1>3, <2>1 DEF ClampTo
    <2>. QED
      BY <2>2, <2>3, <2>4
  <1>5. g \in DOMAIN Amplitude
    BY <1>4, CoefficientAssumption
  <1>6. co = Rbj(shape, Cos[h], Alpha(Sin[h], q), Amplitude[g], RootOf[g])
    BY DEF RuntimeCoeffs
  <1>7. shape \in BiquadShapes /\ fs \in Nat /\ fs >= 3
    BY <1>1, <1>2
  <1> HIDE DEF hz, q, g, shape, fs, co
  <1>8. h = Share(hz, fs)
    BY DEF fs
  <1>9. IsStable(co)
    BY <1>4, <1>5, <1>6, <1>7, <1>8, CoefficientsStable
  <1>10. h \in 0..49
    BY <1>4, <1>7, <1>8, ShareBounded
  <1> HIDE DEF h
  <1>11. Cos[h] \in Int /\ Sin[h] \in Nat \ {0} /\ Amplitude[g] \in Int /\ RootOf[g] \in Int
    BY <1>5, <1>10, TailAssumption, CoefficientAssumption
  <1>12. Alpha(Sin[h], q) \in Int
    BY <1>4, <1>11, AlphaPositive
  <1>13. {co.b0, co.b1, co.b2, co.a0, co.a1, co.a2} \subseteq Int
    BY <1>6, <1>7, <1>11, <1>12, RbjTyped
  <1>14. co.a0 \in Nat \ {0}
    BY <1>9, <1>13 DEF IsStable, Magnitude
  <1>15. Works("biquad", co)
    BY <1>13, <1>14 DEF Works
  <1>16. \A i \in 1..3 : Finite(p[i])
    <2>1. p[1] \in Int /\ p[2] \in Int /\ p[3] \in Int
      <3>1. HighestCutoff \in Int
        BY DEF HighestCutoff
      <3>. QED
        BY <1>3, <3>1
    <2>2. \A i \in 1..3 : i = 1 \/ i = 2 \/ i = 3
      OBVIOUS
    <2>3. \A i \in 1..3 : p[i] \in Int
      BY <2>1, <2>2, Zenon
    <2>. QED
      BY <2>3, ParameterAssumption, Zenon DEF Finite
  <1>. QED
    BY <1>9, <1>15, <1>16 DEF co

\* A DC blocker's pole at the values of its parameter.
LEMMA PoleWorks ==
  ASSUME NEW fs \in Nat \ {0}, NEW hz \in Int
  PROVE  Pole(hz, fs) \in 1..(Unit - 1)
  <1>1. DcClampCutoff(hz, fs) \div fs \in 0..49
    BY PoleShare
  <1>. QED
    BY <1>1, RadiusAssumption DEF Pole

\* A kernel can be run with values that its parameters may have.
LEMMA SteersVetted ==
  ASSUME NEW kind_, NEW k, Formed(kind_, k), Made(kind_, k), Ready(kind_, k),
         NEW p, Vetted(InfoOf(k), p)
  PROVE  Steers(kind_, k, p)
  <1>1. CASE kind_ = "dc_blocker"
    <2>1. "params" \in DOMAIN k
      BY <1>1, SMT DEF Formed
    <2>2. DOMAIN k.params = 1..1 /\ k.params[1].lo = DcLowest /\ k.params[1].hi = DcHighest
      BY <1>1 DEF Made, Ranged
    <2>3. p[1] \in Int
      <3>1. DcLowest \in Int /\ DcHighest \in Int
        BY DEF DcLowest, DcHighest
      <3>. QED
        BY <2>1, <2>2, <3>1 DEF Vetted, InfoOf
    <2>4. k.fs \in Nat \ {0}
      BY <1>1 DEF Ready
    <2>5. Pole(p[1], k.fs) \in 1..(Unit - 1)
      BY <2>3, <2>4, PoleWorks
    <2>. QED
      BY <1>1, <2>5, TailAssumption DEF Steers, Works, FilterOf, Filters
  <1>2. CASE kind_ = "biquad"
    <2>1. "params" \in DOMAIN k
      BY <1>2, SMT DEF Formed
    <2>2. Made("biquad", k) /\ Ready("biquad", k) /\ Vetted(k.params, p)
      BY <1>2, <2>1 DEF InfoOf
    <2>3. Works("biquad", RuntimeCoeffs(k, p))
      BY <2>2, RuntimeWorks
    <2>. QED
      BY <1>2, <2>3, "biquad" # "dc_blocker", "biquad" # "oscillator", Zenon DEF Steers, FilterOf
  <1>3. CASE kind_ = "oscillator"
    <2>1. "params" \in DOMAIN k
      BY <1>3, SMT DEF Formed
    <2>2. DOMAIN k.params = 1..2 /\ k.params[1].lo = 1 /\ k.params[1].hi = HighestTone
      BY <1>3 DEF Made, Ranged
    <2>3. p[1] \in 1..HighestTone
      <3>1. 1 \in 1..2 /\ InfoOf(k) = k.params
        BY <2>1 DEF InfoOf
      <3>2. p[1] \in (k.params[1].lo)..(k.params[1].hi)
        BY <2>2, <3>1, Zenon DEF Vetted
      <3>. QED
        BY <2>2, <3>2, Zenon
    <2>4. p[1] \in Nat
      <3>1. HighestTone \in Int
        BY DEF HighestTone
      <3>. QED
        BY <2>3, <3>1
    <2>5. "oscillator" \notin Filters
      BY DEF Filters
    <2>. QED
      BY <1>3, <2>4, <2>5, Zenon DEF Steers
  <1>4. CASE kind_ \notin {"oscillator"} \cup Filters
    BY <1>4 DEF Steers
  <1>. QED
    BY <1>1, <1>2, <1>3, <1>4 DEF Filters

\* It stays ready while it keeps its measures.
LEMMA HoldsReady ==
  ASSUME NEW kind_ \in KernelKinds, NEW k, NEW j, Formed(kind_, k), Holds(k, j), Ready(kind_, k)
  PROVE  Ready(kind_, j)
  <1>1. Runnable(kind_, j)
    BY HoldsRunnable DEF Ready
  <1>2. DOMAIN j = DOMAIN k /\ \A f \in {"params", "fs", "levels"} \cap DOMAIN k : j[f] = k[f]
    BY DEF Holds, Keeps, Kept, Fixed
  <1>3. /\ kind_ \in Filters => "fs" \in DOMAIN k
        /\ kind_ = "dither" => "levels" \in DOMAIN k
    BY SMT DEF Formed, Filters
  <1>. QED
    BY <1>1, <1>2, <1>3 DEF Ready, Filters

\* The declared defaults are values that parameters may have.
LEMMA DefaultsVetted ==
  ASSUME NEW params, ValidParams(params)
  PROVE  Vetted(params, [i \in DOMAIN params |-> params[i].default])
  BY DEF ValidParams, ValidParam, Vetted

\* The powers of two that a quantizer may have levels of.
LEMMA LevelsPositive ==
  ASSUME NEW bits \in 2..24
  PROVE  2^(bits - 1) \in Nat \ {0}
  <1> DEFINE e == bits - 1
  <1>1. /\ 2^1 \in Nat \ {0} /\ 2^2 \in Nat \ {0} /\ 2^3 \in Nat \ {0} /\ 2^4 \in Nat \ {0}
        /\ 2^5 \in Nat \ {0} /\ 2^6 \in Nat \ {0} /\ 2^7 \in Nat \ {0} /\ 2^8 \in Nat \ {0}
        /\ 2^9 \in Nat \ {0} /\ 2^10 \in Nat \ {0} /\ 2^11 \in Nat \ {0} /\ 2^12 \in Nat \ {0}
    BY SMT
  <1>2. /\ 2^13 \in Nat \ {0} /\ 2^14 \in Nat \ {0} /\ 2^15 \in Nat \ {0} /\ 2^16 \in Nat \ {0}
        /\ 2^17 \in Nat \ {0} /\ 2^18 \in Nat \ {0} /\ 2^19 \in Nat \ {0} /\ 2^20 \in Nat \ {0}
        /\ 2^21 \in Nat \ {0} /\ 2^22 \in Nat \ {0} /\ 2^23 \in Nat \ {0}
    BY SMT
  <1>3. e \in {1, 2, 3, 4, 5, 6, 7, 8, 9, 10, 11, 12, 13, 14, 15, 16, 17, 18, 19, 20, 21, 22, 23}
    OBVIOUS
  <1> HIDE DEF e
  <1>4. 2^e \in Nat \ {0}
    BY <1>1, <1>2, <1>3, Zenon
  <1>. QED
    BY <1>4 DEF e

\* A kernel that accepts a spec is ready for it.
LEMMA PreparedReady ==
  ASSUME Steady, NEW spec \in Specs[kind], NEW cap, KernelAnswer(spec, cap) = "Ok",
         ValidParams(ParamInfo)
  PROVE  Ready(kind, KernelPrepared(spec))
  <1> DEFINE j == KernelPrepared(spec)
             rate == spec.sample_rate
  <1>1. kind \in KernelKinds /\ Formed(kind, kernel) /\ rate \in Nat
    BY SteadyFormed DEF Askable
  <1>2. Runnable(kind, j) /\ ("fs" \in DOMAIN kernel => j.fs = rate)
    BY PreparedShaped
  <1>3. Keeps(kernel, j)
    BY <1>1, PreparedKeeps
  <1>4. "params" \in DOMAIN j => ValidParams(j.params)
    BY <1>3 DEF Keeps, Kept, ParamInfo
  <1>5. kind = "dc_blocker" => j.fs \in Nat \ {0}
    <2>1. SUFFICES ASSUME kind = "dc_blocker" PROVE rate # 0 /\ "fs" \in DOMAIN kernel
      BY <1>1, <1>2
    <2>2. DcAnswer(spec, cap) = "Ok" /\ "UnsupportedSpec" # "Ok"
      BY <2>1, Zenon DEF KernelAnswer
    <2>3. rate # 0
      BY <2>2, Zenon DEF DcAnswer
    <2>. QED
      BY <1>1, <2>1, <2>3, SMT DEF Formed
  <1>6. kind = "biquad" => j.fs \in Nat /\ j.fs >= 3
    <2>1. SUFFICES ASSUME kind = "biquad" PROVE ~ (rate < 3) /\ "fs" \in DOMAIN kernel
      BY <1>1, <1>2
    <2>2. BiquadAnswer(spec, cap) = "Ok" /\ "UnsupportedSpec" # "Ok"
      BY <2>1, Zenon DEF KernelAnswer
    <2>3. ~ (rate < 3)
      BY <2>2, Zenon DEF BiquadAnswer
    <2>. QED
      BY <1>1, <2>1, <2>3, SMT DEF Formed
  <1>7. kind = "dither" => j.levels \in Nat \ {0}
    <2>1. SUFFICES ASSUME kind = "dither" PROVE j.levels \in Nat \ {0}
      OBVIOUS
    <2>2. DitherAnswer(kernel, spec, cap) = "Ok" /\ "InvalidParam" # "Ok"
      BY <2>1, Zenon DEF KernelAnswer
    <2>3. kernel.bits \in 2..24
      BY <2>2, Zenon DEF DitherAnswer
    <2>4. "levels" \in DOMAIN kernel
      BY <1>1, <2>1, SMT DEF Formed
    <2>5. j = DitherPrepared(kernel, spec)
      BY <2>1, Zenon DEF KernelPrepared
    <2> HIDE DEF j
    <2> DEFINE top == 2^(kernel.bits - 1)
    <2>6. \E r : j = [[kernel EXCEPT !.levels = top] EXCEPT !.rngs = r]
      BY <2>5 DEF DitherPrepared
    <2> HIDE DEF top
    <2>7. j.levels = top
      BY <2>4, <2>6
    <2>. QED
      BY <2>3, <2>7, LevelsPositive DEF top
  <1> HIDE DEF j
  <1>8. Ready(kind, j)
    BY <1>2, <1>4, <1>5, <1>6, <1>7, Zenon DEF Ready
  <1>. QED
    BY <1>8 DEF j

-----------------------------------------------------------------------------
(* The beginning of a history. *)

\* Nothing was heard.
LEMMA NothingHeard ==
  ASSUME NEW kind_, NEW k, NEW ch \in Nat
  PROVE  Chronicle(kind_, k, Nothing(ch), ch, 0)
  <1> DEFINE zero == 0
             h == Nothing(ch)
  <1>1. /\ DOMAIN h.p = 1..zero /\ DOMAIN h.x = 1..ch /\ DOMAIN h.sidechain = 1..1
        /\ \A c \in 1..ch : DOMAIN h.x[c] = 1..zero
        /\ \A c \in 1..1 : DOMAIN h.sidechain[c] = 1..zero
    BY DEF Nothing
  <1>2. 1..zero = {}
    OBVIOUS
  <1> HIDE DEF h
  <1>3. Sampled(h.x, ch, zero, 1) /\ Sampled(h.sidechain, 1, zero, 1)
    BY <1>1, <1>2, Zenon DEF Sampled
  <1>4. Chronicle(kind_, k, h, ch, zero)
    BY <1>1, <1>3, Zenon DEF Chronicle
  <1>. QED
    BY <1>4 DEF h

\* A kernel whose state is that of a prepare or a reset.
Fresh(kind_, k, ch) ==
  /\ kind_ = "average" =>
       /\ k.ring_pos = 0
       /\ \A c \in 1..ch : k.sums[c] = 0 /\ \A j \in 0..(k.taps - 1) : k.rings[c][j] = 0
  /\ kind_ = "dc_blocker" =>
       /\ \A c \in 1..ch : k.state[c] = [x1 |-> 0, y1 |-> 0]
       /\ k.flush_r = Pole(FiniteOrZero(k.params[1].default), k.fs)
  /\ kind_ = "biquad" =>
       /\ \A c \in 1..ch : k.state[c] = [x1 |-> 0, x2 |-> 0, y1 |-> 0, y2 |-> 0]
       /\ k.flush_coeffs = RuntimeCoeffs(k, BiquadDefaults(k))
  /\ kind_ = "dynamics" => k.env = 0
  /\ kind_ = "oscillator" => k.phase = 0
  /\ kind_ \in {"noise", "dither"} =>
       \A c \in 1..ch : k.rngs[c] = RngNew(ChannelSeed(k.seed, c))

\* Zeros add up to nothing.
LEMMA SumZeros ==
  ASSUME NEW S, IsFiniteSet(S), NEW g, \A x \in S : g[x] = 0
  PROVE  SumOver(g, S) = 0
  <1> DEFINE pick == TakenOf(S)
  <1>1. Numbers(g, S)
    BY DEF Numbers
  <1>2. PICK F : Folds(F, S, g) /\ SumOver(g, S) = F[S]
    BY <1>1, SumFolds
  <1>3. /\ F[{}] = 0
        /\ \A s \in SUBSET S : s # {} => F[s] = g[Taken(s)] + F[s \ {Taken(s)}]
        /\ F \in [SUBSET S -> Int]
    BY <1>1, <1>2, FoldsAre
  <1> DEFINE P == {s \in SUBSET S : F[s] = 0}
  <1>4. Takes(pick, S) /\ \A s \in SUBSET S : pick[s] = Taken(s)
    BY DEF Takes, TakenOf, Taken
  <1>5. Grows(P, pick, S)
    <2>1. ASSUME NEW s \in SUBSET S, s # {}, s \ {pick[s]} \in P
          PROVE  s \in P
      <3>1. Taken(s) \in s /\ F[s \ {Taken(s)}] = 0
        BY <1>4, <2>1 DEF Takes
      <3>2. F[s] = 0
        BY <1>3, <2>1, <3>1
      <3>. QED
        BY <3>2
    <2>2. {} \in P
      BY <1>3
    <2>. QED
      BY <2>1, <2>2 DEF Grows
  <1>6. P = SUBSET S
    <2> HIDE DEF P, pick
    <2>. QED
      BY <1>4, <1>5, SubsetInd
  <1>7. S \in P
    BY <1>6
  <1>. QED
    BY <1>2, <1>7

\* The sum of no samples.
LEMMA RecentNone ==
  ASSUME NEW x, NEW c, NEW taps \in Nat \ {0}
  PROVE  RecentOf(x, taps, c, 0) = 0
  <1> DEFINE h == [i \in Int |-> 0]
             zero == 0
             S == (zero - taps + 1)..zero
  <1>1. Lists(h, x, c, zero)
    BY DEF Lists, At
  <1>2. IsFiniteSet(S) /\ S \subseteq Int
    BY FS_Interval
  <1>3. h \in [Int -> Int] /\ \A i \in Int : h[i] = 0
    OBVIOUS
  <1>4. zero \in Int /\ zero = 0
    OBVIOUS
  <1> HIDE DEF h, zero
  <1>5. RecentOf(x, taps, c, zero) = SumOver(h, S)
    BY <1>1, <1>4, RecentWindow
  <1>6. \A i \in S : h[i] = 0
    BY <1>2, <1>3
  <1>7. SumOver(h, S) = 0
    <2> HIDE DEF S
    <2>. QED
      BY <1>2, <1>6, SumZeros
  <1>. QED
    BY <1>4, <1>5, <1>7

\* So it is right of no frames, whatever follows.
LEMMA FreshRight ==
  ASSUME NEW kind_ \in KernelKinds, NEW k, NEW ch \in Nat, Fresh(kind_, k, ch),
         Formed(kind_, k), Runnable(kind_, k) \/ ch = 0, NEW h
  PROVE  Right(kind_, k, h, ch, 0)
  <1>1. \A x, c : /\ At(x, c, 0) = 0 /\ At(x, c, 0 - 1) = 0
    BY DEF At
  <1>2. CASE kind_ = "average"
    <2>1. ASSUME NEW c \in 1..ch
          PROVE  AverageRight(h.x, c, 0, k.taps, k.rings[c], k.sums[c], k.ring_pos)
      <3> DEFINE taps == k.taps
                 ring == k.rings[c]
                 sum == k.sums[c]
                 p == k.ring_pos
      <3>1. taps \in Nat \ {0}
        BY <1>2 DEF Runnable
      <3>2. p = 0 /\ sum = 0 /\ \A j \in 0..(taps - 1) : ring[j] = 0
        BY <1>2, Zenon DEF Fresh
      <3> DEFINE x == h.x
      <3> HIDE DEF taps, ring, sum, p, x
      <3>3. ASSUME NEW j \in 0..(taps - 1)
            PROVE  ring[(p + j) % taps] = At(x, c, 0 - taps + 1 + j)
        <4>1. (p + j) % taps = j
          <5>1. p + j = j
            BY <3>1, <3>2
          <5>. QED
            BY <3>1, <5>1, RingStart
        <4>2. 0 - taps + 1 + j < 1
          BY <3>1
        <4>. QED
          BY <3>2, <4>1, <4>2, Zenon DEF At
      <3>4. RecentOf(x, taps, c, 0) = 0
        BY <3>1, RecentNone
      <3>5. Magnitude(sum - RecentOf(x, taps, c, 0)) <= p
        BY <3>2, <3>4 DEF Magnitude
      <3>6. AverageRight(x, c, 0, taps, ring, sum, p)
        BY <3>3, <3>5, Zenon DEF AverageRight
      <3>. QED
        BY <3>6 DEF taps, ring, sum, p, x
    <2>2. AveragesRight(k, h.x, ch, 0)
      BY <2>1, Zenon DEF AveragesRight
    <2>. QED
      BY <1>2, <2>2 DEF Right, Filters
  <1>3. CASE kind_ = "dc_blocker"
    <2>1. ASSUME NEW c \in 1..ch
          PROVE  StateRight(kind_, k, h, c, k.state[c], 0)
      <3>1. k.state[c] = [x1 |-> 0, y1 |-> 0]
        BY <1>3, Zenon DEF Fresh
      <3>2. k.state[c] \in StatesOf(kind_) /\ k.state[c].x1 = 0 /\ k.state[c].y1 = 0
        BY <1>3, <3>1 DEF StatesOf
      <3>3. \A y : Answers(kind_, k, h, c, y, 0) => y[0] = 0
        BY Zenon DEF Answers
      <3>4. At(h.x, c, 0) = 0
        BY <1>1
      <3>. QED
        BY <1>3, <3>2, <3>3, <3>4 DEF StateRight
    <2>2. StatesRight(kind_, k, h, ch, 0)
      BY <1>3, <2>1 DEF StatesRight, Fresh
    <2>. QED
      BY <1>3, <2>2 DEF Right, Filters
  <1>4. CASE kind_ = "biquad"
    <2>1. ASSUME NEW c \in 1..ch
          PROVE  StateRight(kind_, k, h, c, k.state[c], 0)
      <3>1. k.state[c] = [x1 |-> 0, x2 |-> 0, y1 |-> 0, y2 |-> 0]
        BY <1>4, Zenon DEF Fresh
      <3>2. /\ k.state[c] \in StatesOf(kind_) /\ k.state[c].x1 = 0 /\ k.state[c].y1 = 0
            /\ k.state[c].x2 = 0 /\ k.state[c].y2 = 0
        BY <1>4, <3>1 DEF StatesOf
      <3>3. \A y : Answers(kind_, k, h, c, y, 0) => y[0] = 0 /\ y[0 - 1] = 0
        <4>1. 0 - 1 = -1
          OBVIOUS
        <4>. QED
          BY <4>1, Zenon DEF Answers
      <3>4. At(h.x, c, 0) = 0 /\ At(h.x, c, 0 - 1) = 0
        BY <1>1
      <3>5. kind_ # "dc_blocker"
        BY <1>4
      <3>. QED
        BY <3>2, <3>3, <3>4, <3>5, Zenon DEF StateRight
    <2>2. k.flush_coeffs = RuntimeCoeffs(k, ParamsAt(k, h, 0))
      BY <1>4, Zenon DEF Fresh, ParamsAt
    <2>3. StatesRight(kind_, k, h, ch, 0)
      <3>1. kind_ # "dc_blocker"
        BY <1>4
      <3>. QED
        BY <2>1, <2>2, <3>1, Zenon DEF StatesRight
    <2>. QED
      BY <1>4, <2>3 DEF Right, Filters
  <1>5. CASE kind_ = "dynamics"
    <2>1. \A e : Follows(k, h, e, 0) => k.env = e[0]
      BY <1>5, Zenon DEF Follows, Fresh
    <2>. QED
      BY <1>5, <2>1 DEF Right, Filters
  <1>6. CASE kind_ = "oscillator"
    <2>1. PhaseOf(k, h, 0) = 0
      <3> DEFINE zero == 0
                 g == [i \in 1..zero |-> Increment(k, h.p[i][1])]
      <3>1. PhaseOf(k, h, zero) = SumOver(g, 1..zero)
        BY PhaseSum
      <3>2. 1..zero = {}
        OBVIOUS
      <3> HIDE DEF g
      <3>3. SumOver(g, {}) = 0
        BY SumTyped, FS_EmptySet DEF Numbers
      <3>4. PhaseOf(k, h, zero) = 0
        BY <3>1, <3>2, <3>3
      <3>. QED
        BY <3>4
    <2>2. k.phase = 0 /\ 0 % Cycle = 0
      BY <1>6, CycleAssumption, Z3 DEF Fresh
    <2>. QED
      BY <1>6, <2>1, <2>2 DEF Right, Filters
  <1>7. CASE kind_ \in {"noise", "dither"}
    <2>1. DrawsRight(k, ch, 0)
      <3>1. ASSUME NEW c \in 1..ch
            PROVE  {"seed", "draws"} \subseteq DOMAIN k.rngs[c] /\ k.rngs[c].draws = 0
        <4>1. k.rngs[c] = [seed |-> ChannelSeed(k.seed, c), draws |-> 0]
          BY <1>7, Zenon DEF Fresh, RngNew
        <4>. QED
          BY <4>1
      <3>. QED
        BY <3>1, Zenon DEF DrawsRight
    <2>2. 2 * 0 = 0
      OBVIOUS
    <2>. QED
      BY <1>7, <2>1, <2>2 DEF Right, Filters
  <1>8. CASE kind_ \in {"gain", "scale", "dc_offset", "custom"}
    BY <1>8 DEF Right, Filters
  <1>. QED
    BY <1>2, <1>3, <1>4, <1>5, <1>6, <1>7, <1>8 DEF KernelKinds

\* What a recursive filter's reset leaves of the drain.
LEMMA ResetFlushIs ==
  ASSUME NEW k
  PROVE  /\ {"flushed", "flush_r"} \subseteq DOMAIN k =>
              /\ DcResetFlush(k).flush_r =
                   IF k.fs > 0 THEN Pole(FiniteOrZero(k.params[1].default), k.fs) ELSE k.flush_r
              /\ \A f \in DOMAIN k \ {"flushed", "flush_r"} : DcResetFlush(k)[f] = k[f]
         /\ {"flushed", "flush_coeffs"} \subseteq DOMAIN k =>
              /\ BiquadResetFlush(k).flush_coeffs =
                   IF k.fs > 0 THEN RuntimeCoeffs(k, BiquadDefaults(k)) ELSE k.flush_coeffs
              /\ \A f \in DOMAIN k \ {"flushed", "flush_coeffs"} : BiquadResetFlush(k)[f] = k[f]
  <1> DEFINE dc == DcResetFlush(k)
             bi == BiquadResetFlush(k)
  <1>1. ASSUME {"flushed", "flush_r"} \subseteq DOMAIN k
        PROVE  /\ dc.flush_r = IF k.fs > 0 THEN Pole(FiniteOrZero(k.params[1].default), k.fs)
                               ELSE k.flush_r
               /\ \A f \in DOMAIN k \ {"flushed", "flush_r"} : dc[f] = k[f]
    <2> DEFINE r == IF k.fs > 0 THEN Pole(FiniteOrZero(k.params[1].default), k.fs)
                    ELSE k.flush_r
    <2>1. dc = [k EXCEPT !.flushed = 0, !.flush_r = r]
      BY DEF DcResetFlush
    <2> HIDE DEF r, dc
    <2>2. dc.flush_r = r /\ \A f \in DOMAIN k \ {"flushed", "flush_r"} : dc[f] = k[f]
      BY <1>1, <2>1
    <2>. QED
      BY <2>2 DEF r
  <1>2. ASSUME {"flushed", "flush_coeffs"} \subseteq DOMAIN k
        PROVE  /\ bi.flush_coeffs = IF k.fs > 0 THEN RuntimeCoeffs(k, BiquadDefaults(k))
                                    ELSE k.flush_coeffs
               /\ \A f \in DOMAIN k \ {"flushed", "flush_coeffs"} : bi[f] = k[f]
    <2> DEFINE r == IF k.fs > 0 THEN RuntimeCoeffs(k, BiquadDefaults(k)) ELSE k.flush_coeffs
    <2>1. bi = [k EXCEPT !.flushed = 0, !.flush_coeffs = r]
      BY DEF BiquadResetFlush
    <2> HIDE DEF r, bi
    <2>2. bi.flush_coeffs = r /\ \A f \in DOMAIN k \ {"flushed", "flush_coeffs"} : bi[f] = k[f]
      BY <1>2, <2>1
    <2>. QED
      BY <2>2 DEF r
  <1>. QED
    BY <1>1, <1>2

\* A biquad's coefficients are a matter of its shape, parameters and rate.
LEMMA CoeffsBy ==
  ASSUME NEW k, NEW j, j.kind = k.kind, j.params = k.params, j.fs = k.fs, NEW p
  PROVE  RuntimeCoeffs(j, p) = RuntimeCoeffs(k, p) /\ BiquadDefaults(j) = BiquadDefaults(k)
  BY Zenon DEF RuntimeCoeffs, BiquadDefaults

\* A DC blocker at rest, for some rate.
LEMMA DcFresh ==
  ASSUME NEW k, Formed("dc_blocker", k), NEW ch \in Nat, NEW j,
         {"params", "fs", "state", "flush_r", "flushed"} \subseteq DOMAIN j,
         j.state = DcRest(ch), j.params = k.params, NEW l, l = DcResetFlush(j), l.fs > 0
  PROVE  Fresh("dc_blocker", l, ch)
  <1>1. /\ l.flush_r = IF j.fs > 0 THEN Pole(FiniteOrZero(j.params[1].default), j.fs) ELSE j.flush_r
        /\ l.state = j.state /\ l.params = j.params /\ l.fs = j.fs
    BY ResetFlushIs
  <1>2. l.flush_r = Pole(FiniteOrZero(l.params[1].default), l.fs)
    BY <1>1
  <1>3. \A c \in 1..ch : l.state[c] = [x1 |-> 0, y1 |-> 0]
    BY <1>1 DEF DcRest
  <1>. QED
    BY <1>2, <1>3 DEF Fresh

\* A biquad at rest, for some rate.
LEMMA BiquadFresh ==
  ASSUME NEW ch \in Nat, NEW j,
         {"kind", "params", "fs", "state", "flush_coeffs", "flushed"} \subseteq DOMAIN j,
         j.state = BiquadRest(ch), NEW l, l = BiquadResetFlush(j), l.fs > 0
  PROVE  Fresh("biquad", l, ch)
  <1>1. /\ l.flush_coeffs = IF j.fs > 0 THEN RuntimeCoeffs(j, BiquadDefaults(j))
                            ELSE j.flush_coeffs
        /\ l.state = j.state /\ l.params = j.params /\ l.fs = j.fs /\ l.kind = j.kind
    BY ResetFlushIs
  <1>2. l.flush_coeffs = RuntimeCoeffs(l, BiquadDefaults(l))
    BY <1>1, CoeffsBy
  <1>3. \A c \in 1..ch : l.state[c] = [x1 |-> 0, x2 |-> 0, y1 |-> 0, y2 |-> 0]
    BY <1>1 DEF BiquadRest
  <1>. QED
    BY <1>2, <1>3 DEF Fresh

\* An average cleared,
LEMMA AverageFresh ==
  ASSUME NEW k, Formed("average", k), NEW ch \in Nat
  PROVE  Fresh("average", AverageCleared(k, ch), ch)
  <1> DEFINE j == AverageCleared(k, ch)
  <1>1. {"rings", "sums", "ring_pos", "flushed", "taps"} \subseteq DOMAIN k
    BY DEF Formed
  <1>2. /\ j.rings = [c \in 1..ch |-> [i \in 0..(k.taps - 1) |-> 0]]
        /\ j.sums = [c \in 1..ch |-> 0] /\ j.ring_pos = 0 /\ j.taps = k.taps
    BY <1>1 DEF AverageCleared
  <1> HIDE DEF j
  <1>3. \A c \in 1..ch : j.sums[c] = 0 /\ \A i \in 0..(j.taps - 1) : j.rings[c][i] = 0
    BY <1>2
  <1>. QED
    BY <1>2, <1>3 DEF Fresh, j

\* and random generators begun again.
LEMMA RngsFresh ==
  ASSUME NEW kind_ \in {"noise", "dither"}, NEW ch \in Nat, NEW j,
         j.rngs = RngsNew(j.seed, ch)
  PROVE  Fresh(kind_, j, ch)
  <1>1. \A c \in 1..ch : j.rngs[c] = RngNew(ChannelSeed(j.seed, c))
    BY DEF RngsNew
  <1>. QED
    BY <1>1 DEF Fresh

\* A prepare makes the kernel's state fresh,
LEMMA PreparedFresh ==
  ASSUME kind \in KernelKinds, Formed(kind, kernel), NEW spec, spec.channels \in Nat,
         Ready(kind, KernelPrepared(spec))
  PROVE  Fresh(kind, KernelPrepared(spec), spec.channels)
  <1> DEFINE ch == spec.channels
             l == KernelPrepared(spec)
  <1>1. CASE kind = "average"
    <2>1. l = AverageCleared(kernel, ch)
      BY <1>1 DEF KernelPrepared, AveragePrepared
    <2>. QED
      BY <1>1, <2>1, AverageFresh
  <1>2. CASE kind = "dc_blocker"
    <2> DEFINE j == [kernel EXCEPT !.fs = spec.sample_rate, !.state = DcRest(spec.channels),
                                   !.tail_bound = DcTailBound(spec.sample_rate)]
    <2>1. l = DcResetFlush(j)
      BY <1>2 DEF KernelPrepared, DcPrepared
    <2>2. {"params", "fs", "state", "flush_r", "tail_bound", "flushed"} \subseteq DOMAIN kernel
      BY <1>2, SMT DEF Formed
    <2>3. /\ {"params", "fs", "state", "flush_r", "flushed"} \subseteq DOMAIN j
          /\ j.state = DcRest(ch) /\ j.params = kernel.params
      BY <2>2
    <2>4. l.fs > 0
      <3>1. l.fs \in Nat \ {0}
        BY <1>2, Zenon DEF Ready
      <3>. QED
        BY <3>1
    <2> HIDE DEF j, l, ch
    <2>5. Fresh("dc_blocker", l, ch)
      <3>1. ch \in Nat /\ Formed("dc_blocker", kernel)
        BY <1>2 DEF ch
      <3>. QED
        BY <2>1, <2>3, <2>4, <3>1, DcFresh
    <2>. QED
      BY <1>2, <2>5 DEF l, ch
  <1>3. CASE kind = "biquad"
    <2> DEFINE j == [kernel EXCEPT !.fs = spec.sample_rate, !.state = BiquadRest(spec.channels),
                                   !.tail_bound = BiquadTailBound(kernel, spec.sample_rate)]
    <2>1. l = BiquadResetFlush(j)
      BY <1>3 DEF KernelPrepared, BiquadPrepared
    <2>2. {"kind", "params", "fs", "state", "flush_coeffs", "tail_bound", "flushed"}
            \subseteq DOMAIN kernel
      BY <1>3, SMT DEF Formed
    <2>3. /\ {"kind", "params", "fs", "state", "flush_coeffs", "flushed"} \subseteq DOMAIN j
          /\ j.state = BiquadRest(ch)
      BY <2>2
    <2>4. l.fs > 0
      <3>1. l.fs \in Nat /\ l.fs >= 3
        BY <1>3, Zenon DEF Ready
      <3>. QED
        BY <3>1
    <2> HIDE DEF j, l, ch
    <2>5. Fresh("biquad", l, ch)
      <3>1. ch \in Nat
        BY DEF ch
      <3>. QED
        BY <2>1, <2>3, <2>4, <3>1, BiquadFresh
    <2>. QED
      BY <1>3, <2>5 DEF l, ch
  <1>4. CASE kind = "dynamics"
    <2>1. l = DynamicsPrepared(kernel, spec) /\ {"fs", "atk", "rel", "env"} \subseteq DOMAIN kernel
      BY <1>4, SMT DEF KernelPrepared, Formed
    <2>2. l.env = 0
      BY <2>1 DEF DynamicsPrepared
    <2>. QED
      BY <1>4, <2>2 DEF Fresh
  <1>5. CASE kind = "oscillator"
    <2>1. l = OscillatorPrepared(kernel, spec) /\ {"fs", "phase"} \subseteq DOMAIN kernel
      BY <1>5, SMT DEF KernelPrepared, Formed
    <2>2. l.phase = 0
      BY <2>1 DEF OscillatorPrepared
    <2>. QED
      BY <1>5, <2>2 DEF Fresh
  <1>6. CASE kind \in {"noise", "dither"}
    <2>1. /\ kind = "noise" => l = NoisePrepared(kernel, spec)
          /\ kind = "dither" => l = DitherPrepared(kernel, spec)
          /\ {"seed", "rngs"} \subseteq DOMAIN kernel
      BY <1>6, SMT DEF KernelPrepared, Formed
    <2>2. l.rngs = RngsNew(l.seed, ch)
      BY <1>6, <2>1 DEF NoisePrepared, DitherPrepared
    <2>. QED
      BY <1>6, <2>2, RngsFresh
  <1>7. CASE kind \in {"gain", "scale", "dc_offset", "custom"}
    BY <1>7 DEF Fresh
  <1>. QED
    BY <1>1, <1>2, <1>3, <1>4, <1>5, <1>6, <1>7 DEF KernelKinds

\* and so does a reset, where it has been prepared.
LEMMA ResetFresh ==
  ASSUME kind \in KernelKinds, Formed(kind, kernel), NEW ch \in Nat, Shaped(kind, kernel, ch),
         Ready(kind, KernelReset) \/ kind = "average"
  PROVE  Fresh(kind, KernelReset, ch)
  <1> DEFINE l == KernelReset
  <1>1. CASE kind = "average"
    <2>1. DOMAIN kernel.sums = 1..ch
      BY <1>1 DEF Shaped
    <2>2. Len(kernel.sums) = ch
      BY <2>1, Length
    <2>3. l = AverageCleared(kernel, ch)
      BY <1>1, <2>2 DEF KernelReset, AverageReset
    <2>. QED
      BY <1>1, <2>3, AverageFresh
  <1>2. CASE kind = "dc_blocker"
    <2> DEFINE j == [kernel EXCEPT !.state = DcRest(Len(@))]
    <2>1. l = DcResetFlush(j)
      BY <1>2 DEF KernelReset, DcReset
    <2>2. {"params", "fs", "state", "flush_r", "tail_bound", "flushed"} \subseteq DOMAIN kernel
      BY <1>2, SMT DEF Formed
    <2>3. DOMAIN kernel.state = 1..ch
      BY <1>2 DEF Shaped, Filters
    <2>4. Len(kernel.state) = ch
      BY <2>3, Length
    <2>5. /\ {"params", "fs", "state", "flush_r", "flushed"} \subseteq DOMAIN j
          /\ j.state = DcRest(ch) /\ j.params = kernel.params
      BY <2>2, <2>4
    <2>6. l.fs > 0
      <3>1. l.fs \in Nat \ {0}
        BY <1>2, Zenon DEF Ready
      <3>. QED
        BY <3>1
    <2> HIDE DEF j, l
    <2>7. Fresh("dc_blocker", l, ch)
      <3>1. Formed("dc_blocker", kernel)
        BY <1>2
      <3>. QED
        BY <2>1, <2>5, <2>6, <3>1, DcFresh
    <2>. QED
      BY <1>2, <2>7 DEF l
  <1>3. CASE kind = "biquad"
    <2> DEFINE j == [kernel EXCEPT !.state = BiquadRest(Len(@))]
    <2>1. l = BiquadResetFlush(j)
      BY <1>3 DEF KernelReset, BiquadReset
    <2>2. {"kind", "params", "fs", "state", "flush_coeffs", "tail_bound", "flushed"}
            \subseteq DOMAIN kernel
      BY <1>3, SMT DEF Formed
    <2>3. DOMAIN kernel.state = 1..ch
      BY <1>3 DEF Shaped, Filters
    <2>4. Len(kernel.state) = ch
      BY <2>3, Length
    <2>5. /\ {"kind", "params", "fs", "state", "flush_coeffs", "flushed"} \subseteq DOMAIN j
          /\ j.state = BiquadRest(ch)
      BY <2>2, <2>4
    <2>6. l.fs > 0
      <3>1. l.fs \in Nat /\ l.fs >= 3
        BY <1>3, Zenon DEF Ready
      <3>. QED
        BY <3>1
    <2> HIDE DEF j, l
    <2>7. Fresh("biquad", l, ch)
      BY <2>1, <2>5, <2>6, BiquadFresh
    <2>. QED
      BY <1>3, <2>7 DEF l
  <1>4. CASE kind = "dynamics"
    <2>1. l = DynamicsReset(kernel) /\ "env" \in DOMAIN kernel
      BY <1>4, SMT DEF KernelReset, Formed
    <2>2. l.env = 0
      BY <2>1 DEF DynamicsReset
    <2>. QED
      BY <1>4, <2>2 DEF Fresh
  <1>5. CASE kind = "oscillator"
    <2>1. l = OscillatorReset(kernel) /\ "phase" \in DOMAIN kernel
      BY <1>5, SMT DEF KernelReset, Formed
    <2>2. l.phase = 0
      BY <2>1 DEF OscillatorReset
    <2>. QED
      BY <1>5, <2>2 DEF Fresh
  <1>6. CASE kind \in {"noise", "dither"}
    <2>1. l = RngsReset(kernel) /\ {"seed", "rngs"} \subseteq DOMAIN kernel
      BY <1>6, SMT DEF KernelReset, Formed
    <2>2. DOMAIN kernel.rngs = 1..ch
      BY <1>6 DEF Shaped
    <2>3. Len(kernel.rngs) = ch
      BY <2>2, Length
    <2>4. l.rngs = RngsNew(l.seed, ch)
      BY <2>1, <2>3 DEF RngsReset
    <2>. QED
      BY <1>6, <2>4, RngsFresh
  <1>7. CASE kind \in {"gain", "scale", "dc_offset", "custom"}
    BY <1>7 DEF Fresh
  <1>. QED
    BY <1>1, <1>2, <1>3, <1>4, <1>5, <1>6, <1>7 DEF KernelKinds

\* A constructed one that needs no prepare is fresh.
LEMMA ConstructedFresh ==
  ASSUME NEW kind_ \in KernelKinds, NEW k, Constructed(kind_, k),
         Ready(kind_, k) \/ kind_ = "average"
  PROVE  Fresh(kind_, k, 0)
  <1> DEFINE zero == 0
  <1>0. 1..zero = {}
    OBVIOUS
  <1> HIDE DEF zero
  <1>1. CASE kind_ = "average"
    <2>1. k = AverageNew(k.taps)
      BY <1>1, Zenon DEF Constructed
    <2>2. PICK taps : k = AverageNew(taps)
      BY <2>1
    <2>3. k.ring_pos = 0
      BY <2>2 DEF AverageNew
    <2>4. Fresh(kind_, k, zero)
      BY <1>0, <1>1, <2>3 DEF Fresh
    <2>. QED
      BY <2>4 DEF zero
  <1>2. CASE kind_ = "dc_blocker"
    <2>1. PICK s : k = DcNew(s)
      BY <1>2, Zenon DEF Constructed
    <2>2. k.fs = 0
      BY <2>1 DEF DcNew
    <2>. QED
      BY <1>2, <2>2 DEF Ready
  <1>3. CASE kind_ = "biquad"
    <2>1. PICK s : k = BiquadNew(s)
      BY <1>3, Zenon DEF Constructed
    <2>2. k.fs = 0
      BY <2>1 DEF BiquadNew
    <2>. QED
      BY <1>3, <2>2 DEF Ready
  <1>4. CASE kind_ = "dynamics"
    <2>1. PICK s : k = DynamicsNew(s)
      BY <1>4, Zenon DEF Constructed
    <2>2. k.atk = 0
      BY <2>1 DEF DynamicsNew
    <2>. QED
      BY <1>4, <2>2 DEF Ready, Runnable
  <1>5. CASE kind_ = "oscillator"
    <2>1. PICK s : k = OscillatorNew(s)
      BY <1>5, Zenon DEF Constructed
    <2>2. k.fs = 0
      BY <2>1 DEF OscillatorNew
    <2>. QED
      BY <1>5, <2>2 DEF Ready, Runnable
  <1>6. CASE kind_ \in {"noise", "dither"}
    <2>1. Fresh(kind_, k, zero)
      BY <1>0, <1>6 DEF Fresh
    <2>. QED
      BY <2>1 DEF zero
  <1>7. CASE kind_ \in {"gain", "scale", "dc_offset", "custom"}
    BY <1>7 DEF Fresh
  <1>. QED
    BY <1>1, <1>2, <1>3, <1>4, <1>5, <1>6, <1>7 DEF KernelKinds

\* What a drain goes on with is the parameters of the last frame.
LEMMA LastIs ==
  ASSUME NEW m \in Nat, DOMAIN fed.p = 1..m, m = 0 => fed.p = <<>>
  PROVE  LastOf(fed.p) = IF m = 0 THEN [i \in DOMAIN ParamInfo |-> ParamInfo[i].default]
                         ELSE fed.p[m]
  <1>1. CASE m = 0
    BY <1>1 DEF LastOf
  <1>2. CASE m # 0
    <2>1. fed.p # <<>>
      <3>1. 1 \in DOMAIN fed.p
        BY <1>2
      <3>2. DOMAIN <<>> = {}
        OBVIOUS
      <3>. QED
        BY <3>1, <3>2
    <2>2. Len(fed.p) = m
      BY Length
    <2>. QED
      BY <1>2, <2>1, <2>2 DEF LastOf, Last
  <1>. QED
    BY <1>1, <1>2

\* What the history tells of the kernel after its m-th frame, if it can be run.
Told(ch, m) ==
  /\ DOMAIN fed = {"x", "sidechain", "p"}
  /\ Chronicle(kind, kernel, fed, ch, m)
  /\ m = 0 => fed.p = <<>>
  /\ \A i \in 1..m : Vetted(ParamInfo, fed.p[i])

\* What is played after the last frame is a value that the parameters may have.
LEMMA LastVetted ==
  ASSUME NEW ch, NEW m \in Nat, Told(ch, m), Ready(kind, kernel)
  PROVE  Vetted(ParamInfo, LastOf(fed.p)) /\ ParamInfo = InfoOf(kernel)
  <1>1. ParamInfo = InfoOf(kernel)
    BY DEF ParamInfo, InfoOf
  <1>2. DOMAIN fed.p = 1..m /\ (m = 0 => fed.p = <<>>)
    BY DEF Told, Chronicle
  <1>3. CASE m = 0
    <2>1. LastOf(fed.p) = [i \in DOMAIN ParamInfo |-> ParamInfo[i].default]
      BY <1>2, <1>3, LastIs
    <2>2. ValidParams(ParamInfo)
      <3>1. ValidParams(NoParams)
        BY DEF ValidParams, NoParams
      <3>. QED
        BY <3>1 DEF Ready, ParamInfo
    <2>. QED
      BY <1>1, <2>1, <2>2, DefaultsVetted
  <1>4. CASE m # 0
    <2>1. LastOf(fed.p) = fed.p[m]
      BY <1>2, <1>4, LastIs
    <2>2. m \in 1..m
      BY <1>4
    <2>. QED
      BY <1>1, <2>1, <2>2 DEF Told
  <1>. QED
    BY <1>3, <1>4

\* A call of flush makes of the silence it is given what the history has there.
DrainRight(ch, m, h, f) ==
  /\ Right(kind, f.kernel, h, ch, m + f.frames)
  /\ Gives(kind, kernel, h, ch, m, f.frames, f.out)

\* It does,
LEMMA AverageDrains ==
  ASSUME kind = "average", Formed(kind, kernel), Runnable(kind, kernel), NEW ch \in Nat,
         Shaped(kind, kernel, ch), NEW m \in Nat, NEW h, NEW room \in Nat, NEW slip \in -1..1,
         NEW f, f = AverageFlush(kernel, room, slip), NEW n \in Nat, n = f.frames,
         AllFeed(Silence(ch, n), h.x, ch, m, n), Right(kind, kernel, h, ch, m)
  PROVE  DrainRight(ch, m, h, f)
  <1> DEFINE x == h.x
             planes == Silence(ch, n)
             r == AverageRun(kernel, planes, slip)
  <1>1. DOMAIN kernel.sums = 1..ch
    BY DEF Shaped
  <1>2. Len(kernel.sums) = ch
    BY <1>1, Length
  <1>3. n = AverageWant(kernel, room)
    BY DEF AverageFlush
  <1>4. f.kernel = [r.kernel EXCEPT !.flushed = @ + n] /\ f.out = r.out
    BY <1>2, <1>3 DEF AverageFlush
  <1>5. /\ Formed("average", kernel) /\ Runnable("average", kernel) /\ Shaped("average", kernel, ch)
        /\ x = h.x /\ AllFeed(planes, x, ch, m, n) /\ Right("average", kernel, h, ch, m)
        /\ r = AverageRun(kernel, planes, slip)
    OBVIOUS
  <1> HIDE DEF x, planes, r
  <1>6. Right("average", r.kernel, h, ch, m + n) /\ Gives("average", kernel, h, ch, m, n, r.out)
    BY <1>5, AverageRunRight
  <1>7. Holds(kernel, r.kernel)
    BY <1>5, AverageKeeps
  <1>8. {"taps", "rings", "sums", "ring_pos", "flushed"} = DOMAIN r.kernel
    BY <1>7 DEF Holds, Keeps, Formed
  <1>9. /\ f.kernel.taps = r.kernel.taps /\ f.kernel.rings = r.kernel.rings
        /\ f.kernel.sums = r.kernel.sums /\ f.kernel.ring_pos = r.kernel.ring_pos
    BY <1>4, <1>8
  <1>10. AveragesRight(r.kernel, h.x, ch, m + n)
    BY <1>6 DEF Right
  <1>11. AveragesRight(f.kernel, h.x, ch, m + n)
    BY <1>9, <1>10 DEF AveragesRight
  <1>. QED
    BY <1>4, <1>6, <1>11 DEF DrainRight, Right, Filters

\* and so does a filter's,
LEMMA FilterDrainRight ==
  ASSUME kind \in Filters, Formed(kind, kernel), Made(kind, kernel), Ready(kind, kernel),
         NEW ch \in Nat, Shaped(kind, kernel, ch), NEW m \in Nat, Told(ch, m), NEW h,
         Right(kind, kernel, fed, ch, m), Right(kind, kernel, h, ch, m),
         NEW room \in Nat, NEW slip, NEW f, f = KernelFlush(room, slip),
         NEW n \in Nat, n = f.frames, AllFeed(Silence(ch, n), h.x, ch, m, n),
         \A i \in 1..n : h.p[m + i] = LastOf(fed.p)
  PROVE  DrainRight(ch, m, h, f)
  <1> DEFINE g == FlushOf(kind, kernel)
  <1>1. FilterDrains(kind, kernel, f)
    <2>1. f = IF kind = "dc_blocker" THEN DcFlush(kernel, room) ELSE BiquadFlush(kernel, room)
      BY DEF KernelFlush, Filters
    <2>. QED
      BY <2>1, FilterDrainIs
  <1>2. Holds(kernel, f.kernel)
    BY FlushKeeps
  <1>3. DOMAIN fed.p = 1..m /\ (m = 0 => fed.p = <<>>)
    BY DEF Told, Chronicle
  <1>4. /\ kind = "dc_blocker" => DOMAIN kernel.params = 1..1
        /\ kind = "biquad" => DOMAIN kernel.params = 1..3
    BY DEF Made
  <1>5. "params" \in DOMAIN kernel /\ ParamInfo = kernel.params
    BY SMT DEF Formed, Filters, ParamInfo
  <1>6. LastOf(fed.p) = LastAt(kernel, fed, m)
    BY <1>3, <1>5, LastIs DEF LastAt
  <1>7. g = FilterOf(kind, kernel, LastOf(fed.p))
    <2>1. StatesRight(kind, kernel, fed, ch, m)
      BY DEF Right
    <2>2. kind = "dc_blocker" => 1 \in DOMAIN kernel.params /\ Finite(kernel.params[1].default)
      <3>1. ASSUME kind = "dc_blocker"
            PROVE  1 \in DOMAIN kernel.params /\ Finite(kernel.params[1].default)
        <4>1. 1 \in DOMAIN kernel.params
          BY <1>4, <3>1
        <4>2. ValidParams(kernel.params)
          BY <1>5, Zenon DEF Ready
        <4>. QED
          BY <4>1, <4>2 DEF ValidParams, ValidParam
      <3>. QED
        BY <3>1
    <2>3. FlushOf(kind, kernel) = FilterOf(kind, kernel, LastAt(kernel, fed, m))
      BY <1>4, <2>1, <2>2, FlushIsLast
    <2>. QED
      BY <1>6, <2>3
  <1>8. Works(kind, g)
    <2>1. Vetted(InfoOf(kernel), LastOf(fed.p))
      BY LastVetted
    <2>2. Steers(kind, kernel, LastOf(fed.p))
      BY <2>1, SteersVetted
    <2>. QED
      BY <1>7, <2>2 DEF Steers
  <1>9. FilteredBy(kind, kernel, h, g, m, n)
    BY <1>7, Zenon DEF FilteredBy
  <1>10. g = FlushOf(kind, kernel)
    OBVIOUS
  <1> HIDE DEF g
  <1>. QED
    BY <1>1, <1>2, <1>8, <1>9, <1>10, FilterFlushRight DEF DrainRight

\* and so do the others', which have nothing to drain.
LEMMA NothingDrains ==
  ASSUME kind \in KernelKinds \ Drained, NEW ch \in Nat, prepared.channels = ch,
         NEW m \in Nat, NEW h, Right(kind, kernel, h, ch, m),
         NEW room, NEW slip, NEW f, f = KernelFlush(room, slip)
  PROVE  DrainRight(ch, m, h, f) /\ f.frames = 0
  <1>1. f = [kernel |-> kernel, out |-> Silence(ch, 0), frames |-> 0, done |-> TRUE]
    BY DEF KernelFlush, NoFlush, Drained, Filters
  <1>2. f.kernel = kernel /\ f.out = Silence(ch, 0) /\ f.frames = 0 /\ m + f.frames = m
    BY <1>1
  <1>3. Right(kind, f.kernel, h, ch, m + f.frames)
    BY <1>2
  <1>4. Gives(kind, kernel, h, ch, m, f.frames, f.out)
    <2> DEFINE zero == 0
    <2>1. DOMAIN Silence(ch, zero) = 1..ch /\ \A c \in 1..ch : DOMAIN Silence(ch, zero)[c] = 1..zero
      BY DEF Silence
    <2>2. 1..zero = {}
      OBVIOUS
    <2>3. f.frames = zero /\ f.out = Silence(ch, zero)
      BY <1>2
    <2> HIDE DEF zero
    <2>. QED
      BY <2>1, <2>2, <2>3 DEF Gives
  <1>. QED
    BY <1>2, <1>3, <1>4 DEF DrainRight

-----------------------------------------------------------------------------
(* The history's invariant. *)

\* The frames that an average's drain has given were silence.
Quiet(kind_, k, h, ch, m) ==
  kind_ = "average" => \A c \in 1..ch, i \in 0..(k.flushed - 1) : At(h.x, c, m - i) = 0

\* Every level that a detector has heard has a logarithm, and so have those below.
Audible(kind_, k, h, m) ==
  kind_ = "dynamics" =>
    \A i \in 1..m : Level(HeardBy(k, h), i) \in Nat /\ Heeded(Level(HeardBy(k, h), i))

\* The history h of m frames of ch channels is one that a kernel may have.
Historic(kind_, k, h, ch, m) ==
  /\ DOMAIN h = {"x", "sidechain", "p"}
  /\ Chronicle(kind_, k, h, ch, m)
  /\ m = 0 => h.p = <<>>
  /\ \A i \in 1..m : Vetted(InfoOf(k), h.p[i])
  /\ Audible(kind_, k, h, m)
  /\ kind_ = "dither" => m = 0 \/ m <= MaxFrames[kind_]

\* The kernel is what it has made of that history, where it can be run.
Reflects(kind_, k, h, ch, m) ==
  /\ Shaped(kind_, k, ch)
  /\ Ready(kind_, k) \/ ch = 0
  /\ Ready(kind_, k) \/ kind_ = "average" => Right(kind_, k, h, ch, m)
  /\ Quiet(kind_, k, h, ch, m)

\* And so is what was last written.
Wrote(kind_, k, h, ch, m, planes) ==
  planes # <<>> =>
    ch \in 1..MaxChannels /\ \E n \in 0..m : Gives(kind_, k, h, ch, m - n, n, planes)

TrueTo(ch, m) ==
  /\ Historic(kind, kernel, fed, ch, m)
  /\ Reflects(kind, kernel, fed, ch, m)
  /\ Wrote(kind, kernel, fed, ch, m, out)
  /\ prepared # NotPrepared => prepared.channels = ch /\ Ready(kind, kernel)

HistoryInv == \E ch \in Nat, m \in Nat : TrueTo(ch, m)

\* A history begins with nothing,
LEMMA HistoryBegins ==
  ASSUME NEW kind_ \in KernelKinds, NEW k, Formed(kind_, k), NEW ch \in Nat,
         Shaped(kind_, k, ch), Ready(kind_, k) \/ ch = 0,
         Ready(kind_, k) \/ kind_ = "average" => Fresh(kind_, k, ch),
         NEW h, h = Nothing(ch)
  PROVE  Historic(kind_, k, h, ch, 0) /\ Reflects(kind_, k, h, ch, 0)
  <1> DEFINE zero == 0
  <1>1. Chronicle(kind_, k, h, ch, zero)
    BY NothingHeard
  <1>2. DOMAIN h = {"x", "sidechain", "p"} /\ h.p = <<>>
    BY DEF Nothing
  <1>3. zero \in Nat /\ 1..zero = {} /\ zero = 0
    OBVIOUS
  <1>4. Ready(kind_, k) \/ kind_ = "average" => Right(kind_, k, h, ch, zero)
    BY FreshRight DEF Ready
  <1>5. Quiet(kind_, k, h, ch, zero)
    <2>1. CASE kind_ # "average"
      BY <2>1, Zenon DEF Quiet
    <2>2. CASE kind_ = "average"
      <3>1. \A i \in 0..(k.flushed - 1) : zero - i < 1
        BY SMT
      <3>2. \A c \in 1..ch, i \in 0..(k.flushed - 1) : At(h.x, c, zero - i) = 0
        BY <3>1, Zenon DEF At
      <3>. QED
        BY <3>2, Zenon DEF Quiet
    <2>. QED
      BY <2>1, <2>2
  <1> HIDE DEF zero
  <1>6. Audible(kind_, k, h, zero)
    BY <1>3, Zenon DEF Audible
  <1>7. Historic(kind_, k, h, ch, zero)
    BY <1>1, <1>2, <1>3, <1>6, Zenon DEF Historic
  <1>8. Reflects(kind_, k, h, ch, zero)
    BY <1>4, <1>5, Zenon DEF Reflects
  <1>. QED
    BY <1>7, <1>8 DEF zero

\* as the processor does.
LEMMA HistoryInit == Init => HistoryInv
  <1> SUFFICES ASSUME Init PROVE HistoryInv
    OBVIOUS
  <1>1. PICK k \in Kernels : kind = k.kind /\ kernel = k.kernel
    BY DEF Init
  <1>2. kind \in KernelKinds /\ Constructed(kind, kernel)
    BY <1>1, HostAssumption
  <1>3. Formed(kind, kernel)
    BY <1>2, ConstructedFormed
  <1>4. Shaped(kind, kernel, 0)
    BY <1>2, ConstructedShaped
  <1>5. Ready(kind, kernel) \/ kind = "average" => Fresh(kind, kernel, 0)
    BY <1>2, ConstructedFresh
  <1>6. fed = Nothing(0) /\ out = <<>> /\ prepared = NotPrepared
    BY DEF Init
  <1> DEFINE zero == 0
  <1>7. zero \in Nat /\ zero = 0
    OBVIOUS
  <1> HIDE DEF zero
  <1>8. Historic(kind, kernel, fed, zero, 0) /\ Reflects(kind, kernel, fed, zero, 0)
    BY <1>2, <1>3, <1>4, <1>5, <1>6, <1>7, HistoryBegins
  <1>9. Wrote(kind, kernel, fed, zero, 0, out)
    BY <1>6, Zenon DEF Wrote
  <1>10. TrueTo(zero, zero)
    BY <1>6, <1>7, <1>8, <1>9, Zenon DEF TrueTo
  <1>. QED
    BY <1>7, <1>10 DEF HistoryInv

\* A prepare keeps the history or begins another,
LEMMA HistoryPrepare ==
  ASSUME KernelInv, HistoryInv, NEW spec \in Specs[kind], Prepare(spec)
  PROVE  HistoryInv'
  <1>1. kind \in KernelKinds /\ Formed(kind, kernel) /\ Askable(spec) /\ kind' = kind
    BY SteadyFormed DEF KernelInv, Prepare
  <1>2. ASSUME NEW why, PrepareRefused(why)
        PROVE  HistoryInv'
    <2>1. kernel' = kernel /\ fed' = fed /\ out' = out /\ prepared' = NotPrepared
      BY <1>2, Zenon DEF PrepareRefused, Refuse, history
    <2>2. PICK ch \in Nat, m \in Nat : TrueTo(ch, m)
      BY DEF HistoryInv
    <2>3. /\ Historic(kind', kernel', fed', ch, m) /\ Reflects(kind', kernel', fed', ch, m)
          /\ Wrote(kind', kernel', fed', ch, m, out')
      BY <1>1, <2>1, <2>2 DEF TrueTo
    <2>4. NotPrepared' = NotPrepared
      BY DEF NotPrepared
    <2>5. TrueTo(ch, m)'
      BY <2>1, <2>3, <2>4 DEF TrueTo
    <2>. QED
      BY <2>5 DEF HistoryInv
  <1>3. ASSUME PrepareKernel(spec), NEW cap, KernelAnswer(spec, cap) = "Ok", ValidParams(ParamInfo)
        PROVE  HistoryInv'
    <2> DEFINE k == KernelPrepared(spec)
               ch == spec.channels
    <2>1. /\ kernel' = k /\ fed' = Nothing(ch) /\ out' = <<>>
          /\ prepared' = NotPrepared \/ prepared'.channels = ch
      <3>1. /\ kernel' = k /\ fed' = Nothing(ch) /\ out' = <<>>
            /\ \/ prepared' = NotPrepared
               \/ prepared' = [channels |-> ch, io_mode |-> IoMode,
                               sidechain_inputs |-> SidechainInputs, max_block |-> spec.max_block]
        BY <1>3, Zenon DEF PrepareKernel, Forget, Refuse
      <3>. QED
        BY <3>1
    <2>2. Shaped(kind, k, ch)
      BY <1>3, PreparedShaped DEF KernelInv
    <2>3. Ready(kind, k)
      BY <1>3, PreparedReady DEF KernelInv
    <2>4. Keeps(kernel, k) /\ Formed(kind, k)
      BY <1>1, PreparedKeeps, KeepsFormed
    <2>5. ch \in Nat
      BY <1>1 DEF Askable
    <2>6. Fresh(kind, k, ch)
      BY <1>1, <2>3, <2>5, PreparedFresh
    <2> HIDE DEF k, ch
    <2> DEFINE zero == 0
               h == fed'
    <2>7. zero \in Nat /\ zero = 0 /\ h = Nothing(ch)
      BY <2>1
    <2> HIDE DEF zero, h
    <2>8. Historic(kind, k, h, ch, 0) /\ Reflects(kind, k, h, ch, 0)
      BY <1>1, <2>2, <2>3, <2>4, <2>5, <2>6, <2>7, HistoryBegins
    <2>9. Wrote(kind, k, h, ch, 0, out')
      BY <2>1, Zenon DEF Wrote
    <2>10. NotPrepared' = NotPrepared
      BY DEF NotPrepared
    <2>11. TrueTo(ch, zero)'
      BY <1>1, <2>1, <2>3, <2>7, <2>8, <2>9, <2>10 DEF TrueTo, h
    <2>. QED
      BY <2>5, <2>7, <2>11 DEF HistoryInv
  <1>4. CASE \E why : PrepareRefused(why)
    BY <1>2, <1>4
  <1>5. CASE /\ PrepareKernel(spec) /\ KernelAnswer(spec, Remainder(spec.max_memory)) = "Ok"
             /\ ValidParams(ParamInfo)
    BY <1>3, <1>5
  <1>. QED
    BY <1>4, <1>5, Zenon DEF Prepare

\* and a reset begins it again.
LEMMA HistoryReset ==
  ASSUME KernelInv, HistoryInv, Reset
  PROVE  HistoryInv'
  <1>1. kind \in KernelKinds /\ Formed(kind, kernel)
    BY SteadyFormed DEF KernelInv
  <1>2. PICK ch \in Nat, m \in Nat : TrueTo(ch, m)
    BY DEF HistoryInv
  <1>3. DOMAIN fed.x = 1..ch
    BY <1>2 DEF TrueTo, Historic, Chronicle, Sampled
  <1>4. Len(fed.x) = ch
    BY <1>3, Length
  <1> DEFINE k == KernelReset
  <1>5. /\ kernel' = k /\ kind' = kind /\ fed' = Nothing(ch) /\ out' = <<>>
        /\ prepared' = prepared
    BY <1>4, Zenon DEF Reset, Forget
  <1>6. Shaped(kind, kernel, ch) /\ (Ready(kind, kernel) \/ ch = 0)
    BY <1>2 DEF TrueTo, Reflects
  <1>7. Shaped(kind, k, ch)
    BY <1>1, <1>6, ResetShaped
  <1>8. Holds(kernel, k) /\ Formed(kind, k)
    BY <1>1, PreparedKeeps, KeepsFormed DEF Holds
  <1>9. Ready(kind, kernel) => Ready(kind, k)
    <2> HIDE DEF k
    <2>. QED
      BY <1>1, <1>8, HoldsReady
  <1>10. Ready(kind, k) \/ kind = "average" => Fresh(kind, k, ch)
    BY <1>1, <1>6, ResetFresh
  <1> HIDE DEF k
  <1> DEFINE zero == 0
             h == fed'
  <1>11. zero \in Nat /\ zero = 0 /\ h = Nothing(ch)
    BY <1>5
  <1> HIDE DEF zero, h
  <1>12. Historic(kind, k, h, ch, 0) /\ Reflects(kind, k, h, ch, 0)
    BY <1>1, <1>6, <1>7, <1>8, <1>9, <1>10, <1>11, HistoryBegins
  <1>13. Wrote(kind, k, h, ch, 0, out')
    BY <1>5, Zenon DEF Wrote
  <1>14. NotPrepared' = NotPrepared
    BY DEF NotPrepared
  <1>15. TrueTo(ch, zero)'
    BY <1>2, <1>5, <1>9, <1>11, <1>12, <1>13, <1>14 DEF TrueTo, h
  <1>. QED
    BY <1>11, <1>15 DEF HistoryInv

-----------------------------------------------------------------------------
(* Blocks and drains. *)

\* A sample whose level has a logarithm, as those below have.
HeededSample(x) == FiniteOrZero(x) \in Int /\ Heeded(FiniteOrZero(x))

\* So have the levels of frames of such samples.
LEMMA LevelHeeded ==
  ASSUME NEW m \in Nat, NEW planes, DOMAIN planes = 1..m, NEW i,
         \A c \in 1..m : HeededSample(planes[c][i])
  PROVE  Level(planes, i) \in Nat /\ Heeded(Level(planes, i))
  <1> DEFINE S == {Magnitude(FiniteOrZero(planes[c][i])) : c \in DOMAIN planes}
             all == {0} \cup S
  <1>1. \A c \in 1..m : FiniteOrZero(planes[c][i]) \in Int /\ Heeded(FiniteOrZero(planes[c][i]))
    BY DEF HeededSample
  <1>2. Level(planes, i) \in Nat
    BY <1>1, LevelTyped
  <1>3. ASSUME NEW x \in Int, Heeded(x)
        PROVE  Magnitude(x) \in Nat /\ 1..Magnitude(x) \subseteq DOMAIN Ln
    BY <1>3 DEF Magnitude, Heeded
  <1>4. \A s \in all : s \in Nat /\ 1..s \subseteq DOMAIN Ln
    <2>1. \A s \in S : s \in Nat /\ 1..s \subseteq DOMAIN Ln
      BY <1>1, <1>3
    <2>2. 1..0 = {}
      OBVIOUS
    <2> HIDE DEF S
    <2>. QED
      BY <2>1, <2>2
  <1>5. IsFiniteSet(all)
    <2>1. IsFiniteSet(1..m)
      BY FS_Interval
    <2> DEFINE f == [c \in 1..m |-> Magnitude(FiniteOrZero(planes[c][i]))]
    <2>2. f \in Surjection(1..m, S)
      BY DEF Surjection
    <2> HIDE DEF f, S
    <2>3. IsFiniteSet(S)
      BY <2>1, <2>2, FS_Surjection
    <2>. QED
      BY <2>3, FS_Singleton, FS_Union
  <1>6. Level(planes, i) = Max(all)
    BY DEF Level
  <1>7. all # {}
    OBVIOUS
  <1> HIDE DEF all
  <1>8. Max(all) \in all
    <2>1. all \subseteq Int
      BY <1>4
    <2>. QED
      BY <1>5, <1>7, <2>1, MaxIn
  <1> DEFINE level == Level(planes, i)
  <1>9. level \in Nat /\ 1..level \subseteq DOMAIN Ln
    BY <1>4, <1>6, <1>8
  <1> HIDE DEF level
  <1>10. Heeded(level)
    BY <1>9 DEF Heeded, Magnitude
  <1>. QED
    BY <1>9, <1>10 DEF level

\* What a host plays to a detector.
LEMMA ContextAudible ==
  ASSUME kind = "dynamics", Formed(kind, kernel), Samples[kind] \subseteq Int \cup {NotFinite},
         \A x \in Samples[kind] : Finite(x) => Heeded(x),
         NEW ch \in Nat, prepared.channels = ch, prepared.io_mode = IoMode,
         prepared.sidechain_inputs = SidechainInputs,
         NEW n \in Nat, NEW ctx \in Contexts(n), HonorsContract(ctx), ctx.frames # 0,
         NEW heard, heard = IF kernel.use_sidechain THEN ctx.sidechain[1] ELSE ctx.main.planes
  PROVE  \A i \in 1..n : Level(heard, i) \in Nat /\ Heeded(Level(heard, i))
  <1>1. IoMode = "InPlace" /\ SidechainInputs = IF kernel.use_sidechain THEN 1 ELSE 0
    BY DEF IoMode, SidechainInputs
  <1>2. ASSUME NEW o \in Nat, NEW x \in Planes(o, n), NEW i \in 1..n
        PROVE  Level(x, i) \in Nat /\ Heeded(Level(x, i))
    <2>1. DOMAIN x = 1..o /\ \A c \in 1..o : x[c][i] \in Samples[kind]
      BY <1>2 DEF Planes
    <2>2. ASSUME NEW s \in Samples[kind] PROVE HeededSample(s)
      <3>1. FiniteOrZero(s) \in Int
        BY ParameterAssumption DEF FiniteOrZero, Finite
      <3>2. Heeded(0)
        BY DEF Heeded, Magnitude
      <3>3. Heeded(FiniteOrZero(s))
        BY <3>2, Zenon DEF FiniteOrZero
      <3>. QED
        BY <3>1, <3>3 DEF HeededSample
    <2>3. \A c \in 1..o : HeededSample(x[c][i])
      BY <2>1, <2>2
    <2>. QED
      BY <2>1, <2>3, LevelHeeded
  <1>3. PICK main : /\ \E x \in Planes(ch, n) : main = InPlace(x)
                    /\ \/ SidechainInputs = 0 /\ ctx = main
                       \/ SidechainInputs # 0 /\ \E key \in Planes(1, n) : ctx = WithSidechains(main, <<key>>)
    <2> DEFINE Blocks == Planes(ch, n)
    <2> HIDE DEF Blocks
    <2>. QED
      BY <1>1 DEF Contexts, Blocks
  <1>4. main.main.planes \in Planes(ch, n) /\ DOMAIN main = {"main", "sidechain", "frames"}
    <2> DEFINE Blocks == Planes(ch, n)
    <2> HIDE DEF Blocks
    <2>. QED
      BY <1>3 DEF InPlace, FromIo, Blocks
  <1>5. heard \in Planes(IF kernel.use_sidechain THEN 1 ELSE ch, n)
    <2> DEFINE Blocks(o) == Planes(o, n)
    <2>1. main.main.planes \in Blocks(ch)
      BY <1>4
    <2>2. \/ SidechainInputs = 0 /\ ctx = main
          \/ SidechainInputs # 0 /\ \E key \in Blocks(1) : ctx = WithSidechains(main, <<key>>)
      BY <1>3
    <2> HIDE DEF Blocks
    <2>3. CASE kernel.use_sidechain
      BY <1>1, <1>4, <2>2, <2>3 DEF WithSidechains, Blocks
    <2>4. CASE ~ kernel.use_sidechain
      BY <1>1, <1>4, <2>1, <2>2, <2>4 DEF Blocks
    <2>. QED
      BY <2>3, <2>4
  <1>6. (IF kernel.use_sidechain THEN 1 ELSE ch) \in Nat
    OBVIOUS
  <1>. QED
    BY <1>2, <1>5, <1>6

\* What a longer history has of its first frames and of those that follow.
LEMMA AudibleGoesOn ==
  ASSUME NEW k, NEW g, NEW h, NEW ch \in Nat, NEW m \in Nat, NEW n \in Nat,
         Agree(h, g, m), Audible("dynamics", k, g, m),
         NEW heard, Reads(heard, HeardBy(k, h), m, n, 1),
         \A i \in 1..n : Level(heard, i) \in Nat /\ Heeded(Level(heard, i))
  PROVE  Audible("dynamics", k, h, m + n)
  <1> DEFINE z == HeardBy(k, h)
             x == HeardBy(k, g)
             Hear(planes, i) == Level(planes, i) \in Nat /\ Heeded(Level(planes, i))
  <1>1. Began(z, x, m)
    BY Zenon DEF Agree, HeardBy
  <1>2. \A i \in 1..m : Hear(x, i)
    BY Zenon DEF Audible
  <1>3. Reads(heard, z, m, n, 1) /\ \A i \in 1..n : Hear(heard, i)
    OBVIOUS
  <1> HIDE DEF z, x
  <1>4. ASSUME NEW i \in 1..m PROVE Hear(z, i)
    <2>1. Level(z, i) = Level(x, i)
      BY <1>1, LevelAgrees
    <2>. QED
      BY <1>2, <2>1
  <1>5. ASSUME NEW i \in 1..n PROVE Hear(z, m + i)
    <2>1. Level(heard, i) = Level(z, m + i)
      BY <1>3, LevelReads
    <2>. QED
      BY <1>3, <2>1
  <1>6. ASSUME NEW i \in 1..(m + n) PROVE Hear(z, i)
    <2> HIDE DEF Hear
    <2>1. CASE i <= m
      <3>1. i \in 1..m
        BY <2>1
      <3>. QED
        BY <1>4, <3>1
    <2>2. CASE i > m
      <3> DEFINE j == i - m
      <3>1. j \in 1..n /\ i = m + j
        BY <2>2
      <3> HIDE DEF j
      <3>. QED
        BY <1>5, <3>1
    <2>. QED
      BY <2>1, <2>2
  <1>. QED
    BY <1>6, Zenon DEF Audible, z

\* The values of a run are ones that the parameters may have.
LEMMA RunVetted ==
  ASSUME NEW p \in RunValues
  PROVE  Vetted(InfoOf(kernel), p)
  <1>1. \A i \in DOMAIN ParamInfo : p[i] \in (ParamInfo[i].lo)..(ParamInfo[i].hi)
    BY DEF RunValues
  <1>2. ParamInfo = InfoOf(kernel)
    BY Zenon DEF ParamInfo, InfoOf
  <1>. QED
    BY <1>1, <1>2, Zenon DEF Vetted

\* An oscillator's frequencies are numbers.
LEMMA VettedTuned ==
  ASSUME Formed("oscillator", kernel), NEW h, NEW n, \A i \in 1..n : Vetted(InfoOf(kernel), h.p[i])
  PROVE  Tuned(h, n)
  <1>1. /\ "params" \in DOMAIN kernel /\ 1 \in DOMAIN kernel.params
        /\ kernel.params[1].lo = 1 /\ kernel.params[1].hi = HighestTone
    BY SMT DEF Formed
  <1>2. InfoOf(kernel) = kernel.params
    BY <1>1 DEF InfoOf
  <1> DEFINE params == kernel.params
             lo == params[1].lo
             hi == params[1].hi
  <1>3. 1 \in DOMAIN params /\ lo = 1 /\ hi = HighestTone
    BY <1>1
  <1>4. ASSUME NEW i \in 1..n PROVE h.p[i][1] \in Nat
    <2> DEFINE p == h.p[i]
    <2>1. Vetted(params, p)
      BY <1>2
    <2> HIDE DEF p, params
    <2>2. \A j \in DOMAIN params : p[j] \in (params[j].lo)..(params[j].hi)
      BY <2>1, Zenon DEF Vetted
    <2>3. 1 \in DOMAIN params
      BY <1>3
    <2>4. p[1] \in lo..hi
      BY <2>2, <2>3, Zenon
    <2>5. lo = 1 /\ hi = HighestTone
      BY <1>3
    <2> DEFINE v == p[1]
    <2>6. v \in lo..hi
      BY <2>4
    <2> HIDE DEF lo, hi, v
    <2>7. v \in Nat
      <3>1. HighestTone \in Int
        BY DEF HighestTone
      <3>. QED
        BY <2>5, <2>6, <3>1
    <2>. QED
      BY <2>7 DEF p, v
  <1>. QED
    BY <1>4, Zenon DEF Tuned

\* With new input an average's drain begins anew.
LEMMA BlockUnflushed ==
  ASSUME kind = "average", Formed(kind, kernel), NEW ctx, NEW cut, NEW p, NEW q, NEW slip,
         NEW b, b = RenderBlock(ctx, cut, p, q, slip)
  PROVE  b.kernel.flushed = 0
  <1>1. ASSUME NEW k, DOMAIN k = DOMAIN kernel, NEW c, NEW start, NEW len, NEW params
        PROVE  LET r == RenderRun(k, c, start, len, params, slip)
               IN  r.kernel.flushed = 0 /\ DOMAIN r.kernel = DOMAIN kernel
    <2>1. {"rings", "sums", "ring_pos", "flushed"} \subseteq DOMAIN k
      BY <1>1, SMT DEF Formed
    <2> DEFINE j == [k EXCEPT !.flushed = 0]
               run == Run(c, start, len)
               s == AverageRun(j, Input(run), slip)
    <2>2. j.flushed = 0 /\ DOMAIN j = DOMAIN k
      BY <2>1
    <2>3. RenderRun(k, c, start, len, params, slip).kernel = s.kernel
      BY Zenon DEF RenderRun, KernelRender, AverageRender
    <2> HIDE DEF j, run
    <2>4. \E rings, sums, pos :
            s.kernel = [j EXCEPT !.rings = rings, !.sums = sums, !.ring_pos = pos]
      BY Zenon DEF AverageRun
    <2>5. s.kernel.flushed = j.flushed /\ DOMAIN s.kernel = DOMAIN j
      BY <2>4
    <2> HIDE DEF s
    <2>. QED
      BY <1>1, <2>2, <2>3, <2>5
  <1> DEFINE first == RenderRun(kernel, ctx, 0, cut, p, slip)
             rest == RenderRun(first.kernel, first.ctx, cut, ctx.frames - cut, q, slip)
  <1>2. first.kernel.flushed = 0 /\ DOMAIN first.kernel = DOMAIN kernel
    BY <1>1
  <1>3. rest.kernel.flushed = 0
    BY <1>1, <1>2
  <1>4. b = IF cut = ctx.frames THEN first ELSE rest
    BY Zenon DEF RenderBlock
  <1> HIDE DEF first, rest
  <1>. QED
    BY <1>2, <1>3, <1>4

\* The kernel's settings are what its history is told by.
LEMMA ChronicleHolds ==
  ASSUME NEW kind_, NEW k, NEW j, Formed(kind_, k), Holds(k, j), NEW h, NEW ch, NEW m
  PROVE  /\ Chronicle(kind_, k, h, ch, m) => Chronicle(kind_, j, h, ch, m)
         /\ Audible(kind_, k, h, m) => Audible(kind_, j, h, m)
         /\ InfoOf(j) = InfoOf(k)
  <1>1. kind_ = "dynamics" => j.use_sidechain = k.use_sidechain
    <2>1. kind_ = "dynamics" => "use_sidechain" \in DOMAIN k
      BY SMT DEF Formed
    <2>. QED
      BY <2>1 DEF Holds, Keeps, Kept
  <1>2. InfoOf(j) = InfoOf(k)
    BY DEF Holds, Keeps, Kept, InfoOf
  <1>3. kind_ = "dynamics" => HeardBy(j, h) = HeardBy(k, h)
    BY <1>1, Zenon DEF HeardBy
  <1>4. Chronicle(kind_, k, h, ch, m) => Chronicle(kind_, j, h, ch, m)
    BY <1>1, Zenon DEF Chronicle
  <1>5. Audible(kind_, k, h, m) => Audible(kind_, j, h, m)
    BY <1>3, Zenon DEF Audible
  <1>. QED
    BY <1>2, <1>4, <1>5

\* What is vetted of a history and of the frames that follow.
LEMMA VettedGoesOn ==
  ASSUME NEW params, NEW h, NEW g, NEW m \in Nat, NEW n \in Nat, Agree(h, g, m),
         \A i \in 1..m : Vetted(params, g.p[i]), \A i \in 1..n : Vetted(params, h.p[m + i])
  PROVE  \A i \in 1..(m + n) : Vetted(params, h.p[i])
  <1>1. ASSUME NEW i \in 1..(m + n) PROVE Vetted(params, h.p[i])
    <2>1. CASE i <= m
      <3>1. i \in 1..m
        BY <2>1
      <3>2. h.p[i] = g.p[i]
        BY <3>1, Zenon DEF Agree
      <3>. QED
        BY <3>1, <3>2
    <2>2. CASE i > m
      <3> DEFINE j == i - m
      <3>1. j \in 1..n /\ i = m + j
        BY <2>2
      <3> HIDE DEF j
      <3>. QED
        BY <3>1
    <2>. QED
      BY <2>1, <2>2
  <1>. QED
    BY <1>1

\* The kernel is what it has made of a history h that goes on from the one it had.
Continues(k, h, ch, m, n, planes) ==
  /\ Chronicle(kind, kernel, h, ch, m + n) /\ Audible(kind, kernel, h, m + n)
  /\ \A i \in 1..(m + n) : Vetted(InfoOf(kernel), h.p[i])
  /\ DOMAIN h = {"x", "sidechain", "p"} /\ (m + n = 0 => h.p = <<>>)
  /\ kind = "dither" => m + n = 0 \/ m + n <= MaxFrames[kind]
  /\ Shaped(kind, k, ch) /\ Holds(kernel, k)
  /\ Right(kind, k, h, ch, m + n) /\ Quiet(kind, k, h, ch, m + n)
  /\ Gives(kind, kernel, h, ch, m, n, planes)

\* Then it is true to it.
LEMMA HistoryGoesOn ==
  ASSUME kind \in KernelKinds, Formed(kind, kernel), Ready(kind, kernel),
         NEW ch \in 1..MaxChannels, NEW m \in Nat, NEW n \in Nat, prepared.channels = ch,
         UNCHANGED <<kind, prepared>>,
         NEW k, k = kernel', NEW h, h = fed', NEW planes, planes = out',
         Continues(k, h, ch, m, n, planes)
  PROVE  TrueTo(ch, m + n)'
  <1> DEFINE t == m + n
  <1>1. t \in Nat /\ n \in 0..t /\ t - n = m
    OBVIOUS
  <1>2. /\ Chronicle(kind, kernel, h, ch, t) /\ Audible(kind, kernel, h, t)
        /\ \A i \in 1..t : Vetted(InfoOf(kernel), h.p[i])
        /\ DOMAIN h = {"x", "sidechain", "p"} /\ (t = 0 => h.p = <<>>)
        /\ kind = "dither" => t = 0 \/ t <= MaxFrames[kind]
        /\ Shaped(kind, k, ch) /\ Holds(kernel, k)
        /\ Right(kind, k, h, ch, t) /\ Quiet(kind, k, h, ch, t)
        /\ Gives(kind, kernel, h, ch, m, n, planes)
    BY Zenon DEF Continues
  <1> HIDE DEF t
  <1>3. Chronicle(kind, k, h, ch, t) /\ Audible(kind, k, h, t) /\ InfoOf(k) = InfoOf(kernel)
    BY <1>2, ChronicleHolds
  <1>4. Historic(kind, k, h, ch, t)
    BY <1>2, <1>3, Zenon DEF Historic
  <1>5. Ready(kind, k)
    BY <1>2, HoldsReady
  <1>6. Reflects(kind, k, h, ch, t)
    BY <1>2, <1>5, Zenon DEF Reflects
  <1>7. Gives(kind, k, h, ch, m, n, planes)
    BY <1>2, GivesHolds
  <1>8. Wrote(kind, k, h, ch, t, planes)
    BY <1>1, <1>7, Zenon DEF Wrote
  <1>9. kind' = kind /\ prepared' = prepared /\ NotPrepared' = NotPrepared /\ t' = t
    BY DEF NotPrepared, t
  <1>10. TrueTo(ch, t)'
    BY <1>4, <1>5, <1>6, <1>8, <1>9 DEF TrueTo
  <1>. QED
    BY <1>10 DEF t

\* What a host plays, a detector can hear.
LEMMA SamplesHeeded ==
  ASSUME Steady
  PROVE  /\ Samples[kind] \subseteq Int \cup {NotFinite}
         /\ kind = "dynamics" => /\ \A x \in Samples[kind] : Finite(x) => Heeded(x)
                                 /\ -80..0 \subseteq DOMAIN DbToLin
         /\ MaxFrames[kind] \in Nat /\ MaxChannels \in Nat
  <1>1. PICK k \in Kernels : kind = k.kind
    BY DEF Steady
  <1>. QED
    BY <1>1, HostAssumption

\* Corrections are at most the unit.
LEMMA SlipsBounded == Slips \subseteq -1..1
  <1>1. Roundings \subseteq -1..1 /\ {0} \subseteq -1..1
    BY HostAssumption
  <1>. QED
    BY <1>1, Zenon DEF Slips

\* Reading what was heard, a detector hears the history.
LEMMA BlockAudible ==
  ASSUME kind = "dynamics", Steady, Formed(kind, kernel),
         NEW ch \in Nat, prepared.channels = ch, prepared.io_mode = IoMode,
         prepared.sidechain_inputs = SidechainInputs,
         NEW n \in Nat, NEW ctx \in Contexts(n), HonorsContract(ctx), ctx.frames # 0,
         NEW m \in Nat, NEW h, Agree(h, fed, m), Audible(kind, kernel, fed, m),
         Offers(kind, kernel, ctx, h, ch, m, n, 1)
  PROVE  Audible(kind, kernel, h, m + n)
  <1> DEFINE heard == IF kernel.use_sidechain THEN ctx.sidechain[1] ELSE ctx.main.planes
  <1>1. \A i \in 1..n : Level(heard, i) \in Nat /\ Heeded(Level(heard, i))
    <2> HIDE DEF heard
    <2>1. heard = IF kernel.use_sidechain THEN ctx.sidechain[1] ELSE ctx.main.planes
      BY DEF heard
    <2>. QED
      BY <2>1, SamplesHeeded, ContextAudible
  <1>2. kind \notin {"average"} \cup Generating
    BY DEF Generating
  <1>3. Reads(heard, HeardBy(kernel, h), m, n, 1)
    BY <1>2, Zenon DEF Offers, HeardBy
  <1> HIDE DEF heard
  <1>4. Audible("dynamics", kernel, fed, m)
    BY Zenon
  <1>5. Audible("dynamics", kernel, h, m + n)
    BY <1>1, <1>3, <1>4, AudibleGoesOn
  <1>. QED
    BY <1>5, Zenon

\* A block goes on with the history.
LEMMA HistoryProcess ==
  ASSUME KernelInv, HistoryInv, NEW p \in RunValues, NEW q \in RunValues, NEW n \in Nat,
         NEW ctx \in Contexts(n), Usable, Process(ctx, p, q)
  PROVE  HistoryInv'
  <1>1. PICK slip \in Slips, cut \in 1..ctx.frames : ProcessBlock(ctx, cut, p, q, slip)
    BY DEF Process
  <1> DEFINE b == RenderBlock(ctx, cut, p, q, slip)
             h == fed'
             k == b.kernel
             planes == b.ctx.main.planes
  <1>2. /\ HonorsContract(ctx) /\ kernel' = k /\ out' = planes
        /\ h = AfterBlock(ctx, cut, p, q) /\ Len(fed.p) + ctx.frames <= MaxFrames[kind]
        /\ UNCHANGED <<kind, prepared>>
    BY <1>1, Zenon DEF ProcessBlock, AfterBlock
  <1>3. prepared # NotPrepared
    BY <1>2 DEF HonorsContract
  <1>4. PICK ch \in Nat, m \in Nat : TrueTo(ch, m)
    BY DEF HistoryInv
  <1>5. /\ prepared.channels = ch /\ Ready(kind, kernel) /\ ch \in 1..MaxChannels /\ ch \in Nat \ {0}
    <2>1. prepared.channels = ch /\ Ready(kind, kernel)
      BY <1>3, <1>4, Zenon DEF TrueTo
    <2>2. MaxChannels \in Nat
      BY HostAssumption
    <2>3. ch \in 1..MaxChannels
      BY <2>1, Zenon DEF Usable
    <2>. QED
      BY <2>1, <2>2, <2>3
  <1>6. /\ kind \in KernelKinds /\ Formed(kind, kernel) /\ Runnable(kind, kernel)
        /\ prepared.io_mode = IoMode /\ prepared.sidechain_inputs = SidechainInputs
    BY <1>3, PreparedIs
  <1>7. /\ Historic(kind, kernel, fed, ch, m) /\ Reflects(kind, kernel, fed, ch, m)
        /\ Shaped(kind, kernel, ch)
    BY <1>4, Zenon DEF TrueTo, Reflects
  <1>8. /\ DOMAIN fed = {"x", "sidechain", "p"} /\ Chronicle(kind, kernel, fed, ch, m)
        /\ \A i \in 1..m : Vetted(InfoOf(kernel), fed.p[i])
        /\ Audible(kind, kernel, fed, m) /\ DOMAIN fed.p = 1..m
    BY <1>7, Zenon DEF Historic, Chronicle
  <1>9. Steady /\ Made(kind, kernel)
    BY SteadyMade DEF KernelInv
  <1>10. Samples[kind] \subseteq Int \cup {NotFinite} /\ slip \in -1..1
    BY <1>9, SamplesHeeded, SlipsBounded
  <1> HIDE DEF b, h
  <1>11. ctx.frames \in 0..n /\ ctx.frames # 0
    <2>1. ctx.frames \in 0..n
      BY <1>2, <1>5, <1>6, <1>10, ContextHears
    <2>2. cut \in 1..ctx.frames
      OBVIOUS
    <2>. QED
      BY <2>1, <2>2
  <1>12. Hears(kernel, ctx, ch, n, 1)
    BY <1>2, <1>5, <1>6, <1>10, ContextHears
  <1>13. /\ ctx.frames = n /\ Offers(kind, kernel, ctx, h, ch, m, n, 1)
         /\ Chronicle(kind, kernel, h, ch, m + n) /\ Agree(h, fed, m)
         /\ \A i \in 1..n : h.p[m + i] = IF i <= cut THEN p ELSE q
    <2>1. /\ kind \in KernelKinds /\ Formed(kind, kernel) /\ Samples[kind] \subseteq Int \cup {NotFinite}
          /\ ch \in Nat /\ prepared.channels = ch /\ prepared.io_mode = IoMode
          /\ prepared.sidechain_inputs = SidechainInputs
          /\ n \in Nat /\ ctx \in Contexts(n) /\ HonorsContract(ctx) /\ ctx.frames # 0
          /\ m \in Nat /\ Chronicle(kind, kernel, fed, ch, m)
          /\ h = AfterBlock(ctx, cut, p, q)
      BY <1>2, <1>5, <1>6, <1>8, <1>10, <1>11
    <2>2. BlockIs(ctx, h, ch, m, n, cut, p, q)
      BY <2>1, BlockOffers, Zenon
    <2>. QED
      BY <2>2, Zenon DEF BlockIs
  <1>14. n \in Nat \ {0} /\ cut \in 1..n
    BY <1>11, <1>13
  <1>15. Right(kind, kernel, h, ch, m)
    <2>1. Right(kind, kernel, fed, ch, m)
      BY <1>5, <1>7, Zenon DEF Reflects
    <2>. QED
      BY <1>6, <1>8, <1>13, <2>1, RightAgrees
  <1>16. Vetted(InfoOf(kernel), p) /\ Vetted(InfoOf(kernel), q)
    BY RunVetted
  <1>17. Steers(kind, kernel, p) /\ Steers(kind, kernel, q)
    BY <1>5, <1>6, <1>9, <1>16, SteersVetted
  <1>18. \A i \in 1..(m + n) : Vetted(InfoOf(kernel), h.p[i])
    <2> DEFINE params == InfoOf(kernel)
    <2>1. Vetted(params, p) /\ Vetted(params, q) /\ \A i \in 1..m : Vetted(params, fed.p[i])
      BY <1>8, <1>16
    <2> HIDE DEF params
    <2>2. \A i \in 1..n : Vetted(params, h.p[m + i])
      BY <1>13, <2>1
    <2>3. \A i \in 1..(m + n) : Vetted(params, h.p[i])
      BY <1>13, <2>1, <2>2, VettedGoesOn
    <2>. QED
      BY <2>3 DEF params
  <1>19. kind = "oscillator" => Tuned(h, m + n)
    <2> SUFFICES ASSUME kind = "oscillator" PROVE Tuned(h, m + n)
      OBVIOUS
    <2> DEFINE t == m + n
    <2>1. Formed("oscillator", kernel) /\ \A i \in 1..t : Vetted(InfoOf(kernel), h.p[i])
      BY <1>6, <1>18
    <2> HIDE DEF t
    <2>2. Tuned(h, t)
      BY <2>1, VettedTuned
    <2>. QED
      BY <2>2 DEF t
  <1>20. b = RenderBlock(ctx, cut, p, q, slip)
    BY DEF b
  <1>21. /\ Right(kind, b.kernel, h, ch, m + n)
         /\ Gives(kind, kernel, h, ch, m, n, b.ctx.main.planes)
    <2> DEFINE Sound(t) == Right(kind, b.kernel, h, ch, t)
                           /\ Gives(kind, kernel, h, ch, m, n, b.ctx.main.planes)
    <2>. QED
      BY <1>5, <1>6, <1>7, <1>10, <1>12, <1>13, <1>14, <1>15, <1>17, <1>19, <1>20, BlockRight
  <1>22. Shaped(kind, b.kernel, ch) /\ Holds(kernel, b.kernel)
    <2>1. kind = "oscillator" => p[1] \in Nat /\ q[1] \in Nat
      BY <1>9, RunValuesTyped
    <2>2. slip \in Int
      BY <1>10
    <2>. QED
      BY <1>5, <1>6, <1>7, <1>11, <1>12, <1>20, <2>1, <2>2, BlockShaped
  <1>23. Audible(kind, kernel, h, m + n)
    <2>1. CASE kind # "dynamics"
      BY <2>1, Zenon DEF Audible
    <2>2. CASE kind = "dynamics"
      BY <1>2, <1>5, <1>6, <1>8, <1>9, <1>11, <1>13, <2>2, BlockAudible
    <2>. QED
      BY <2>1, <2>2
  <1>24. Quiet(kind, b.kernel, h, ch, m + n)
    <2>1. CASE kind # "average"
      BY <2>1, Zenon DEF Quiet
    <2>2. CASE kind = "average"
      <3>1. b.kernel.flushed = 0
        BY <1>6, <1>20, <2>2, BlockUnflushed
      <3>2. 0..(0 - 1) = {}
        OBVIOUS
      <3>. QED
        BY <3>1, <3>2, Zenon DEF Quiet
    <2>. QED
      BY <2>1, <2>2
  <1>25. m + n <= MaxFrames[kind] /\ m + n # 0
    <2>1. Len(fed.p) = m
      BY <1>8, Length
    <2>. QED
      BY <1>2, <1>13, <1>14, <2>1
  <1>26. DOMAIN h = {"x", "sidechain", "p"}
    BY <1>2 DEF AfterBlock
  <1>27. Continues(b.kernel, h, ch, m, n, b.ctx.main.planes)
    BY <1>13, <1>18, <1>21, <1>22, <1>23, <1>24, <1>25, <1>26, Zenon DEF Continues
  <1> DEFINE t == m + n
  <1>28. TrueTo(ch, t)'
    <2> HIDE DEF k, planes
    <2>1. Continues(k, h, ch, m, n, planes) /\ k = kernel' /\ planes = out' /\ h = fed'
      BY <1>2, <1>27 DEF k, planes, h
    <2>. QED
      BY <1>2, <1>5, <1>6, <2>1, HistoryGoesOn
  <1>29. t \in Nat
    OBVIOUS
  <1> HIDE DEF t
  <1>. QED
    BY <1>28, <1>29 DEF HistoryInv

\* What was audible stays so.
LEMMA AudibleStays ==
  ASSUME NEW kind_, NEW k, NEW g, NEW h, NEW m \in Nat, Agree(h, g, m), Audible(kind_, k, g, m)
  PROVE  Audible(kind_, k, h, m)
  <1> DEFINE z == HeardBy(k, h)
             x == HeardBy(k, g)
             Hear(planes, i) == Level(planes, i) \in Nat /\ Heeded(Level(planes, i))
  <1>1. Began(z, x, m)
    BY Zenon DEF Agree, HeardBy
  <1>2. kind_ = "dynamics" => \A i \in 1..m : Hear(x, i)
    BY Zenon DEF Audible
  <1> HIDE DEF z, x
  <1>3. ASSUME kind_ = "dynamics", NEW i \in 1..m PROVE Hear(z, i)
    <2>1. Level(z, i) = Level(x, i)
      BY <1>1, LevelAgrees
    <2>. QED
      BY <1>2, <1>3, <2>1
  <1>. QED
    BY <1>3, Zenon DEF Audible, z

\* The silence that a drain appends is quiet, as what it drained before was.
LEMMA QuietGoesOn ==
  ASSUME NEW k, NEW j, NEW g, NEW h, NEW ch \in Nat, NEW m \in Nat, NEW n \in Nat,
         DOMAIN g.x = 1..ch, Agree(h, g, m), Reads(Silence(ch, n), h.x, m, n, 1),
         Quiet("average", k, g, ch, m), k.flushed \in Nat, j.flushed = k.flushed + n
  PROVE  Quiet("average", j, h, ch, m + n)
  <1> DEFINE z == h.x
             x == g.x
             f == k.flushed
  <1>1. Began(z, x, m) /\ DOMAIN x = 1..ch /\ f \in Nat
    BY Zenon DEF Agree
  <1>2. \A c \in 1..ch, i \in 0..(f - 1) : At(x, c, m - i) = 0
    BY Zenon DEF Quiet
  <1>3. \A c \in 1..ch, i \in 1..n : z[c][m + i] = 0
    BY DEF Reads, Silence
  <1> HIDE DEF z, x, f
  <1>4. ASSUME NEW c \in 1..ch, NEW i \in 0..(f + n - 1), i < n
        PROVE  At(z, c, m + n - i) = 0
    <2> DEFINE t == n - i
    <2>1. t \in 1..n /\ m + n - i = m + t /\ m + t >= 1
      BY <1>4
    <2> HIDE DEF t
    <2>2. z[c][m + t] = 0
      BY <1>3, <2>1
    <2>3. At(z, c, m + t) = 0
      BY <2>1, <2>2, ParameterAssumption DEF At, FiniteOrZero, Finite
    <2>. QED
      BY <2>1, <2>3
  <1>5. ASSUME NEW c \in 1..ch, NEW i \in 0..(f + n - 1), ~ (i < n)
        PROVE  At(z, c, m + n - i) = 0
    <2> DEFINE s == i - n
               t == m - s
    <2>1. s \in 0..(f - 1) /\ m + n - i = t /\ t \in Int /\ t <= m
      BY <1>1, <1>5
    <2>2. At(x, c, t) = 0
      BY <1>2, <2>1
    <2> HIDE DEF t
    <2>3. At(z, c, t) = At(x, c, t)
      BY <1>1, <2>1, AtAgrees
    <2>. QED
      BY <2>1, <2>2, <2>3
  <1>6. \A c \in 1..ch, i \in 0..(f + n - 1) : At(z, c, m + n - i) = 0
    BY <1>4, <1>5
  <1>7. j.flushed = f + n
    BY DEF f
  <1>8. \A c \in 1..ch, i \in 0..(j.flushed - 1) : At(z, c, m + n - i) = 0
    BY <1>1, <1>6, <1>7
  <1>. QED
    BY <1>8 DEF Quiet, z

\* An average's drain counts what it gives.
LEMMA AverageFlushCounts ==
  ASSUME kind = "average", Formed(kind, kernel), NEW ch \in Nat, Shaped(kind, kernel, ch),
         NEW room \in Nat, NEW slip, NEW f, f = AverageFlush(kernel, room, slip)
  PROVE  f.kernel.flushed = kernel.flushed + f.frames /\ kernel.flushed \in Nat
  <1>1. {"rings", "sums", "ring_pos", "flushed"} \subseteq DOMAIN kernel /\ kernel.taps \in Nat
    BY SMT DEF Formed
  <1>2. kernel.flushed \in Nat
    <2>1. kernel.flushed \in 0..AverageTail(kernel) /\ AverageTail(kernel) \in Nat
      BY <1>1 DEF Shaped, AverageTail
    <2>. QED
      BY <2>1
  <1> DEFINE want == AverageWant(kernel, room)
             run == AverageRun(kernel, Silence(Len(kernel.sums), want), slip)
             k == run.kernel
  <1>3. f = [kernel |-> [k EXCEPT !.flushed = @ + want], out |-> run.out, frames |-> want,
             done |-> kernel.flushed + want >= AverageTail(kernel)]
    BY Zenon DEF AverageFlush
  <1>4. \E rings, sums, pos :
          k = [kernel EXCEPT !.rings = rings, !.sums = sums, !.ring_pos = pos]
    <2> HIDE DEF want
    <2>. QED
      BY Zenon DEF AverageRun
  <1> HIDE DEF want, run, k
  <1>5. k.flushed = kernel.flushed /\ "flushed" \in DOMAIN k
    BY <1>1, <1>4
  <1>6. f.kernel = [k EXCEPT !.flushed = @ + want] /\ f.frames = want
    BY <1>3
  <1>. QED
    BY <1>2, <1>5, <1>6

\* A drain makes of the silence it appends what the history has there.
LEMMA DrainsRight ==
  ASSUME Steady, kind \in KernelKinds, Formed(kind, kernel), Made(kind, kernel),
         Ready(kind, kernel),
         NEW ch \in Nat, prepared.channels = ch, Shaped(kind, kernel, ch),
         NEW m \in Nat, Told(ch, m),
         NEW h, Right(kind, kernel, fed, ch, m), Right(kind, kernel, h, ch, m),
         NEW room \in Nat, NEW slip \in -1..1, NEW f, f = KernelFlush(room, slip),
         NEW n \in Nat, n = f.frames, AllFeed(Silence(ch, n), h.x, ch, m, n),
         \A i \in 1..n : h.p[m + i] = LastOf(fed.p)
  PROVE  DrainRight(ch, m, h, f)
  <1>1. CASE kind = "average"
    <2>1. Runnable(kind, kernel)
      BY DEF Ready
    <2>2. f = AverageFlush(kernel, room, slip)
      BY <1>1, Zenon DEF KernelFlush
    <2>. QED
      BY <1>1, <2>1, <2>2, AverageDrains
  <1>2. CASE kind \in Filters
    BY <1>2, FilterDrainRight
  <1>3. CASE kind \notin Drained
    <2>1. kind \in KernelKinds \ Drained
      BY <1>3
    <2>. QED
      BY <2>1, NothingDrains
  <1>. QED
    BY <1>1, <1>2, <1>3 DEF Drained

\* A drain goes on with the history too.
LEMMA HistoryFlush ==
  ASSUME KernelInv, HistoryInv, NEW room \in Rooms, NEW slip \in Slips, Usable, Flush(room, slip)
  PROVE  HistoryInv'
  <1> DEFINE f == KernelFlush(room, slip)
             h == fed'
             k == f.kernel
             planes == f.out
  <1>1. /\ prepared # NotPrepared /\ kernel' = k /\ out' = planes /\ h = AfterFlush(f.frames)
        /\ UNCHANGED <<kind, prepared>>
    BY Zenon DEF Flush, AfterFlush
  <1>2. PICK ch \in Nat, m \in Nat : TrueTo(ch, m)
    BY DEF HistoryInv
  <1>3. /\ prepared.channels = ch /\ Ready(kind, kernel) /\ ch \in 1..MaxChannels
    <2>1. prepared.channels = ch /\ Ready(kind, kernel)
      BY <1>1, <1>2, Zenon DEF TrueTo
    <2>2. ch \in 1..MaxChannels
      BY <2>1, Zenon DEF Usable
    <2>. QED
      BY <2>1, <2>2
  <1>4. kind \in KernelKinds /\ Formed(kind, kernel) /\ Runnable(kind, kernel)
    BY <1>1, PreparedIs
  <1>5. /\ Historic(kind, kernel, fed, ch, m) /\ Reflects(kind, kernel, fed, ch, m)
        /\ Shaped(kind, kernel, ch)
    BY <1>2, Zenon DEF TrueTo, Reflects
  <1>6. /\ DOMAIN fed = {"x", "sidechain", "p"} /\ Chronicle(kind, kernel, fed, ch, m)
        /\ \A i \in 1..m : Vetted(InfoOf(kernel), fed.p[i])
        /\ Audible(kind, kernel, fed, m) /\ DOMAIN fed.p = 1..m /\ (m = 0 => fed.p = <<>>)
        /\ kind = "dither" => m = 0 \/ m <= MaxFrames[kind]
        /\ DOMAIN fed.x = 1..ch
    BY <1>5, Zenon DEF Historic, Chronicle, Sampled
  <1>7. Steady /\ Made(kind, kernel)
    BY SteadyMade DEF KernelInv
  <1>8. room \in Nat /\ slip \in Int /\ slip \in -1..1
    BY SlipsTyped, SlipsBounded
  <1>9. Told(ch, m)
    <2>1. ParamInfo = InfoOf(kernel)
      BY Zenon DEF ParamInfo, InfoOf
    <2>. QED
      BY <1>6, <2>1, Zenon DEF Told
  <1>10. f = KernelFlush(room, slip)
    OBVIOUS
  <1> HIDE DEF f, h
  <1>11. PICK n \in Nat : n = f.frames
    <2>1. f.frames \in Nat
      BY <1>5, <1>7, <1>8, <1>10, FlushCounted
    <2>. QED
      BY <2>1
  <1>12. kind \notin Drained => n = 0
    <2> SUFFICES ASSUME kind \notin Drained PROVE n = 0
      OBVIOUS
    <2>1. Right(kind, kernel, fed, ch, m)
      BY <1>3, <1>5, Zenon DEF Reflects
    <2>2. kind \in KernelKinds \ Drained
      BY <1>4
    <2>. QED
      BY <1>3, <1>10, <1>11, <2>1, <2>2, NothingDrains
  <1>13. "dynamics" \notin Drained /\ "dither" \notin Drained
    BY DEF Drained, Filters
  <1>14. /\ Chronicle(kind, kernel, h, ch, m + n) /\ Agree(h, fed, m)
         /\ Reads(Silence(ch, n), h.x, m, n, 1)
         /\ \A i \in 1..n : h.p[m + i] = LastOf(fed.p)
    <2>1. /\ ch \in Nat /\ prepared.channels = ch /\ m \in Nat /\ n \in Nat
          /\ Chronicle(kind, kernel, fed, ch, m) /\ {"x", "sidechain", "p"} \subseteq DOMAIN fed
          /\ kind = "dynamics" => n = 0
          /\ h = AfterFlush(n)
      BY <1>1, <1>3, <1>6, <1>11, <1>12, <1>13
    <2>2. DrainIs(h, ch, m, n)
      BY <2>1, DrainOffers, Zenon
    <2>. QED
      BY <2>2, Zenon DEF DrainIs
  <1>15. AllFeed(Silence(ch, n), h.x, ch, m, n)
    <2> DEFINE x == h.x
               t == m + n
    <2>1. Sampled(x, ch, t, 1) /\ t \in Nat /\ m + n <= t
      BY <1>11, <1>14 DEF Chronicle
    <2>2. Reads(Silence(ch, n), x, m, n, 1)
      BY <1>14
    <2> HIDE DEF x, t
    <2>3. AllFeed(Silence(ch, n), x, ch, m, n)
      BY <1>11, <2>1, <2>2, ReadsFeed
    <2>. QED
      BY <2>3 DEF x
  <1>16. Right(kind, kernel, fed, ch, m)
    BY <1>3, <1>5, Zenon DEF Reflects
  <1>17. Right(kind, kernel, h, ch, m)
    BY <1>4, <1>6, <1>14, <1>16, RightAgrees
  <1>18. DrainRight(ch, m, h, f)
    BY <1>3, <1>4, <1>5, <1>7, <1>8, <1>9, <1>10, <1>11, <1>14, <1>15, <1>16, <1>17, DrainsRight
  <1>19. /\ Right(kind, f.kernel, h, ch, m + n) /\ Gives(kind, kernel, h, ch, m, n, f.out)
    BY <1>11, <1>18, Zenon DEF DrainRight
  <1>20. Shaped(kind, f.kernel, ch) /\ Holds(kernel, f.kernel)
    BY <1>4, <1>5, <1>8, <1>10, FlushShaped, FlushKeeps
  <1>21. \A i \in 1..(m + n) : Vetted(InfoOf(kernel), h.p[i])
    <2> DEFINE params == InfoOf(kernel)
    <2>1. Vetted(params, LastOf(fed.p)) /\ \A i \in 1..m : Vetted(params, fed.p[i])
      <3>1. Vetted(ParamInfo, LastOf(fed.p)) /\ ParamInfo = InfoOf(kernel)
        BY <1>3, <1>9, LastVetted
      <3>. QED
        BY <1>6, <3>1
    <2> HIDE DEF params
    <2>2. \A i \in 1..n : Vetted(params, h.p[m + i])
      BY <1>14, <2>1, Zenon
    <2>3. \A i \in 1..(m + n) : Vetted(params, h.p[i])
      BY <1>11, <1>14, <2>1, <2>2, VettedGoesOn
    <2>. QED
      BY <2>3 DEF params
  <1>22. Audible(kind, kernel, h, m + n)
    <2>1. CASE kind # "dynamics"
      BY <2>1, Zenon DEF Audible
    <2>2. CASE kind = "dynamics"
      <3>1. m + n = m
        BY <1>12, <1>13, <2>2
      <3>2. Audible(kind, kernel, h, m)
        BY <1>6, <1>14, AudibleStays
      <3>. QED
        BY <3>1, <3>2
    <2>. QED
      BY <2>1, <2>2
  <1>23. Quiet(kind, f.kernel, h, ch, m + n)
    <2>1. CASE kind # "average"
      BY <2>1, Zenon DEF Quiet
    <2>2. CASE kind = "average"
      <3> DEFINE j == f.kernel
      <3>1. j.flushed = kernel.flushed + n /\ kernel.flushed \in Nat
        <4>1. f = AverageFlush(kernel, room, slip)
          BY <1>10, <2>2, Zenon DEF KernelFlush
        <4>. QED
          BY <1>4, <1>5, <1>8, <1>11, <2>2, <4>1, AverageFlushCounts
      <3>2. Quiet("average", kernel, fed, ch, m)
        BY <1>5, <2>2, Zenon DEF Reflects
      <3> HIDE DEF j
      <3>3. Quiet("average", j, h, ch, m + n)
        BY <1>6, <1>11, <1>14, <3>1, <3>2, QuietGoesOn
      <3>. QED
        BY <2>2, <3>3 DEF j
    <2>. QED
      BY <2>1, <2>2
  <1>24. kind = "dither" => m + n = 0 \/ m + n <= MaxFrames[kind]
    BY <1>6, <1>12, <1>13
  <1>25. DOMAIN h = {"x", "sidechain", "p"}
    BY <1>1, <1>6 DEF AfterFlush
  <1>26. m + n = 0 => h.p = <<>>
    <2> SUFFICES ASSUME m + n = 0 PROVE h.p = <<>>
      OBVIOUS
    <2>1. m = 0 /\ n = 0
      BY <1>11
    <2>2. fed.p = <<>> /\ h.p = fed.p \o [i \in 1..n |-> LastOf(fed.p)]
      BY <1>1, <1>6, <1>11, <2>1 DEF AfterFlush
    <2>. QED
      BY <2>1, <2>2
  <1>27. Continues(f.kernel, h, ch, m, n, f.out)
    BY <1>14, <1>19, <1>20, <1>21, <1>22, <1>23, <1>24, <1>25, <1>26, Zenon DEF Continues
  <1> DEFINE t == m + n
  <1>28. TrueTo(ch, t)'
    <2> HIDE DEF k, planes
    <2>1. Continues(k, h, ch, m, n, planes) /\ k = kernel' /\ planes = out' /\ h = fed'
      BY <1>1, <1>27 DEF k, planes, h
    <2>. QED
      BY <1>1, <1>2, <1>3, <1>4, <1>11, <2>1, HistoryGoesOn
  <1>29. t \in Nat
    BY <1>11
  <1> HIDE DEF t
  <1>. QED
    BY <1>28, <1>29 DEF HistoryInv

\* So there always is a history that the kernel is true to.
THEOREM HistoryHolds == Spec => [](KernelInv /\ HistoryInv)
  <1>1. KernelInv /\ HistoryInv /\ [Next]_vars => HistoryInv'
    <2> SUFFICES ASSUME KernelInv, HistoryInv, [Next]_vars
                 PROVE  HistoryInv'
      OBVIOUS
    <2>1. ASSUME NEW spec \in Specs[kind], Prepare(spec)
          PROVE  HistoryInv'
      BY <2>1, HistoryPrepare
    <2>2. CASE Reset
      BY <2>2, HistoryReset
    <2>3. ASSUME Usable, NEW p \in RunValues, NEW q \in RunValues,
                 NEW n \in 1..prepared.max_block, NEW ctx \in Contexts(n), Process(ctx, p, q)
          PROVE  HistoryInv'
      <3>1. prepared # NotPrepared
        BY <2>3, Zenon DEF Process, ProcessBlock, HonorsContract
      <3>2. prepared.max_block \in Nat
        BY <3>1, PreparedIs
      <3>3. n \in Nat
        BY <3>2
      <3>. QED
        BY <2>3, <3>3, HistoryProcess
    <2>4. ASSUME Usable, NEW room \in Rooms, NEW slip \in Slips, Flush(room, slip)
          PROVE  HistoryInv'
      BY <2>4, HistoryFlush
    <2>5. CASE UNCHANGED vars
      <3>1. UNCHANGED <<kind, kernel, prepared, fed, out>>
        BY <2>5 DEF vars, history
      <3>2. PICK ch \in Nat, m \in Nat : TrueTo(ch, m)
        BY DEF HistoryInv
      <3>3. NotPrepared' = NotPrepared
        BY DEF NotPrepared
      <3>4. TrueTo(ch, m)'
        BY <3>1, <3>2, <3>3 DEF TrueTo
      <3>. QED
        BY <3>4 DEF HistoryInv
    <2>. QED
      BY <2>1, <2>2, <2>3, <2>4, <2>5, Zenon DEF Next, Drain
  <1>. QED
    BY <1>1, HistoryInit, KernelInvHolds, PTL DEF Spec

-----------------------------------------------------------------------------
(* What the history's invariant says of what is rendered. *)

\* A sample that the last call gave is what its frame of the history is to give.
HeardRight(ch, m) ==
  out # <<>> => /\ DOMAIN out = 1..ch /\ ch \in 1..MaxChannels
                /\ \A c \in 1..ch : \A h \in Heard(c) :
                     h[2] \in 1..m /\ OkAt(kind, kernel, fed, c, h[2], out[c][h[1]])

\* It is.
LEMMA HeardOk ==
  ASSUME NEW ch \in Nat, NEW m \in Nat, TrueTo(ch, m), kind \in Claimed
  PROVE  Fed = m /\ HeardRight(ch, m)
  <1>1. Fed = m
    <2>1. DOMAIN fed.p = 1..m
      BY Zenon DEF TrueTo, Historic, Chronicle
    <2>. QED
      BY <2>1, Length DEF Fed
  <1>2. ASSUME out # <<>>
        PROVE  /\ DOMAIN out = 1..ch /\ ch \in 1..MaxChannels
               /\ \A c \in 1..ch : \A h \in Heard(c) :
                    h[2] \in 1..m /\ OkAt(kind, kernel, fed, c, h[2], out[c][h[1]])
    <2>1. /\ ch \in 1..MaxChannels
          /\ \E n \in 0..m : Gives(kind, kernel, fed, ch, m - n, n, out)
      BY <1>2, Zenon DEF TrueTo, Wrote
    <2>2. PICK n \in 0..m : Gives(kind, kernel, fed, ch, m - n, n, out)
      BY <2>1
    <2>3. /\ DOMAIN out = 1..ch
          /\ \A c \in 1..ch : /\ DOMAIN out[c] = 1..n
                              /\ \A i \in 1..n : OkAt(kind, kernel, fed, c, m - n + i, out[c][i])
      BY <2>2, Zenon DEF Gives
    <2>4. ASSUME NEW c \in 1..ch, NEW h \in Heard(c)
          PROVE  h[2] \in 1..m /\ OkAt(kind, kernel, fed, c, h[2], out[c][h[1]])
      <3>1. Len(out[c]) = n
        BY <2>3, Length
      <3>2. PICK i \in 1..n : h = <<i, m - n + i>>
        BY <1>1, <3>1 DEF Heard
      <3>3. h[1] = i /\ h[2] = m - n + i /\ m - n + i \in 1..m
        BY <3>2
      <3>4. OkAt(kind, kernel, fed, c, m - n + i, out[c][i])
        BY <2>3
      <3>. QED
        BY <3>3, <3>4
    <2>. QED
      BY <2>1, <2>3, <2>4
  <1>. QED
    BY <1>1, <1>2, Zenon DEF HeardRight

\* The moving average's rings are the last inputs, those drained as silence included, and its
\* sums are no further from the rings' than what was rounded since they last wrapped
\* (filters/moving_average.rs, render and flush): however long the stream is, however it is cut
\* into runs, and for any number of taps.
LEMMA AverageFollows == KernelInv /\ HistoryInv => AverageExact
  <1> SUFFICES ASSUME KernelInv, HistoryInv, kind = "average" PROVE AverageExact
    BY DEF AverageExact
  <1>1. PICK ch \in Nat, m \in Nat : TrueTo(ch, m)
    BY DEF HistoryInv
  <1>2. Fed = m /\ HeardRight(ch, m)
    BY <1>1, HeardOk DEF Claimed
  <1>3. Right(kind, kernel, fed, ch, m) /\ Shaped(kind, kernel, ch)
    BY <1>1, Zenon DEF TrueTo, Reflects
  <1> DEFINE x == fed.x
             taps == kernel.taps
  <1>4. DOMAIN kernel.sums = 1..ch
    BY <1>3 DEF Shaped
  <1>5. ASSUME NEW c, NEW n
        PROVE  MapThenSumSet(LAMBDA j : X(c, n - j), 0..(taps - 1)) = RecentOf(x, taps, c, n)
    BY Zenon DEF X, RecentOf, At
  <1>6. \A c, n : X(c, n) = At(x, c, n)
    BY Zenon DEF X, At
  <1>7. \A c \in 1..ch : AverageRight(x, c, m, taps, kernel.rings[c], kernel.sums[c], kernel.ring_pos)
    BY <1>3, Zenon DEF Right, AveragesRight
  <1>8. ASSUME NEW c \in DOMAIN kernel.sums
        PROVE  /\ \A j \in 0..(taps - 1) :
                    kernel.rings[c][(kernel.ring_pos + j) % taps] = X(c, Fed - taps + 1 + j)
               /\ Magnitude(kernel.sums[c] - RecentOf(x, taps, c, Fed)) <= kernel.ring_pos
    BY <1>2, <1>4, <1>6, <1>7, Zenon DEF AverageRight
  <1>9. ASSUME NEW c \in DOMAIN kernel.sums, out # <<>>, NEW h \in Heard(c)
        PROVE  Magnitude(out[c][h[1]] - RecentOf(x, taps, c, h[2])) <= taps - 1
    <2>1. OkAt(kind, kernel, fed, c, h[2], out[c][h[1]])
      BY <1>2, <1>4, <1>9, Zenon DEF HeardRight
    <2>. QED
      BY <2>1, Zenon DEF OkAt
  <1> HIDE DEF x
  <1>. QED
    BY <1>5, <1>8, <1>9 DEF AverageExact

\* A moving average's drain leaves nothing in its rings but what it last wrote over.
LEMMA AverageDrained ==
  ASSUME KernelInv, HistoryInv, kind = "average", ended,
         NEW c \in DOMAIN kernel.rings, NEW i \in DOMAIN kernel.rings[c] \ {kernel.ring_pos}
  PROVE  kernel.rings[c][i] = 0
  <1>1. PICK ch \in Nat, m \in Nat : TrueTo(ch, m)
    BY DEF HistoryInv
  <1>2. Right(kind, kernel, fed, ch, m) /\ Shaped(kind, kernel, ch) /\ Quiet(kind, kernel, fed, ch, m)
    BY <1>1, Zenon DEF TrueTo, Reflects
  <1> DEFINE x == fed.x
             taps == kernel.taps
             ring == kernel.rings[c]
             p == kernel.ring_pos
  <1>3. taps \in Nat
    <2>1. Formed(kind, kernel)
      BY SteadyFormed DEF KernelInv
    <2>. QED
      BY <2>1, SMT DEF Formed
  <1>4. c \in 1..ch /\ ring \in [0..(taps - 1) -> Int] /\ p \in 0..AverageTail(kernel)
    BY <1>2 DEF Shaped
  <1>5. i \in 0..(taps - 1) /\ i # p /\ taps \in Nat \ {0} /\ p \in 0..(taps - 1)
    BY <1>3, <1>4 DEF AverageTail
  <1>6. kernel.flushed = taps - 1
    <2>1. kernel.flushed = DeclaredTail
      BY Zenon DEF KernelInv, DrainCounted, Drained
    <2>2. "average" \notin Filters
      BY DEF Filters
    <2>3. DeclaredTail = AverageTail(kernel)
      BY <2>2 DEF DeclaredTail
    <2>. QED
      BY <1>5, <2>1, <2>3 DEF AverageTail
  <1>7. \A d \in 0..(taps - 2) : At(x, c, m - d) = 0
    <2>1. \A d \in 0..(kernel.flushed - 1) : At(x, c, m - d) = 0
      BY <1>2, <1>4, Zenon DEF Quiet
    <2>. QED
      BY <1>5, <1>6, <2>1
  <1>8. \A j \in 0..(taps - 1) : ring[(p + j) % taps] = At(x, c, m - taps + 1 + j)
    BY <1>2, <1>4, Zenon DEF Right, AveragesRight, AverageRight
  <1> HIDE DEF x, taps, ring, p
  <1> DEFINE j == IF i > p THEN i - p ELSE i - p + taps
  <1>9. j \in 0..(taps - 1) /\ j >= 1 /\ (IF p + j < taps THEN p + j ELSE p + j - taps) = i
    BY <1>5
  <1> DEFINE d == taps - 1 - j
  <1>10. d \in 0..(taps - 2) /\ m - taps + 1 + j = m - d
    BY <1>5, <1>9
  <1> HIDE DEF j, d
  <1>11. (p + j) % taps = i
    BY <1>5, <1>9, RingPlace
  <1>12. ring[i] = At(x, c, m - d)
    BY <1>8, <1>9, <1>10, <1>11
  <1>13. ring[i] = 0
    BY <1>7, <1>10, <1>12
  <1>. QED
    BY <1>13 DEF ring

\* There is a walk of any number of steps.
LEMMA WalkExists ==
  ASSUME NEW n \in Nat, NEW T, NEW base \in T, NEW G, Paces(G, n, T)
  PROVE  \E A \in [0..n -> T] : Walks(A, G, base, n)
  <1>1. PICK H : Recurs(H, G, base, n, T)
    BY FoldExists
  <1>2. Steps(H, G, base, n, T)
    <2>1. {} \in SUBSET (1..n)
      OBVIOUS
    <2>. QED
      BY <1>1, <2>1, Zenon DEF Recurs, Steps
  <1>3. PICK A : Passes(A, H, G, base, n, T)
    BY <1>2, FoldWalks
  <1>. QED
    BY <1>3, Zenon DEF Passes

\* The state of a filter at rest.
RestOf(kind_) == IF kind_ = "dc_blocker" THEN [x1 |-> 0, y1 |-> 0]
                 ELSE [x1 |-> 0, x2 |-> 0, y1 |-> 0, y2 |-> 0]

\* The channel's history can be filtered, frame by frame.
Filterable(kind_, k, h, c, n) ==
  \A i \in 1..n : Works(kind_, FilterOf(kind_, k, h.p[i])) /\ At(h.x, c, i) \in Int

\* The states a filter's channel goes through from rest.
Course(A, kind_, k, h, c, n) ==
  /\ A \in [0..n -> StatesOf(kind_)]
  /\ A[0] = RestOf(kind_)
  /\ \A i \in 1..n : A[i] = FilterStep(kind_, A[i - 1], At(h.x, c, i), FilterOf(kind_, k, h.p[i]))

\* It goes through some.
LEMMA CourseExists ==
  ASSUME NEW kind_ \in Filters, NEW k, NEW h, NEW c, NEW n \in Nat, Filterable(kind_, k, h, c, n)
  PROVE  \E A : Course(A, kind_, k, h, c, n)
  <1> DEFINE T == StatesOf(kind_)
             base == RestOf(kind_)
             x(i) == At(h.x, c, i)
             r(i) == FilterOf(kind_, k, h.p[i])
             G == [q \in (1..n) \X T |-> FilterStep(kind_, q[2], x(q[1]), r(q[1]))]
  <1>1. \A i \in 1..n : Works(kind_, r(i)) /\ x(i) \in Int
    BY Zenon DEF Filterable
  <1>2. base \in T
    <2>1. CASE kind_ = "dc_blocker"
      BY <2>1 DEF RestOf, StatesOf
    <2>2. CASE kind_ = "biquad"
      <3>1. kind_ # "dc_blocker"
        BY <2>2
      <3>. QED
        BY <3>1 DEF RestOf, StatesOf
    <2>. QED
      BY <2>1, <2>2 DEF Filters
  <1> HIDE DEF T, base, x, r
  <1>3. \A i \in 1..n, s \in T : FilterStep(kind_, s, x(i), r(i)) \in T
    BY <1>1, FilterStepTyped DEF T
  <1>4. Paces(G, n, T)
    BY <1>3 DEF Paces
  <1>5. \A i \in 1..n, s \in T : G[<<i, s>>] = FilterStep(kind_, s, x(i), r(i))
    OBVIOUS
  <1> HIDE DEF G
  <1>6. PICK A \in [0..n -> T] : Walks(A, G, base, n)
    BY <1>2, <1>4, WalkExists
  <1>7. ASSUME NEW i \in 1..n
        PROVE  A[i] = FilterStep(kind_, A[i - 1], x(i), r(i))
    <2>1. i - 1 \in 0..n
      OBVIOUS
    <2>2. A[i - 1] \in T
      BY <2>1
    <2>3. A[i] = G[<<i, A[i - 1]>>]
      BY <1>6, Zenon DEF Walks
    <2>. QED
      BY <1>5, <2>2, <2>3
  <1>8. A[0] = base
    BY <1>6, Zenon DEF Walks
  <1>. QED
    BY <1>7, <1>8 DEF Course, T, base, x, r

\* So there is an answer to any such history.
LEMMA AnswerExists ==
  ASSUME NEW kind_ \in Filters, NEW k, NEW h, NEW c, NEW n \in Nat, Filterable(kind_, k, h, c, n)
  PROVE  \E y : y \in [-1..n -> Int] /\ Answers(kind_, k, h, c, y, n)
  <1>1. PICK A : Course(A, kind_, k, h, c, n)
    BY CourseExists
  <1> DEFINE x(i) == At(h.x, c, i)
             y == [i \in -1..n |-> IF i = -1 THEN 0 ELSE A[i].y1]
  <1>2. /\ A \in [0..n -> StatesOf(kind_)] /\ A[0] = RestOf(kind_)
        /\ \A i \in 1..n :
             A[i] = FilterStep(kind_, A[i - 1], x(i), FilterOf(kind_, k, h.p[i]))
    BY <1>1, Zenon DEF Course
  <1>3. x(0) = 0 /\ x(-1) = 0
    BY DEF At
  <1> HIDE DEF x
  <1>4. y[-1] = 0 /\ \A i \in 0..n : y[i] = A[i].y1
    OBVIOUS
  <1>5. y \in [-1..n -> Int]
    <2>1. ASSUME NEW i \in 0..n PROVE A[i].y1 \in Int
      <3>1. A[i] \in StatesOf(kind_)
        BY <1>2
      <3>. QED
        BY <3>1 DEF StatesOf
    <2>. QED
      BY <2>1
  <1> HIDE DEF y
  <1>6. y[0] = 0
    BY <1>2, <1>4 DEF RestOf
  <1>7. CASE kind_ = "dc_blocker"
    <2>1. \A i \in 0..n : A[i].x1 = x(i)
      <3>1. A[0].x1 = x(0)
        BY <1>2, <1>3, <1>7 DEF RestOf
      <3>2. ASSUME NEW i \in 1..n PROVE A[i].x1 = x(i)
        <4> DEFINE r == FilterOf(kind_, k, h.p[i])
                   s == A[i - 1]
        <4>1. A[i] = FilterStep(kind_, s, x(i), r)
          BY <1>2
        <4> HIDE DEF r, s
        <4>. QED
          BY <1>7, <4>1 DEF FilterStep, DcStep
      <3>. QED
        BY <3>1, <3>2
    <2>2. ASSUME NEW i \in 1..n
          PROVE  y[i] = x(i) - x(i - 1) + Quotient(Pole(h.p[i][1], k.fs) * y[i - 1], Unit)
      <3> DEFINE r == FilterOf(kind_, k, h.p[i])
      <3>1. r = Pole(h.p[i][1], k.fs)
        BY <1>7 DEF FilterOf
      <3>2. A[i] = FilterStep(kind_, A[i - 1], x(i), r)
        BY <1>2
      <3> HIDE DEF r
      <3>3. A[i].y1 = x(i) - A[i - 1].x1 + Quotient(r * A[i - 1].y1, Unit)
        BY <1>7, <3>2 DEF FilterStep, DcStep
      <3>4. i - 1 \in 0..n /\ i \in 0..n
        OBVIOUS
      <3>5. A[i - 1].x1 = x(i - 1) /\ A[i - 1].y1 = y[i - 1] /\ y[i] = A[i].y1
        BY <1>4, <2>1, <3>4
      <3>. QED
        BY <3>1, <3>3, <3>5
    <2>3. ASSUME NEW i \in 1..n PROVE y[i] = NextAnswer(kind_, k, h, c, y, i)
      BY <1>7, <2>2, Zenon DEF NextAnswer, x
    <2>. QED
      BY <1>4, <1>5, <1>6, <2>3 DEF Answers
  <1>8. CASE kind_ = "biquad"
    <2>1. \A i \in 0..n : A[i].x1 = x(i) /\ A[i].x2 = x(i - 1) /\ A[i].y2 = y[i - 1]
      <3>1. A[0].x1 = x(0) /\ A[0].x2 = x(0 - 1) /\ A[0].y2 = y[0 - 1]
        BY <1>2, <1>3, <1>4, <1>8 DEF RestOf
      <3>2. ASSUME NEW i \in 1..n
            PROVE  A[i].x1 = x(i) /\ A[i].x2 = A[i - 1].x1 /\ A[i].y2 = A[i - 1].y1
        <4> DEFINE r == FilterOf(kind_, k, h.p[i])
                   s == A[i - 1]
        <4>1. A[i] = FilterStep(kind_, s, x(i), r)
          BY <1>2
        <4>2. kind_ # "dc_blocker"
          BY <1>8
        <4>3. /\ A[i].x1 = x(i) /\ A[i].x2 = s.x1 /\ A[i].y2 = s.y1
          <5> HIDE DEF r, s
          <5>. QED
            BY <4>1, <4>2 DEF FilterStep, BiquadStep
        <4>. QED
          BY <4>3
      <3>3. ASSUME NEW i \in 0..n PROVE A[i].x1 = x(i)
        BY <3>1, <3>2
      <3>4. ASSUME NEW i \in 1..n PROVE A[i].x2 = x(i - 1) /\ A[i].y2 = y[i - 1]
        <4>1. i - 1 \in 0..n
          OBVIOUS
        <4>. QED
          BY <1>4, <3>2, <3>3, <4>1
      <3>. QED
        BY <3>1, <3>3, <3>4
    <2>2. ASSUME NEW i \in 1..n PROVE y[i] = NextAnswer(kind_, k, h, c, y, i)
      <3> DEFINE r == FilterOf(kind_, k, h.p[i])
                 s == A[i - 1]
      <3>1. r = RuntimeCoeffs(k, h.p[i])
        BY <1>8 DEF FilterOf
      <3>2. A[i] = FilterStep(kind_, s, x(i), r)
        BY <1>2
      <3>3. i - 1 \in 0..n /\ i \in 0..n /\ (i - 1) - 1 = i - 2
        OBVIOUS
      <3>4. /\ s.x1 = x(i - 1) /\ s.x2 = x(i - 2) /\ s.y1 = y[i - 1] /\ s.y2 = y[i - 2]
            /\ y[i] = A[i].y1
        BY <1>4, <2>1, <3>3
      <3> HIDE DEF r, s
      <3>5. A[i].y1 = Quotient(r.b0 * x(i) + r.b1 * s.x1 + r.b2 * s.x2 - r.a1 * s.y1 - r.a2 * s.y2, r.a0)
        BY <1>8, <3>2 DEF FilterStep, BiquadStep
      <3>6. y[i] = Quotient(r.b0 * x(i) + r.b1 * x(i - 1) + r.b2 * x(i - 2)
                              - r.a1 * y[i - 1] - r.a2 * y[i - 2], r.a0)
        BY <3>4, <3>5, Zenon
      <3>7. kind_ # "dc_blocker"
        BY <1>8
      <3>. QED
        BY <3>1, <3>6, <3>7, Zenon DEF NextAnswer, x
    <2>. QED
      BY <1>4, <1>5, <1>6, <2>2 DEF Answers
  <1>. QED
    BY <1>7, <1>8 DEF Filters

\* A history that the kernel was run with can be filtered.
LEMMA HistoryFilters ==
  ASSUME KernelInv, kind \in Filters, NEW ch \in Nat, NEW m \in Nat, TrueTo(ch, m),
         Ready(kind, kernel), NEW c \in 1..ch
  PROVE  Filterable(kind, kernel, fed, c, m)
  <1>1. Formed(kind, kernel) /\ Made(kind, kernel)
    BY SteadyFormed, SteadyMade DEF KernelInv
  <1>2. /\ \A i \in 1..m : Vetted(InfoOf(kernel), fed.p[i])
        /\ Sampled(fed.x, ch, m, 1)
    BY Zenon DEF TrueTo, Historic, Chronicle
  <1>3. ASSUME NEW i \in 1..m
        PROVE  Works(kind, FilterOf(kind, kernel, fed.p[i])) /\ At(fed.x, c, i) \in Int
    <2>1. Vetted(InfoOf(kernel), fed.p[i])
      BY <1>2
    <2>2. Steers(kind, kernel, fed.p[i])
      BY <1>1, <2>1, SteersVetted
    <2>3. Works(kind, FilterOf(kind, kernel, fed.p[i]))
      BY <2>2, Zenon DEF Steers
    <2>4. FiniteOrZero(fed.x[c][i]) \in Int
      BY <1>2, Zenon DEF Sampled
    <2>. QED
      BY <2>3, <2>4 DEF At
  <1>. QED
    BY <1>3, Zenon DEF Filterable

\* y is what the response to the history is defined as, over channel c of its m frames.
Responds(y, c, m) ==
  y = [n \in -1..m |->
        IF n < 1 THEN 0
        ELSE IF kind = "dc_blocker"
             THEN X(c, n) - X(c, n - 1) + Quotient(Pole(fed.p[n][1], kernel.fs) * y[n - 1], Unit)
        ELSE LET k == RuntimeCoeffs(kernel, fed.p[n])
             IN  Quotient(k.b0 * X(c, n) + k.b1 * X(c, n - 1) + k.b2 * X(c, n - 2)
                            - k.a1 * y[n - 1] - k.a2 * y[n - 2], k.a0)]

\* It is an answer to that.
LEMMA RespondsAnswers ==
  ASSUME NEW m \in Nat, NEW c, NEW y, y = [n \in -1..m |-> y[n]]
  PROVE  Responds(y, c, m) <=> Answers(kind, kernel, fed, c, y, m)
  <1> DEFINE R(n) == IF n < 1 THEN 0 ELSE NextAnswer(kind, kernel, fed, c, y, n)
  <1>1. Responds(y, c, m) <=> y = [n \in -1..m |-> R(n)]
    BY Zenon DEF Responds, NextAnswer, X, At
  <1>2. -1 \in -1..m /\ 0 \in -1..m
    OBVIOUS
  <1>3. \A n \in -1..m : n = -1 \/ n = 0 \/ n \in 1..m
    OBVIOUS
  <1>4. R(-1) = 0 /\ R(0) = 0
    OBVIOUS
  <1>5. \A n \in 1..m : n \in -1..m /\ R(n) = NextAnswer(kind, kernel, fed, c, y, n)
    OBVIOUS
  <1> HIDE DEF R
  <1>6. y = [n \in -1..m |-> y[n]]
    BY <1>2
  <1>7. (y = [n \in -1..m |-> R(n)]) <=> \A n \in -1..m : y[n] = R(n)
    BY <1>6
  <1>8. Answers(kind, kernel, fed, c, y, m) <=> \A n \in -1..m : y[n] = R(n)
    <2>1. ASSUME Answers(kind, kernel, fed, c, y, m) PROVE \A n \in -1..m : y[n] = R(n)
      <3>1. y[0] = 0 /\ y[-1] = 0 /\ \A i \in 1..m : y[i] = NextAnswer(kind, kernel, fed, c, y, i)
        BY <2>1, Zenon DEF Answers
      <3>. QED
        BY <1>3, <1>4, <1>5, <3>1
    <2>2. ASSUME \A n \in -1..m : y[n] = R(n) PROVE Answers(kind, kernel, fed, c, y, m)
      <3>1. y[0] = 0 /\ y[-1] = 0
        BY <1>2, <1>4, <2>2
      <3>2. \A i \in 1..m : y[i] = NextAnswer(kind, kernel, fed, c, y, i)
        BY <1>5, <2>2
      <3>. QED
        BY <3>1, <3>2 DEF Answers
    <2>. QED
      BY <2>1, <2>2
  <1>. QED
    BY <1>1, <1>7, <1>8

\* So the response is one.
LEMMA ResponseAnswers ==
  ASSUME KernelInv, kind \in Filters, NEW ch \in Nat, NEW m \in Nat, TrueTo(ch, m),
         Ready(kind, kernel), NEW c \in 1..ch, Fed = m
  PROVE  Answers(kind, kernel, fed, c, Response(c), m)
  <1>1. Filterable(kind, kernel, fed, c, m)
    BY HistoryFilters
  <1>2. PICK y : y \in [-1..m -> Int] /\ Answers(kind, kernel, fed, c, y, m)
    BY <1>1, AnswerExists
  <1>3. DOMAIN y = -1..m /\ y = [n \in -1..m |-> y[n]]
    BY <1>2
  <1>4. Responds(y, c, m)
    BY <1>2, <1>3, RespondsAnswers
  <1>5. Response(c) = CHOOSE z : Responds(z, c, m)
    BY Zenon DEF Response, Responds
  <1>6. Responds(Response(c), c, m)
    BY <1>4, <1>5
  <1> DEFINE z == Response(c)
  <1>7. DOMAIN z = -1..m /\ z = [n \in -1..m |-> z[n]]
    <2> HIDE DEF z
    <2>1. Responds(z, c, m)
      BY <1>6 DEF z
    <2>. QED
      BY <2>1 DEF Responds
  <1> HIDE DEF z
  <1>8. Answers(kind, kernel, fed, c, z, m)
    BY <1>6, <1>7, RespondsAnswers DEF z
  <1>. QED
    BY <1>8 DEF z

\* A biquad's drain goes on with what the readout gives of the last parameters, and is stable.
LEMMA ReadoutIs ==
  ASSUME KernelInv, kind = "biquad", NEW ch \in Nat, NEW m \in Nat, TrueTo(ch, m),
         Ready(kind, kernel)
  PROVE  /\ kernel.flush_coeffs = TryCoeffs(kernel, LastOf(fed.p))
         /\ IsStable(kernel.flush_coeffs)
  <1>1. Formed(kind, kernel) /\ Made(kind, kernel)
    BY SteadyFormed, SteadyMade DEF KernelInv
  <1>2. /\ Right(kind, kernel, fed, ch, m) /\ kind \in Filters
    <2>1. Right(kind, kernel, fed, ch, m)
      BY Zenon DEF TrueTo, Reflects
    <2>. QED
      BY <2>1 DEF Filters
  <1>3. StatesRight(kind, kernel, fed, ch, m)
    BY <1>2, Zenon DEF Right
  <1>4. /\ DOMAIN fed = {"x", "sidechain", "p"} /\ Chronicle(kind, kernel, fed, ch, m)
        /\ (m = 0 => fed.p = <<>>) /\ \A i \in 1..m : Vetted(InfoOf(kernel), fed.p[i])
    BY Zenon DEF TrueTo, Historic
  <1>5. "params" \in DOMAIN kernel
    BY <1>1 DEF Formed
  <1>6. InfoOf(kernel) = kernel.params /\ ParamInfo = kernel.params
    BY <1>5 DEF InfoOf, ParamInfo
  <1>7. Told(ch, m)
    BY <1>4, <1>6, Zenon DEF Told
  <1> DEFINE p == LastOf(fed.p)
  <1>8. Vetted(kernel.params, p)
    BY <1>6, <1>7, LastVetted
  <1>9. p = LastAt(kernel, fed, m)
    <2>1. DOMAIN fed.p = 1..m
      BY <1>4, Zenon DEF Chronicle
    <2>2. p = IF m = 0 THEN [i \in DOMAIN ParamInfo |-> ParamInfo[i].default] ELSE fed.p[m]
      BY <1>4, <2>1, LastIs
    <2>. QED
      BY <1>6, <2>2, Zenon DEF LastAt
  <1>10. DOMAIN kernel.params = 1..3
    BY <1>1 DEF Made
  <1>11. FlushOf(kind, kernel) = FilterOf(kind, kernel, LastAt(kernel, fed, m))
    <2>1. kind # "dc_blocker"
      OBVIOUS
    <2>. QED
      BY <1>2, <1>3, <1>10, <2>1, FlushIsLast
  <1>12. kernel.flush_coeffs = RuntimeCoeffs(kernel, p)
    BY <1>9, <1>11 DEF FlushOf, FilterOf
  <1> HIDE DEF p
  <1>13. /\ IsStable(RuntimeCoeffs(kernel, p)) /\ \A i \in 1..3 : Finite(p[i])
    BY <1>1, <1>8, RuntimeWorks
  <1>14. kernel.fs \in Nat /\ kernel.fs >= 3
    BY Zenon DEF Ready
  <1>15. ~ kernel.fs < 3
    BY <1>14
  <1>16. TryCoeffs(kernel, p) = RuntimeCoeffs(kernel, p)
    BY <1>13, <1>15, Zenon DEF TryCoeffs
  <1>. QED
    BY <1>12, <1>13, <1>16 DEF p

\* A recursive filter's output is its difference equation over the whole history, however it was
\* cut into runs, and a drain is what silence would have given with the parameters last rendered
\* with; those coefficients are stable, and the readout gives the same (filters/biquad.rs and
\* repair/dc_blocker.rs, render, flush and try_coeffs): for every table of coefficients and poles.
LEMMA RecurrenceFollows == KernelInv /\ HistoryInv => RecurrenceExact
  <1> SUFFICES ASSUME KernelInv, HistoryInv, kind \in Filters, prepared # NotPrepared
               PROVE  RecurrenceExact
    BY DEF RecurrenceExact
  <1>1. PICK ch \in Nat, m \in Nat : TrueTo(ch, m)
    BY DEF HistoryInv
  <1>2. Fed = m /\ HeardRight(ch, m)
    BY <1>1, HeardOk DEF Claimed
  <1>3. Ready(kind, kernel) /\ Reflects(kind, kernel, fed, ch, m)
    BY <1>1, Zenon DEF TrueTo
  <1>4. Right(kind, kernel, fed, ch, m) /\ Shaped(kind, kernel, ch)
    BY <1>3, Zenon DEF Reflects
  <1>5. DOMAIN kernel.state = 1..ch
    BY <1>4, Zenon DEF Shaped
  <1>6. \A c \in 1..ch : StateRight(kind, kernel, fed, c, kernel.state[c], m)
    BY <1>4, Zenon DEF Right, StatesRight
  <1>7. kind = "biquad" => /\ kernel.flush_coeffs = TryCoeffs(kernel, LastOf(fed.p))
                           /\ IsStable(kernel.flush_coeffs)
    BY <1>1, <1>3, ReadoutIs
  <1>8. ASSUME NEW c \in DOMAIN kernel.state
        PROVE  /\ kernel.state[c].y1 = Response(c)[Fed] /\ kernel.state[c].x1 = X(c, Fed)
               /\ kind = "biquad" => /\ kernel.state[c].y2 = Response(c)[Fed - 1]
                                     /\ kernel.state[c].x2 = X(c, Fed - 1)
               /\ out # <<>> => \A h \in Heard(c) : out[c][h[1]] = Response(c)[h[2]]
    <2>1. c \in 1..ch
      BY <1>5
    <2>2. Answers(kind, kernel, fed, c, Response(c), m)
      BY <1>1, <1>2, <1>3, <2>1, ResponseAnswers
    <2> DEFINE y == Response(c)
               s == kernel.state[c]
    <2>3. StateRight(kind, kernel, fed, c, s, m)
      BY <1>6, <2>1
    <2> HIDE DEF y, s
    <2>4. Answers(kind, kernel, fed, c, y, m)
      BY <2>2 DEF y
    <2>5. \A n : X(c, n) = At(fed.x, c, n)
      BY Zenon DEF X, At
    <2>6. s.y1 = y[m] /\ s.x1 = X(c, m)
      BY <2>3, <2>4, <2>5, Zenon DEF StateRight
    <2>7. kind = "biquad" => s.y2 = y[m - 1] /\ s.x2 = X(c, m - 1)
      BY <2>3, <2>4, <2>5, Zenon DEF StateRight
    <2>8. ASSUME out # <<>>, NEW h \in Heard(c) PROVE out[c][h[1]] = y[h[2]]
      <3>1. OkAt(kind, kernel, fed, c, h[2], out[c][h[1]])
        BY <1>2, <2>1, <2>8, Zenon DEF HeardRight
      <3>2. h[2] \in 1..m
        BY <1>2, <2>1, <2>8, Zenon DEF HeardRight
      <3>3. Answers(kind, kernel, fed, c, y, h[2])
        <4>1. y[0] = 0 /\ y[-1] = 0 /\ \A i \in 1..m : y[i] = NextAnswer(kind, kernel, fed, c, y, i)
          BY <2>4, Zenon DEF Answers
        <4>2. \A i \in 1..h[2] : i \in 1..m
          BY <3>2
        <4>. QED
          BY <4>1, <4>2, Zenon DEF Answers
      <3>. QED
        BY <3>1, <3>3, Zenon DEF OkAt
    <2>. QED
      BY <1>2, <2>6, <2>7, <2>8, Zenon DEF y, s
  <1>. QED
    BY <1>7, <1>8, Zenon DEF RecurrenceExact

\* Induction up to a number, on sets.
LEMMA UpTo ==
  ASSUME NEW m \in Nat, NEW S, 0 \in S, \A n \in 0..(m - 1) : n \in S => n + 1 \in S
  PROVE  \A n \in 0..m : n \in S
  <1> DEFINE N == {n \in Nat : n <= m => n \in S}
  <1>1. 0 \in N
    OBVIOUS
  <1>2. ASSUME NEW n \in N PROVE n + 1 \in N
    <2>1. n \in Nat /\ n + 1 \in Nat /\ (n <= m => n \in S)
      OBVIOUS
    <2>2. ASSUME n + 1 <= m PROVE n + 1 \in S
      BY <2>1, <2>2
    <2>. QED
      BY <2>1, <2>2
  <1>3. N \in SUBSET Nat
    OBVIOUS
  <1> HIDE DEF N
  <1>4. N = Nat
    BY <1>1, <1>2, <1>3, NatInd
  <1>. QED
    BY <1>4 DEF N

\* Envelopes whose levels have logarithms.
HeededLevels == {v \in Nat : Heeded(v)}

\* An envelope is never above what it follows and was.
LEMMA FollowHeeded ==
  ASSUME NEW k, k.atk \in Nat \ {0}, k.rel \in Nat \ {0}, NEW env \in HeededLevels,
         NEW level \in HeededLevels
  PROVE  Follow(k, env, level) \in HeededLevels
  <1>1. env \in Nat /\ level \in Nat /\ 1..env \subseteq DOMAIN Ln /\ 1..level \subseteq DOMAIN Ln
    BY DEF HeededLevels, Heeded, Magnitude
  <1> DEFINE f == Follow(k, env, level)
  <1>2. f \in Nat
    BY <1>1, FollowTyped
  <1>3. f <= env \/ f <= level
    <2>1. CASE level > env
      <3> DEFINE d == level - env
                 q == d \div k.atk
      <3>1. d \in Nat /\ k.atk \in Nat \ {0} /\ f = env + q
        BY <1>1, <2>1 DEF Follow
      <3> HIDE DEF d
      <3>2. q <= d
        BY <3>1, Z3
      <3>3. q \in Int
        BY <3>1, Z3
      <3> HIDE DEF q, f
      <3>. QED
        BY <1>1, <3>1, <3>2, <3>3 DEF d
    <2>2. CASE ~ level > env
      <3> DEFINE e == env - level + k.rel - 1
                 q == e \div k.rel
      <3>1. e \in Nat /\ k.rel \in Nat \ {0} /\ f = env - q
        BY <1>1, <2>2 DEF Follow
      <3> HIDE DEF e
      <3>2. q \in Nat
        BY <3>1, Z3
      <3> HIDE DEF q, f
      <3>. QED
        BY <1>1, <3>1, <3>2
    <2>. QED
      BY <2>1, <2>2
  <1> HIDE DEF f
  <1>4. 1..f \subseteq DOMAIN Ln
    BY <1>1, <1>2, <1>3
  <1>5. f \in HeededLevels
    BY <1>2, <1>4 DEF HeededLevels, Heeded, Magnitude
  <1>. QED
    BY <1>5 DEF f

\* The history can be listened to.
Listened(k, h, n) == \A i \in 1..n : Level(HeardBy(k, h), i) \in HeededLevels

\* Then there is an envelope of it.
LEMMA EnvelopeExists ==
  ASSUME NEW k, k.atk \in Nat \ {0}, k.rel \in Nat \ {0}, NEW h, NEW n \in Nat, Listened(k, h, n)
  PROVE  \E e : e \in [0..n -> HeededLevels] /\ Follows(k, h, e, n)
  <1> DEFINE T == HeededLevels
             level(i) == Level(HeardBy(k, h), i)
             G == [q \in (1..n) \X T |-> Follow(k, q[2], level(q[1]))]
             base == 0
  <1>1. \A i \in 1..n : level(i) \in T
    BY Zenon DEF Listened
  <1>2. base \in T
    BY DEF HeededLevels, Heeded, Magnitude
  <1> HIDE DEF T, level, base
  <1>3. \A i \in 1..n, s \in T : Follow(k, s, level(i)) \in T
    BY <1>1, FollowHeeded DEF T
  <1>4. Paces(G, n, T)
    BY <1>3 DEF Paces
  <1>5. \A i \in 1..n, s \in T : G[<<i, s>>] = Follow(k, s, level(i))
    OBVIOUS
  <1> HIDE DEF G
  <1>6. PICK A \in [0..n -> T] : Walks(A, G, base, n)
    BY <1>2, <1>4, WalkExists
  <1>7. ASSUME NEW i \in 1..n
        PROVE  A[i] = Follow(k, A[i - 1], level(i))
    <2>1. i - 1 \in 0..n
      OBVIOUS
    <2>2. A[i - 1] \in T
      BY <2>1
    <2>3. A[i] = G[<<i, A[i - 1]>>]
      BY <1>6, Zenon DEF Walks
    <2>. QED
      BY <1>5, <2>2, <2>3
  <1>8. A[0] = base
    BY <1>6, Zenon DEF Walks
  <1>9. A[0] = 0 /\ \A i \in 1..n : A[i] = Follow(k, A[i - 1], Level(HeardBy(k, h), i))
    BY <1>7, <1>8 DEF base, level
  <1>10. Follows(k, h, A, n)
    BY <1>9, Zenon DEF Follows
  <1>. QED
    BY <1>10, Zenon DEF T

\* e is what the envelope of the history is defined as.
Envelops(e, m) ==
  e = [n \in 0..m |-> IF n = 0 THEN 0 ELSE Follow(kernel, e[n - 1], Level(HeardBy(kernel, fed), n))]

\* That is to follow the detector.
LEMMA EnvelopsFollows ==
  ASSUME NEW m \in Nat, NEW e, e = [n \in 0..m |-> e[n]]
  PROVE  Envelops(e, m) <=> Follows(kernel, fed, e, m)
  <1> DEFINE R(n) == IF n = 0 THEN 0 ELSE Follow(kernel, e[n - 1], Level(HeardBy(kernel, fed), n))
  <1>1. Envelops(e, m) <=> e = [n \in 0..m |-> R(n)]
    BY Zenon DEF Envelops
  <1>2. \A n \in 0..m : n = 0 \/ n \in 1..m
    OBVIOUS
  <1>3. R(0) = 0 /\ 0 \in 0..m
    OBVIOUS
  <1>4. \A n \in 1..m : /\ n \in 0..m
                        /\ R(n) = Follow(kernel, e[n - 1], Level(HeardBy(kernel, fed), n))
    OBVIOUS
  <1> HIDE DEF R
  <1>5. (e = [n \in 0..m |-> R(n)]) <=> \A n \in 0..m : e[n] = R(n)
    OBVIOUS
  <1>6. Follows(kernel, fed, e, m) <=> \A n \in 0..m : e[n] = R(n)
    <2>1. ASSUME Follows(kernel, fed, e, m) PROVE \A n \in 0..m : e[n] = R(n)
      <3>1. /\ e[0] = 0
            /\ \A i \in 1..m : e[i] = Follow(kernel, e[i - 1], Level(HeardBy(kernel, fed), i))
        BY <2>1, Zenon DEF Follows
      <3>. QED
        BY <1>2, <1>3, <1>4, <3>1
    <2>2. ASSUME \A n \in 0..m : e[n] = R(n) PROVE Follows(kernel, fed, e, m)
      <3>1. /\ e[0] = 0
            /\ \A i \in 1..m : e[i] = Follow(kernel, e[i - 1], Level(HeardBy(kernel, fed), i))
        BY <1>3, <1>4, <2>2
      <3>. QED
        BY <3>1, Zenon DEF Follows
    <2>. QED
      BY <2>1, <2>2
  <1>. QED
    BY <1>1, <1>5, <1>6

\* The envelope as the claim defines it.
EnvelopeOf(m) == CHOOSE e : Envelops(e, m)

\* It follows, and every value of it has a logarithm.
LEMMA EnvelopeFollows ==
  ASSUME NEW m \in Nat, kernel.atk \in Nat \ {0}, kernel.rel \in Nat \ {0},
         Listened(kernel, fed, m)
  PROVE  /\ Follows(kernel, fed, EnvelopeOf(m), m)
         /\ \A n \in 0..m : EnvelopeOf(m)[n] \in HeededLevels
  <1>1. PICK e : e \in [0..m -> HeededLevels] /\ Follows(kernel, fed, e, m)
    BY EnvelopeExists
  <1>2. e = [n \in 0..m |-> e[n]]
    BY <1>1
  <1>3. Envelops(e, m)
    BY <1>1, <1>2, EnvelopsFollows
  <1> DEFINE z == EnvelopeOf(m)
  <1>4. Envelops(z, m)
    BY <1>3, Zenon DEF EnvelopeOf
  <1> HIDE DEF z
  <1>5. z = [n \in 0..m |-> z[n]]
    BY <1>4 DEF Envelops
  <1>6. Follows(kernel, fed, z, m)
    BY <1>4, <1>5, EnvelopsFollows
  <1>7. \A n \in 0..m : z[n] \in HeededLevels
    <2> DEFINE S == {n \in Nat : z[n] \in HeededLevels}
    <2>1. 0 \in S
      <3>1. z[0] = 0
        BY <1>6, Zenon DEF Follows
      <3>. QED
        BY <3>1 DEF HeededLevels, Heeded, Magnitude
    <2>2. ASSUME NEW n \in 0..(m - 1), n \in S PROVE n + 1 \in S
      <3>1. n + 1 \in 1..m /\ (n + 1) - 1 = n
        OBVIOUS
      <3>2. z[n + 1] = Follow(kernel, z[(n + 1) - 1], Level(HeardBy(kernel, fed), n + 1))
        BY <1>6, <3>1, Zenon DEF Follows
      <3>3. Level(HeardBy(kernel, fed), n + 1) \in HeededLevels
        BY <3>1, Zenon DEF Listened
      <3>. QED
        BY <2>2, <3>1, <3>2, <3>3, FollowHeeded
    <2>3. \A n \in 0..m : n \in S
      <3> HIDE DEF S
      <3>. QED
        BY <2>1, <2>2, UpTo
    <2>. QED
      BY <2>3
  <1>. QED
    BY <1>6, <1>7 DEF z

\* The larger of two.
LEMMA PairMax ==
  ASSUME NEW a \in Int, NEW b \in Int
  PROVE  Max({a, b}) \in Int /\ Max({a, b}) >= a /\ Max({a, b}) >= b
         /\ (Max({a, b}) = a \/ Max({a, b}) = b)
  <1> DEFINE S == {a, b}
             m == IF a >= b THEN a ELSE b
  <1>1. m \in S /\ \A y \in S : m >= y
    OBVIOUS
  <1> HIDE DEF S, m
  <1>2. \E x \in S : \A y \in S : x >= y
    BY <1>1
  <1>3. Max(S) \in S /\ \A y \in S : Max(S) >= y
    BY <1>2, Zenon DEF Max
  <1>. QED
    BY <1>3 DEF S

\* Of a number that is at least one, the larger of it and one.
LEMMA OneOrMore ==
  ASSUME NEW r \in 1..20
  PROVE  Max({r, 1}) = r
  <1> DEFINE one == 1
             m == Max({r, one})
  <1>1. r \in Int /\ one \in Int /\ r >= one
    OBVIOUS
  <1> HIDE DEF one
  <1>2. m \in Int /\ m >= r /\ m >= one /\ (m = r \/ m = one)
    BY <1>1, PairMax
  <1> HIDE DEF m
  <1>3. m = r
    BY <1>1, <1>2
  <1>. QED
    BY <1>3 DEF m, one

\* The parameters of a gain curve.
Shapes(curve, p) ==
  /\ curve \in {"compressor", "gate", "expander"}
  /\ p[1] \in DOMAIN DbToLin /\ p[2] \in 1..20
  /\ curve = "compressor" => p[3] \in Nat
  /\ curve = "gate" => p[3] \in Int /\ p[3] <= 0

\* What is claimed of a gain.
GainBounded(curve, p, g) ==
  /\ curve = "compressor" => g[1] <= g[2] * LnDb * p[3]
  /\ curve # "compressor" => g[1] <= 0
  /\ curve = "gate" => g[1] >= LnDb * p[3]

\* Above the threshold by no less than nothing, below it by no more.
LEMMA OverSign ==
  ASSUME NEW p, p[1] \in DOMAIN DbToLin, NEW env \in HeededLevels
  PROVE  /\ DbToLin[p[1]] \in Nat \ {0}
         /\ Over(env, p) \in Int
         /\ env > DbToLin[p[1]] => Over(env, p) >= 0
         /\ env < DbToLin[p[1]] => Over(env, p) <= 0
  <1> DEFINE lin == DbToLin[p[1]]
             e == Max({env, EnvFloor})
  <1>1. lin \in DOMAIN Ln
    BY BallisticsAssumption
  <1>2. env \in Nat /\ 1..env \subseteq DOMAIN Ln
    BY DEF HeededLevels, Heeded, Magnitude
  <1>3. e \in Int /\ e >= env /\ e >= 1 /\ (e = env \/ e = 1)
    <2> DEFINE floor == EnvFloor
               x == Max({env, floor})
    <2>1. floor = 1 /\ env \in Int
      BY <1>2 DEF EnvFloor
    <2> HIDE DEF floor
    <2>2. floor \in Int
      BY <2>1
    <2>3. x \in Int /\ x >= env /\ x >= floor /\ (x = env \/ x = floor)
      BY <2>1, <2>2, PairMax
    <2>4. e = x
      BY DEF floor
    <2> HIDE DEF x
    <2>. QED
      BY <2>1, <2>3, <2>4
  <1>4. e \in DOMAIN Ln
    <2>1. 1 \in DOMAIN Ln
      BY BallisticsAssumption DEF EnvFloor
    <2> HIDE DEF e
    <2>. QED
      BY <1>2, <1>3, <2>1
  <1>5. Over(env, p) = Ln[e] - Ln[lin]
    BY DEF Over
  <1> HIDE DEF lin, e
  <1>6. lin \in Nat \ {0}
    BY <1>1, ParameterAssumption
  <1>7. Ln[e] \in Int /\ Ln[lin] \in Int
    BY <1>1, <1>4, ParameterAssumption
  <1>8. ASSUME env > lin PROVE Ln[lin] < Ln[e]
    <2>1. lin < e
      BY <1>2, <1>3, <1>6, <1>8
    <2>. QED
      BY <1>1, <1>4, <2>1, ParameterAssumption
  <1>9. ASSUME env < lin PROVE Ln[e] <= Ln[lin]
    <2>1. e < lin \/ e = lin
      BY <1>2, <1>3, <1>6, <1>9
    <2>2. CASE e < lin
      <3>1. Ln[e] < Ln[lin]
        BY <1>1, <1>4, <2>2, ParameterAssumption
      <3>. QED
        BY <1>7, <3>1
    <2>3. CASE e = lin
      BY <1>7, <2>3
    <2>. QED
      BY <2>1, <2>2, <2>3
  <1>10. /\ Over(env, p) \in Int
         /\ env > lin => Over(env, p) >= 0
         /\ env < lin => Over(env, p) <= 0
    BY <1>5, <1>7, <1>8, <1>9
  <1>. QED
    BY <1>6, <1>10 DEF lin

\* Signs of products.
LEMMA SignedProduct ==
  ASSUME NEW a \in Nat, NEW b \in Int
  PROVE  a * b \in Int /\ (b >= 0 => a * b >= 0) /\ (b <= 0 => a * b <= 0)
  <1>1. a * b \in Int
    OBVIOUS
  <1>2. ASSUME b >= 0 PROVE a * b >= 0
    BY <1>2, NatProducts
  <1>3. ASSUME b <= 0 PROVE a * b <= 0
    <2>1. a * (-b) \in Nat
      BY <1>3, NatProducts
    <2>2. a * (-b) = -(a * b)
      OBVIOUS
    <2>. QED
      BY <1>1, <2>1, <2>2
  <1>. QED
    BY <1>1, <1>2, <1>3

\* A compressor never lifts above its makeup, an expander never lifts, and a gate does not close
\* further than its range.
LEMMA GainBounds ==
  ASSUME NEW curve, NEW p, Shapes(curve, p), NEW env \in HeededLevels,
         NEW g, g = Gain(curve, env, p)
  PROVE  GainBounded(curve, p, g)
  <1> DEFINE lin == DbToLin[p[1]]
             over == Over(env, p)
             r == Ratio(p)
  <1>1. /\ curve \in {"compressor", "gate", "expander"}
        /\ p[1] \in DOMAIN DbToLin /\ p[2] \in 1..20
    BY Zenon DEF Shapes
  <1>2. lin \in Nat \ {0} /\ over \in Int /\ (env > lin => over >= 0) /\ (env < lin => over <= 0)
    BY <1>1, OverSign
  <1>3. r \in Nat \ {0}
    <2>1. r = p[2]
      BY <1>1, OneOrMore DEF Ratio
    <2>. QED
      BY <1>1, <2>1
  <1>4. env \in Nat
    BY DEF HeededLevels
  <1>5. LnDb \in Nat
    BY BallisticsAssumption
  <1> HIDE DEF lin, over, r
  <1> DEFINE s == r - 1
  <1>6. s \in Nat
    BY <1>3
  <1>7. s * over \in Int /\ (over >= 0 => s * over >= 0) /\ (over <= 0 => s * over <= 0)
    <2> HIDE DEF s
    <2>. QED
      BY <1>2, <1>6, SignedProduct
  <1>8. CASE curve = "compressor"
    <2> DEFINE makeup == LnDb * p[3]
    <2>1. p[3] \in Nat
      BY <1>8, Zenon DEF Shapes
    <2>2. makeup \in Nat
      BY <1>5, <2>1, NatProducts
    <2>3. g = IF env <= lin THEN <<LnDb * p[3], 1>>
              ELSE <<r * LnDb * p[3] - (r - 1) * over, r>>
      BY <1>8, Zenon DEF Gain, CompressorGain, lin, over, r
    <2>4. g[1] <= g[2] * LnDb * p[3]
      <3>1. CASE env <= lin
        <4>1. g[1] = LnDb * p[3] /\ g[2] = 1
          BY <2>3, <3>1
        <4>. QED
          BY <1>5, <2>1, <2>2, <4>1
      <3>2. CASE ~ env <= lin
        <4>1. g[1] = r * LnDb * p[3] - s * over /\ g[2] = r
          BY <2>3, <3>2
        <4>2. s * over \in Int /\ s * over >= 0
          BY <1>2, <1>4, <1>7, <3>2
        <4> DEFINE z == s * over
                   w == r * LnDb * p[3]
        <4>3. w \in Int
          BY <1>3, <1>5, <2>1
        <4> HIDE DEF s, z, w
        <4>4. g[1] = w - z /\ g[2] * LnDb * p[3] = w
          BY <4>1 DEF z, w
        <4>5. z \in Int /\ z >= 0
          BY <4>2 DEF z
        <4>. QED
          BY <4>3, <4>4, <4>5
      <3>. QED
        BY <3>1, <3>2
    <2>. QED
      BY <1>8, <2>4 DEF GainBounded
  <1>9. CASE curve = "expander"
    <2>1. g = IF env >= lin THEN <<0, 1>> ELSE <<s * over, 1>>
      BY <1>9, SMT DEF Gain, ExpanderGain, lin, over, r
    <2>2. g[1] <= 0
      <3>1. CASE env >= lin
        BY <2>1, <3>1
      <3>2. CASE ~ env >= lin
        <4>1. g[1] = s * over
          BY <2>1, <3>2
        <4>2. s * over <= 0
          BY <1>2, <1>4, <1>7, <3>2
        <4>. QED
          BY <4>1, <4>2, Zenon
      <3>. QED
        BY <3>1, <3>2
    <2>. QED
      BY <1>9, <2>2 DEF GainBounded
  <1>10. CASE curve = "gate"
    <2> DEFINE range == LnDb * p[3]
               z == s * over
    <2>1. p[3] \in Int /\ p[3] <= 0
      BY <1>10, Zenon DEF Shapes
    <2>2. range \in Int /\ range <= 0
      BY <1>5, <2>1, SignedProduct
    <2>3. g = IF env >= lin THEN <<0, 1>> ELSE <<Max({z, range}), 1>>
      BY <1>10, SMT DEF Gain, GateGain, lin, over, r
    <2>4. z \in Int /\ (~ env >= lin => z <= 0)
      BY <1>2, <1>4, <1>7
    <2> HIDE DEF z, range, s
    <2>5. Max({z, range}) \in Int /\ Max({z, range}) >= range
          /\ (Max({z, range}) = z \/ Max({z, range}) = range)
      BY <2>2, <2>4, PairMax
    <2>6. g[1] <= 0 /\ g[1] >= range
      <3>1. CASE env >= lin
        BY <2>2, <2>3, <3>1
      <3>2. CASE ~ env >= lin
        <4>1. g[1] = Max({z, range})
          BY <2>3, <3>2
        <4>. QED
          BY <2>2, <2>4, <2>5, <3>2, <4>1
      <3>. QED
        BY <3>1, <3>2
    <2>. QED
      BY <1>10, <2>6 DEF GainBounded, range
  <1>. QED
    BY <1>1, <1>8, <1>9, <1>10

\* The gain that the claim expects of a frame.
GainOf(n) == Gain(kernel.curve, EnvelopeOf(Fed)[n], fed.p[n])

\* The claim is that the frames have it, and that it is bounded.
LEMMA LinkedGainIs ==
  ASSUME kind = "dynamics" /\ prepared # NotPrepared /\ out # <<>> =>
           /\ \A c \in DOMAIN out : \A h \in Heard(c) : out[c][h[1]] = <<X(c, h[2]), GainOf(h[2])>>
           /\ \A n \in 1..Fed : GainBounded(kernel.curve, fed.p[n], GainOf(n))
  PROVE  LinkedGain
  BY Zenon DEF LinkedGain, GainOf, EnvelopeOf, Envelops, HeardBy, OutIs, GainBounded

\* Values that a kernel's parameters may have shape its curve.
LEMMA VettedShapes ==
  ASSUME NEW kind_, kind_ = "dynamics", NEW k, "params" \in DOMAIN k, Made(kind_, k),
         -80..0 \subseteq DOMAIN DbToLin, NEW p, Vetted(InfoOf(k), p)
  PROVE  Shapes(k.curve, p)
  <1>1. InfoOf(k) = k.params
    BY DEF InfoOf
  <1> DEFINE params == k.params
             curve == k.curve
  <1>2. /\ curve \in {"compressor", "gate", "expander"}
        /\ DOMAIN params = IF curve = "expander" THEN 1..2 ELSE 1..3
        /\ \E lo \in -80..0 : params[1].lo = lo /\ params[1].hi = 0
        /\ params[2].lo = 1 /\ params[2].hi = 20
        /\ curve = "compressor" => params[3].lo = 0 /\ params[3].hi = 24
        /\ curve = "gate" => params[3].lo = -120 /\ params[3].hi = 0
    <2> HIDE DEF params, curve
    <2>1. /\ curve \in {"compressor", "gate", "expander"}
          /\ DOMAIN params = IF curve = "expander" THEN 1..2 ELSE 1..3
          /\ \E lo \in -80..0 : Ranged(params[1], lo, 0)
          /\ Ranged(params[2], 1, 20)
          /\ curve = "compressor" => Ranged(params[3], 0, 24)
          /\ curve = "gate" => Ranged(params[3], -120, 0)
      BY DEF Made, params, curve
    <2>. QED
      BY <2>1 DEF Ranged
  <1>3. \A i \in DOMAIN params : p[i] \in (params[i].lo)..(params[i].hi)
    BY <1>1, Zenon DEF Vetted
  <1> HIDE DEF params, curve
  <1>4. 1 \in DOMAIN params /\ 2 \in DOMAIN params /\ (curve # "expander" => 3 \in DOMAIN params)
    BY <1>2
  <1>5. PICK lo \in -80..0 : params[1].lo = lo /\ params[1].hi = 0
    BY <1>2
  <1>6. p[1] \in lo..0
    <2>1. p[1] \in (params[1].lo)..(params[1].hi)
      BY <1>3, <1>4
    <2>. QED
      BY <1>5, <2>1
  <1>7. p[1] \in -80..0
    BY <1>6
  <1>8. p[2] \in 1..20
    <2>1. p[2] \in (params[2].lo)..(params[2].hi)
      BY <1>3, <1>4
    <2>. QED
      BY <1>2, <2>1
  <1>9. ASSUME curve = "compressor" PROVE p[3] \in Nat
    <2>1. p[3] \in (params[3].lo)..(params[3].hi)
      BY <1>3, <1>4, <1>9
    <2>. QED
      BY <1>2, <1>9, <2>1
  <1>10. ASSUME curve = "gate" PROVE p[3] \in Int /\ p[3] <= 0
    <2>1. p[3] \in (params[3].lo)..(params[3].hi)
      BY <1>3, <1>4, <1>10
    <2>. QED
      BY <1>2, <1>10, <2>1
  <1>11. p[1] \in DOMAIN DbToLin
    BY <1>7
  <1>12. curve \in {"compressor", "gate", "expander"}
    BY <1>2
  <1>. QED
    BY <1>8, <1>9, <1>10, <1>11, <1>12, Zenon DEF Shapes, curve

\* All channels of a frame get one gain, the curve's at the envelope of all that the detector has
\* heard: the sidechain where there is one, else the input as it was before this run overwrote it.
\* A compressor never lifts above its makeup, an expander never lifts, and a gate does not close
\* further than its range (dynamics/*.rs, render): whatever the levels, the ballistics and the cuts.
LEMMA LinkedGainFollows == KernelInv /\ HistoryInv => LinkedGain
  <1> SUFFICES ASSUME KernelInv, HistoryInv, kind = "dynamics", prepared # NotPrepared, out # <<>>
               PROVE  /\ \A c \in DOMAIN out : \A h \in Heard(c) :
                           out[c][h[1]] = <<X(c, h[2]), GainOf(h[2])>>
                      /\ \A n \in 1..Fed : GainBounded(kernel.curve, fed.p[n], GainOf(n))
    BY LinkedGainIs
  <1>1. PICK ch \in Nat, m \in Nat : TrueTo(ch, m)
    BY DEF HistoryInv
  <1>2. Fed = m /\ HeardRight(ch, m)
    BY <1>1, HeardOk DEF Claimed
  <1>3. Ready(kind, kernel) /\ Historic(kind, kernel, fed, ch, m)
    BY <1>1, Zenon DEF TrueTo
  <1>4. Formed(kind, kernel) /\ Made(kind, kernel) /\ -80..0 \subseteq DOMAIN DbToLin
    BY SteadyFormed, SteadyMade, SamplesHeeded DEF KernelInv
  <1>5. kernel.atk \in Nat \ {0} /\ kernel.rel \in Nat \ {0}
    BY <1>3, Zenon DEF Ready, Runnable
  <1>6. Listened(kernel, fed, m)
    <2>1. \A i \in 1..m : Level(HeardBy(kernel, fed), i) \in Nat /\ Heeded(Level(HeardBy(kernel, fed), i))
      BY <1>3, Zenon DEF Historic, Audible
    <2>2. \A i \in 1..m : Level(HeardBy(kernel, fed), i) \in HeededLevels
      BY <2>1 DEF HeededLevels
    <2>. QED
      BY <2>2, Zenon DEF Listened
  <1> DEFINE e == EnvelopeOf(m)
  <1>7. Follows(kernel, fed, e, m) /\ \A n \in 0..m : e[n] \in HeededLevels
    BY <1>5, <1>6, EnvelopeFollows
  <1> HIDE DEF e
  <1>8. \A n : GainOf(n) = Gain(kernel.curve, e[n], fed.p[n])
    BY <1>2, Zenon DEF GainOf, e
  <1>9. ASSUME NEW c \in DOMAIN out, NEW h \in Heard(c)
        PROVE  out[c][h[1]] = <<X(c, h[2]), GainOf(h[2])>>
    <2>1. h[2] \in 1..m /\ OkAt(kind, kernel, fed, c, h[2], out[c][h[1]])
      BY <1>2, Zenon DEF HeardRight
    <2>2. Follows(kernel, fed, e, h[2])
      <3>1. /\ e[0] = 0
            /\ \A i \in 1..m : e[i] = Follow(kernel, e[i - 1], Level(HeardBy(kernel, fed), i))
        BY <1>7, Zenon DEF Follows
      <3>2. \A i \in 1..h[2] : i \in 1..m
        BY <2>1
      <3>. QED
        BY <3>1, <3>2, Zenon DEF Follows
    <2>3. out[c][h[1]] = <<At(fed.x, c, h[2]), Gain(kernel.curve, e[h[2]], fed.p[h[2]])>>
      BY <2>1, <2>2, Zenon DEF OkAt
    <2>4. X(c, h[2]) = At(fed.x, c, h[2])
      BY Zenon DEF X, At
    <2>. QED
      BY <1>8, <2>3, <2>4, Zenon
  <1>10. ASSUME NEW n \in 1..Fed PROVE GainBounded(kernel.curve, fed.p[n], GainOf(n))
    <2>1. n \in 1..m /\ n \in 0..m
      BY <1>2
    <2>2. Vetted(InfoOf(kernel), fed.p[n])
      BY <1>3, <2>1, Zenon DEF Historic
    <2>3. "params" \in DOMAIN kernel
      BY <1>4 DEF Formed
    <2>4. Shapes(kernel.curve, fed.p[n])
      BY <1>4, <2>2, <2>3, VettedShapes
    <2>5. e[n] \in HeededLevels
      BY <1>7, <2>1
    <2>6. GainBounded(kernel.curve, fed.p[n], Gain(kernel.curve, e[n], fed.p[n]))
      BY <2>4, <2>5, GainBounds
    <2>. QED
      BY <1>8, <2>6, Zenon
  <1>. QED
    BY <1>9, <1>10

-----------------------------------------------------------------------------
(* The generators' and the dither's claims. *)

\* Squares grow.
LEMMA SquareGrows ==
  ASSUME NEW a \in Nat, NEW b \in Nat, a <= b
  PROVE  a * a \in Nat /\ a * a <= b * b
  <1> DEFINE d == b - a
  <1>1. d \in Nat
    OBVIOUS
  <1>2. a * a \in Nat /\ d * d \in Nat /\ a * d \in Nat
    <2> HIDE DEF d
    <2>. QED
      BY <1>1, NatProducts
  <1>3. b * b = a * a + 2 * (a * d) + d * d
    OBVIOUS
  <1>4. b * b \in Nat
    BY NatProducts
  <1> HIDE DEF d
  <1>. QED
    BY <1>2, <1>3, <1>4

\* A step is smoothed by at most its height, down before it and up after it.
LEMMA BlepBounds ==
  ASSUME NEW t \in 0..(Cycle - 1), NEW dt \in Nat, 2 * dt <= Cycle
  PROVE  /\ Blep(t, dt) \in Int
         /\ 2 * t < Cycle => -(dt * dt) <= Blep(t, dt) /\ Blep(t, dt) <= 0
         /\ 2 * t >= Cycle => 0 <= Blep(t, dt) /\ Blep(t, dt) <= dt * dt
         /\ t < dt => Blep(t, dt) = -((dt - t) * (dt - t))
         /\ dt <= t => 0 <= Blep(t, dt)
  <1>1. t \in Nat /\ t < Cycle /\ Cycle \in Nat
    BY CycleAssumption
  <1>2. dt * dt \in Nat
    BY NatProducts
  <1>3. CASE t < dt
    <2> DEFINE a == dt - t
    <2>1. a \in Nat /\ a <= dt
      BY <1>1, <1>3
    <2>2. Blep(t, dt) = 2 * t * dt - t * t - dt * dt
      BY <1>1, <1>3 DEF Blep
    <2>3. 2 * t * dt - t * t - dt * dt = -(a * a)
      BY <1>1
    <2>4. a * a \in Nat /\ a * a <= dt * dt
      <3> HIDE DEF a
      <3>. QED
        BY <2>1, SquareGrows
    <2>5. Blep(t, dt) = -((dt - t) * (dt - t))
      BY <2>2, <2>3
    <2> DEFINE b == Blep(t, dt)
               q == a * a
               s == dt * dt
    <2>6. b = -q /\ q \in Nat /\ q <= s /\ s \in Nat
      BY <1>2, <2>2, <2>3, <2>4
    <2> HIDE DEF a, b, q, s
    <2>7. b \in Int /\ -s <= b /\ b <= 0
      BY <2>6
    <2>. QED
      BY <1>1, <1>3, <2>5, <2>7 DEF b, s
  <1>4. CASE ~ t < dt /\ t > Cycle - dt
    <2> DEFINE a == t - Cycle + dt
    <2>1. a \in Nat /\ a <= dt /\ 2 * t >= Cycle /\ t >= dt
      BY <1>1, <1>4
    <2>2. Blep(t, dt) = a * a
      BY <1>1, <1>4, <2>1 DEF Blep
    <2>3. a * a \in Nat /\ a * a <= dt * dt
      <3> HIDE DEF a
      <3>. QED
        BY <2>1, SquareGrows
    <2> DEFINE b == Blep(t, dt)
               q == a * a
               s == dt * dt
    <2>4. b = q /\ q \in Nat /\ q <= s /\ s \in Nat
      BY <1>2, <2>2, <2>3
    <2> HIDE DEF a, b, q, s
    <2>5. b \in Int /\ 0 <= b /\ b <= s
      BY <2>4
    <2>. QED
      BY <1>1, <1>4, <2>1, <2>5 DEF b, s
  <1>5. CASE ~ t < dt /\ ~ t > Cycle - dt
    <2>1. Blep(t, dt) = 0
      BY <1>1, <1>5 DEF Blep
    <2>. QED
      BY <1>1, <1>2, <1>5, <2>1
  <1>. QED
    BY <1>3, <1>4, <1>5

\* No smoothing lifts a sawtooth above its amplitude,
LEMMA SawBounded ==
  ASSUME NEW ph \in 0..(Cycle - 1), NEW dt \in Nat, 2 * dt <= Cycle,
         NEW w, w = Wave("Saw", ph, dt)
  PROVE  Magnitude(w.num) <= w.den
  <1> DEFINE s == dt * dt
             b == Blep(ph, dt)
             C == Cycle
             r == 2 * ph - C
  <1>1. ph \in Nat /\ ph < C /\ C \in Nat \ {0} /\ 2 * dt <= C
    BY CycleAssumption
  <1>2. s \in Nat
    BY NatProducts
  <1>3. /\ b \in Int
        /\ 2 * ph < C => -s <= b /\ b <= 0
        /\ 2 * ph >= C => 0 <= b /\ b <= s
        /\ ph < dt => b = -((dt - ph) * (dt - ph))
        /\ dt <= ph => 0 <= b
    BY BlepBounds
  <1>4. r \in Int /\ r <= C /\ -C <= r
    BY <1>1
  <1>5. w.num = r * dt * dt - C * b /\ w.den = C * dt * dt
    BY DEF Wave
  <1>6. r * dt * dt = r * s /\ C * dt * dt = C * s
    BY <1>1, <1>4
  <1>7. C * s - r * s = (C - r) * s /\ C * s + r * s = (C + r) * s
    <2> HIDE DEF s, r
    <2>. QED
      BY <1>1, <1>2, <1>4
  <1>8. (C - r) * s >= 0 /\ (C + r) * s = 2 * (ph * s)
    <2>1. C - r \in Nat /\ C + r = 2 * ph
      BY <1>1, <1>4
    <2>2. (C - r) * s \in Nat
      <3> HIDE DEF s, r
      <3>. QED
        BY <1>2, <2>1, NatProducts
    <2> HIDE DEF s
    <2>. QED
      BY <1>1, <1>2, <2>1, <2>2
  <1>9. ph * s \in Nat
    BY <1>1, <1>2, NatProducts
  <1>10. r * s \in Int /\ C * s \in Int /\ C * b \in Int
    <2> HIDE DEF r, s, b
    <2>. QED
      BY <1>1, <1>2, <1>3, <1>4
  <1>11. CASE 2 * ph < C
    <2>1. C * b <= 0
      <3> HIDE DEF b
      <3>. QED
        BY <1>1, <1>3, <1>11, SignedProduct
    <2>2. r * s <= 0
      <3>1. -r \in Nat
        BY <1>1, <1>4, <1>11
      <3>2. (-r) * s \in Nat
        <4> HIDE DEF r, s
        <4>. QED
          BY <1>2, <3>1, NatProducts
      <3>3. (-r) * s = -(r * s)
        <4> HIDE DEF r, s
        <4>. QED
          BY <1>2, <1>4
      <3>. QED
        BY <1>10, <3>2, <3>3
    <2>3. -(C * b) <= C * s
      <3>1. b + s \in Nat
        BY <1>2, <1>3, <1>11
      <3>2. C * (b + s) \in Nat
        <4> HIDE DEF b, s
        <4>. QED
          BY <1>1, <3>1, NatProducts
      <3>3. C * (b + s) = C * b + C * s
        <4> HIDE DEF b, s
        <4>. QED
          BY <1>1, <1>2, <1>3
      <3>. QED
        BY <1>10, <3>2, <3>3
    <2> DEFINE x == r * s
               y == C * b
               z == C * s
    <2>4. x \in Int /\ y \in Int /\ z \in Int /\ y <= 0 /\ x <= 0 /\ -y <= z /\ z + x >= 0
      BY <1>7, <1>8, <1>9, <1>10, <2>1, <2>2, <2>3
    <2>5. w.num = x - y /\ w.den = z
      BY <1>5, <1>6
    <2> HIDE DEF x, y, z
    <2>. QED
      BY <2>4, <2>5 DEF Magnitude
  <1>12. CASE 2 * ph >= C
    <2>1. C * b >= 0
      <3> HIDE DEF b
      <3>. QED
        BY <1>1, <1>3, <1>12, SignedProduct
    <2>2. r * s >= 0
      <3>1. r \in Nat
        BY <1>1, <1>4, <1>12
      <3> HIDE DEF r, s
      <3>. QED
        BY <1>2, <3>1, NatProducts
    <2>3. C * b <= C * s
      <3>1. s - b \in Nat
        BY <1>2, <1>3, <1>12
      <3>2. C * (s - b) \in Nat
        <4> HIDE DEF b, s
        <4>. QED
          BY <1>1, <3>1, NatProducts
      <3>3. C * (s - b) = C * s - C * b
        <4> HIDE DEF b, s
        <4>. QED
          BY <1>1, <1>2, <1>3
      <3>. QED
        BY <1>10, <3>2, <3>3
    <2> DEFINE x == r * s
               y == C * b
               z == C * s
    <2>4. x \in Int /\ y \in Int /\ z \in Int /\ y >= 0 /\ x >= 0 /\ y <= z /\ z - x >= 0
      BY <1>7, <1>8, <1>10, <2>1, <2>2, <2>3
    <2>5. w.num = x - y /\ w.den = z
      BY <1>5, <1>6
    <2> HIDE DEF x, y, z
    <2>. QED
      BY <2>4, <2>5 DEF Magnitude
  <1>. QED
    BY <1>1, <1>11, <1>12

\* nor a square wave.
LEMMA SquareBounded ==
  ASSUME NEW ph \in 0..(Cycle - 1), NEW dt \in Nat, 2 * dt <= Cycle,
         NEW w, w = Wave("Square", ph, dt)
  PROVE  Magnitude(w.num) <= w.den
  <1> DEFINE s == dt * dt
             C == Cycle
             m == C \div 2
             half == (ph + m) % C
             step == IF ph < m THEN 1 ELSE -1
  <1>1. ph \in Nat /\ ph < C /\ C \in Nat \ {0} /\ 2 * dt <= C
    BY CycleAssumption
  <1>2. m \in Nat /\ 2 * m = C
    BY CycleAssumption, Z3
  <1>3. s \in Nat
    BY NatProducts
  <1>4. w.num = step * dt * dt + Blep(ph, dt) - Blep(half, dt) /\ w.den = s
    BY DEF Wave
  <1> HIDE DEF m, s
  <1>5. CASE ph < m
    <2>1. half = ph + m
      <3>1. ph + m \in 0..(C - 1) /\ ph + m = C * 0 + (ph + m)
        BY <1>1, <1>2, <1>5
      <3> DEFINE x == ph + m
                 zero == 0
      <3>2. x \in Int /\ zero \in Int /\ x \in 0..(C - 1) /\ x = C * zero + x
        BY <3>1
      <3> HIDE DEF x, zero
      <3>3. x % C = x
        BY <1>1, <3>2, RemainderIs
      <3>. QED
        BY <3>3 DEF x
    <2>2. half \in 0..(C - 1) /\ 2 * half >= C /\ 2 * ph < C
      BY <1>1, <1>2, <1>5, <2>1
    <2> HIDE DEF half
    <2>3. Blep(ph, dt) \in Int /\ -s <= Blep(ph, dt) /\ Blep(ph, dt) <= 0
      BY <2>2, BlepBounds DEF s
    <2>4. Blep(half, dt) \in Int /\ 0 <= Blep(half, dt) /\ Blep(half, dt) <= s
      BY <2>2, BlepBounds DEF s
    <2>5. step * dt * dt = s
      BY <1>5 DEF s
    <2> DEFINE x == Blep(ph, dt)
               y == Blep(half, dt)
    <2>6. w.num = s + x - y
      BY <1>4, <2>5
    <2> HIDE DEF x, y, step
    <2>7. x \in Int /\ -s <= x /\ x <= 0 /\ y \in Int /\ 0 <= y /\ y <= s
      BY <2>3, <2>4 DEF x, y
    <2>. QED
      BY <1>3, <1>4, <2>6, <2>7 DEF Magnitude
  <1>6. CASE ~ ph < m
    <2>1. half = ph - m
      <3> DEFINE x == ph + m
                 z == ph - m
                 one == 1
      <3>1. x \in Int /\ one \in Int /\ z \in 0..(C - 1) /\ x = C * one + z
        BY <1>1, <1>2, <1>6
      <3> HIDE DEF x, z, one
      <3>2. x % C = z
        BY <1>1, <3>1, RemainderIs
      <3>. QED
        BY <3>2 DEF x, z
    <2>2. half \in 0..(C - 1) /\ 2 * half < C /\ 2 * ph >= C
      BY <1>1, <1>2, <1>6, <2>1
    <2> HIDE DEF half
    <2>3. Blep(ph, dt) \in Int /\ 0 <= Blep(ph, dt) /\ Blep(ph, dt) <= s
      BY <2>2, BlepBounds DEF s
    <2>4. Blep(half, dt) \in Int /\ -s <= Blep(half, dt) /\ Blep(half, dt) <= 0
      BY <2>2, BlepBounds DEF s
    <2>5. step * dt * dt = -s
      BY <1>6 DEF s
    <2> DEFINE x == Blep(ph, dt)
               y == Blep(half, dt)
    <2>6. w.num = -s + x - y
      BY <1>4, <2>5
    <2> HIDE DEF x, y, step
    <2>7. x \in Int /\ 0 <= x /\ x <= s /\ y \in Int /\ -s <= y /\ y <= 0
      BY <2>3, <2>4 DEF x, y
    <2>. QED
      BY <1>3, <1>4, <2>6, <2>7 DEF Magnitude
  <1>. QED
    BY <1>5, <1>6

\* v is within half of d of n.
Within(v, n, d) == v \in Int /\ 2 * v - 2 * n <= d /\ 2 * n - 2 * v <= d

\* Rounding a fraction is off by at most a half.
LEMMA RoundBounds ==
  ASSUME NEW n \in Int, NEW d \in Nat \ {0}
  PROVE  Round(n, d) \in Int /\ Within(Round(n, d) * d, n, d)
  <1> DEFINE x == IF n < 0 THEN -2 * n + d ELSE 2 * n + d
             e == 2 * d
             q == x \div e
             r == Round(n, d)
  <1>1. x \in Nat /\ e \in Nat \ {0}
    OBVIOUS
  <1>2. q \in Nat /\ e * q <= x /\ x < e * q + e
    <2> HIDE DEF x, e
    <2>. QED
      BY <1>1, Quotients
  <1>3. r = IF n < 0 THEN -q ELSE q
    BY DEF Round
  <1> HIDE DEF q, r
  <1>4. e * q = 2 * (q * d)
    BY <1>2
  <1>5. q * d \in Nat
    BY <1>2, NatProducts
  <1>6. r \in Int /\ r * d = IF n < 0 THEN -(q * d) ELSE q * d
    BY <1>2, <1>3
  <1> DEFINE p == q * d
  <1>7. p \in Nat /\ 2 * p <= x /\ x < 2 * p + e /\ r * d = IF n < 0 THEN -p ELSE p
    BY <1>2, <1>4, <1>5, <1>6
  <1> HIDE DEF p
  <1>8. Within(r * d, n, d)
    BY <1>7 DEF Within
  <1>. QED
    BY <1>6, <1>8 DEF r

\* Less than a step and a half off.
Near(off) == 2 * Magnitude(off) < 3 * FullScale

\* Before it is clipped, dither is.
LEMMA RoundedNear ==
  ASSUME NEW levels \in Nat \ {0}, NEW x \in Int, NEW a \in 0..(DrawParts - 1),
         NEW b \in 0..(DrawParts - 1), NEW r,
         r = Round(x * levels * DrawParts + (a - b) * FullScale, FullScale * DrawParts)
  PROVE  r \in Int /\ r * FullScale - x * levels \in Int /\ Near(r * FullScale - x * levels)
  <1> DEFINE D == DrawParts
             S == FullScale
             y == x * levels
             t == a - b
             n == x * levels * D + t * S
             d == S * D
  <1>1. D \in Nat \ {0} /\ S \in Nat \ {0}
    BY NoiseAssumption
  <1>2. y \in Int /\ t \in Int /\ t < D /\ -D < t
    BY <1>1
  <1>3. n \in Int /\ d \in Nat \ {0}
    <2>1. n \in Int
      BY <1>1, <1>2
    <2>2. d \in Nat /\ d >= S
      BY <1>1, NatProducts
    <2> HIDE DEF n, d
    <2>. QED
      BY <1>1, <2>1, <2>2
  <1>4. r \in Int /\ Within(r * d, n, d)
    <2>1. r = Round(n, d)
      OBVIOUS
    <2> HIDE DEF n, d
    <2>. QED
      BY <1>3, <2>1, RoundBounds
  <1>5. 2 * (r * d) - 2 * n <= d /\ 2 * n - 2 * (r * d) <= d
    BY <1>4 DEF Within
  <1> DEFINE off == r * S - y
  <1>6. off \in Int
    BY <1>1, <1>2, <1>4
  <1>7. r * d - n = D * off - t * S
    BY <1>1, <1>2, <1>4
  <1>8. t * S <= D * S - S /\ -(t * S) <= D * S - S
    <2>1. (D - 1 - t) * S \in Nat /\ (D - 1 + t) * S \in Nat
      <3>1. D - 1 - t \in Nat /\ D - 1 + t \in Nat
        BY <1>1, <1>2
      <3> HIDE DEF D, t, S
      <3>. QED
        BY <1>1, <3>1, NatProducts
    <2>2. (D - 1 - t) * S = D * S - S - t * S /\ (D - 1 + t) * S = D * S - S + t * S
      <3> HIDE DEF D, t, S
      <3>. QED
        BY <1>1, <1>2
    <2>3. D * S \in Int /\ t * S \in Int
      BY <1>1, <1>2
    <2> HIDE DEF D, t, S
    <2>. QED
      BY <1>1, <2>1, <2>2, <2>3
  <1>9. 2 * (D * off) < 3 * (D * S) /\ -3 * (D * S) < 2 * (D * off)
    <2> DEFINE u == D * off
               v == t * S
               w == D * S
               z == r * d
    <2>1. u \in Int /\ v \in Int /\ w \in Int /\ z \in Int /\ d = w
      BY <1>1, <1>2, <1>3, <1>4, <1>6
    <2>2. z - n = u - v /\ v <= w - S /\ -v <= w - S /\ 2 * z - 2 * n <= d /\ 2 * n - 2 * z <= d
      BY <1>5, <1>7, <1>8
    <2> HIDE DEF u, v, w, z, n, d, S
    <2>3. 2 * u < 3 * w /\ -3 * w < 2 * u
      BY <1>1, <1>3, <2>1, <2>2
    <2>. QED
      BY <2>3 DEF u, w
  <1>10. 2 * off < 3 * S
    <2>1. SUFFICES ASSUME 2 * off >= 3 * S PROVE FALSE
      BY <1>1, <1>6
    <2> DEFINE k == 2 * off - 3 * S
    <2>2. k \in Nat
      BY <1>1, <1>6, <2>1
    <2>3. D * k \in Nat
      <3> HIDE DEF k, D
      <3>. QED
        BY <1>1, <2>2, NatProducts
    <2>4. D * k = 2 * (D * off) - 3 * (D * S)
      <3> HIDE DEF off, D, S
      <3>. QED
        BY <1>1, <1>6
    <2>5. D * off \in Int /\ D * S \in Int
      <3> HIDE DEF off, D, S
      <3>. QED
        BY <1>1, <1>6
    <2> HIDE DEF k, off, D, S
    <2>. QED
      BY <1>9, <2>3, <2>4, <2>5
  <1>11. -3 * S < 2 * off
    <2>1. SUFFICES ASSUME -3 * S >= 2 * off PROVE FALSE
      BY <1>1, <1>6
    <2> DEFINE k == -2 * off - 3 * S
    <2>2. k \in Nat
      BY <1>1, <1>6, <2>1
    <2>3. D * k \in Nat
      <3> HIDE DEF k, D
      <3>. QED
        BY <1>1, <2>2, NatProducts
    <2>4. D * k = -2 * (D * off) - 3 * (D * S)
      <3> HIDE DEF off, D, S
      <3>. QED
        BY <1>1, <1>6
    <2>5. D * off \in Int /\ D * S \in Int
      <3> HIDE DEF off, D, S
      <3>. QED
        BY <1>1, <1>6
    <2> HIDE DEF k, off, D, S
    <2>. QED
      BY <1>9, <2>3, <2>4, <2>5
  <1>12. Near(off)
    <2> HIDE DEF off
    <2>. QED
      BY <1>1, <1>6, <1>10, <1>11 DEF Near, Magnitude
  <1>. QED
    BY <1>4, <1>6, <1>12

\* A quantized sample is off by less than a step and a half unless it clips.
LEMMA QuantizedNear ==
  ASSUME NEW levels \in Nat \ {0}, NEW x \in Int, NEW a \in 0..(DrawParts - 1),
         NEW b \in 0..(DrawParts - 1), NEW v, v = Quantized(levels, x, a, b),
         NEW off, off = v * FullScale - x * levels
  PROVE  \/ 2 * Magnitude(off) < 3 * FullScale
         \/ off < 0 /\ v = levels - 1
         \/ off > 0 /\ v = -levels
  <1> DEFINE S == FullScale
             y == x * levels
             r == Round(x * levels * DrawParts + (a - b) * S, S * DrawParts)
  <1>1. S \in Nat \ {0} /\ y \in Int
    BY NoiseAssumption
  <1>2. r \in Int /\ r * S - y \in Int /\ Near(r * S - y)
    BY RoundedNear
  <1>3. FiniteOrZero(x) = x
    BY ParameterAssumption DEF FiniteOrZero, Finite
  <1>4. v = ClampTo(r, -levels, levels - 1)
    BY <1>3 DEF Quantized
  <1> HIDE DEF r, y, S
  <1>5. 2 * (r * S - y) < 3 * S
    BY <1>1, <1>2 DEF Near, Magnitude, S
  <1>6. -3 * S < 2 * (r * S - y)
    BY <1>1, <1>2 DEF Near, Magnitude, S
  <1>7. CASE v = r
    BY <1>2, <1>7 DEF Near, y, S
  <1>8. CASE v = levels - 1 /\ v < r
    <2>1. v \in Int /\ (r - v) * S \in Nat
      <3>1. v \in Int /\ r - v \in Nat
        BY <1>2, <1>8
      <3>. QED
        BY <1>1, <3>1, NatProducts
    <2>2. (r - v) * S = r * S - v * S
      BY <1>1, <1>2, <2>1
    <2> DEFINE e == v * S
               f == r * S
    <2>3. e \in Int /\ f \in Int /\ e <= f /\ off = e - y /\ 2 * (f - y) < 3 * S
      BY <1>1, <1>2, <1>5, <2>1, <2>2 DEF y, S
    <2> HIDE DEF e, f
    <2>4. off < 0 \/ 2 * Magnitude(off) < 3 * S
      BY <1>1, <2>3 DEF Magnitude
    <2>. QED
      BY <1>8, <2>4 DEF S
  <1>9. CASE v = -levels /\ r < v
    <2>1. v \in Int /\ (v - r) * S \in Nat
      <3>1. v \in Int /\ v - r \in Nat
        BY <1>2, <1>9
      <3>. QED
        BY <1>1, <3>1, NatProducts
    <2>2. (v - r) * S = v * S - r * S
      BY <1>1, <1>2, <2>1
    <2> DEFINE e == v * S
               f == r * S
    <2>3. e \in Int /\ f \in Int /\ f <= e /\ off = e - y /\ -3 * S < 2 * (f - y)
      BY <1>1, <1>2, <1>6, <2>1, <2>2 DEF y, S
    <2> HIDE DEF e, f
    <2>4. off > 0 \/ 2 * Magnitude(off) < 3 * S
      BY <1>1, <2>3 DEF Magnitude
    <2>. QED
      BY <1>9, <2>4 DEF S
  <1>10. v = r \/ (v = levels - 1 /\ v < r) \/ (v = -levels /\ r < v)
    BY <1>2, <1>4 DEF ClampTo
  <1>. QED
    BY <1>7, <1>8, <1>9, <1>10

\* The wave that an oscillator's frame is claimed to have.
WaveOf(n) ==
  Wave(kernel.waveform, PhaseOf(kernel, fed, n - 1) % Cycle, Increment(kernel, fed.p[n][1]))

\* The level that a dither's is.
LevelOf(c, n) ==
  Quantized(kernel.levels, X(c, n), Draw(ChannelSeed(kernel.seed, c), 2 * n - 2),
            Draw(ChannelSeed(kernel.seed, c), 2 * n - 1))

\* How far that is off.
OffBy(c, h) == out[c][h[1]] * FullScale - X(c, h[2]) * kernel.levels

\* The claims, by kind.
OscillatorClaim ==
  /\ \A c \in DOMAIN out : \A h \in Heard(c) : out[c][h[1]] = <<fed.p[h[2]][2], WaveOf(h[2])>>
  /\ kernel.waveform # "Sine" => \A n \in 1..Fed : Magnitude(WaveOf(n).num) <= WaveOf(n).den

NoiseClaim ==
  \A c \in DOMAIN out : \A h \in Heard(c) :
    out[c][h[1]] = <<fed.p[h[2]][1], Draw(ChannelSeed(kernel.seed, c), h[2] - 1)>>

DitherClaim ==
  /\ \A c \in DOMAIN out : \A h \in Heard(c) : out[c][h[1]] = LevelOf(c, h[2])
  /\ \A c \in DOMAIN out : \A h \in Heard(c) :
       \/ 2 * Magnitude(OffBy(c, h)) < 3 * FullScale
       \/ OffBy(c, h) < 0 /\ out[c][h[1]] = kernel.levels - 1
       \/ OffBy(c, h) > 0 /\ out[c][h[1]] = -kernel.levels

\* They make up the whole.
LEMMA StreamsAre ==
  ASSUME out # <<>> /\ kind = "oscillator" => OscillatorClaim,
         out # <<>> /\ kind = "noise" => NoiseClaim,
         out # <<>> /\ kind = "dither" => DitherClaim
  PROVE  StreamsExact
  <1>1. ASSUME out # <<>>, kind = "oscillator"
        PROVE  LET Phase(n) == MapThenSumSet(LAMBDA m : Increment(kernel, fed.p[m][1]), 1..(n - 1))
                   WaveAt(n) == Wave(kernel.waveform, Phase(n) % Cycle, Increment(kernel, fed.p[n][1]))
               IN  /\ OutIs(LAMBDA c, n : <<fed.p[n][2], WaveAt(n)>>)
                   /\ kernel.waveform # "Sine" =>
                        \A n \in 1..Fed : Magnitude(WaveAt(n).num) <= WaveAt(n).den
    <2>1. OscillatorClaim
      BY <1>1
    <2>. QED
      BY <2>1, Zenon DEF OscillatorClaim, WaveOf, PhaseOf, OutIs
  <1>2. ASSUME out # <<>>, kind = "noise"
        PROVE  OutIs(LAMBDA c, n : <<fed.p[n][1], Draw(ChannelSeed(kernel.seed, c), n - 1)>>)
    BY <1>2, Zenon DEF NoiseClaim, OutIs
  <1>3. ASSUME out # <<>>, kind = "dither"
        PROVE  LET At_(c, n) == Quantized(kernel.levels, X(c, n),
                                          Draw(ChannelSeed(kernel.seed, c), 2 * n - 2),
                                          Draw(ChannelSeed(kernel.seed, c), 2 * n - 1))
                   top == kernel.levels - 1
               IN  /\ OutIs(At_)
                   /\ \A c \in DOMAIN out : \A h \in Heard(c) :
                        LET off == out[c][h[1]] * FullScale - X(c, h[2]) * kernel.levels
                        IN  \/ 2 * Magnitude(off) < 3 * FullScale
                            \/ off < 0 /\ out[c][h[1]] = top
                            \/ off > 0 /\ out[c][h[1]] = -kernel.levels
    BY <1>3, Zenon DEF DitherClaim, LevelOf, OffBy, OutIs
  <1>. QED
    BY <1>1, <1>2, <1>3, Zenon DEF StreamsExact

\* The numbers that a dither draws.
LEMMA DitherDraws ==
  ASSUME Steady, kind = "dither"
  PROVE  \A c \in 1..MaxChannels, n \in 0..(2 * MaxFrames[kind] - 1) :
           Draw(ChannelSeed(kernel.seed, c), n) \in 0..(DrawParts - 1)
  <1>1. PICK k \in Kernels : kind = k.kind /\ Keeps(k.kernel, kernel)
    BY DEF Steady
  <1>2. Constructed("dither", k.kernel)
    BY <1>1, HostAssumption
  <1>3. "seed" \in DOMAIN k.kernel
    <2>1. k.kernel = DitherNew([bits |-> k.kernel.bits, seed |-> k.kernel.seed])
      BY <1>2 DEF Constructed
    <2>. QED
      BY <2>1 DEF DitherNew
  <1>4. kernel.seed = k.kernel.seed
    BY <1>1, <1>3 DEF Keeps, Kept
  <1>5. \A c \in 1..MaxChannels, n \in 0..(2 * MaxFrames[k.kind] - 1) :
          Draw(ChannelSeed(k.kernel.seed, c), n) \in 0..(DrawParts - 1)
    BY <1>1, HostAssumption
  <1>. QED
    BY <1>1, <1>4, <1>5

\* The oscillator keeps its claim,
LEMMA OscillatorKeeps ==
  ASSUME KernelInv, HistoryInv, kind = "oscillator", out # <<>>
  PROVE  OscillatorClaim
  <1>1. PICK ch \in Nat, m \in Nat : TrueTo(ch, m)
    BY DEF HistoryInv
  <1>2. Fed = m /\ HeardRight(ch, m)
    BY <1>1, HeardOk DEF Claimed
  <1>3. Reflects(kind, kernel, fed, ch, m) /\ Historic(kind, kernel, fed, ch, m)
    BY <1>1, Zenon DEF TrueTo
  <1>4. Ready(kind, kernel)
    <2>1. ch # 0
      BY <1>2 DEF HeardRight
    <2>. QED
      BY <1>3, <2>1, Zenon DEF Reflects
  <1>5. Formed(kind, kernel) /\ Made(kind, kernel)
    BY SteadyFormed, SteadyMade DEF KernelInv
  <1>6. kernel.fs \in Nat \ {0}
    BY <1>4, Zenon DEF Ready, Runnable
  <1>7. kernel.waveform \in {"Sine", "Saw", "Square"}
    BY <1>5 DEF Made
  <1>8. ASSUME NEW c \in DOMAIN out, NEW h \in Heard(c)
        PROVE  out[c][h[1]] = <<fed.p[h[2]][2], WaveOf(h[2])>>
    <2>1. OkAt(kind, kernel, fed, c, h[2], out[c][h[1]])
      BY <1>2, Zenon DEF HeardRight
    <2>. QED
      BY <2>1, Zenon DEF OkAt, WaveOf
  <1>9. ASSUME kernel.waveform # "Sine", NEW n \in 1..Fed
        PROVE  Magnitude(WaveOf(n).num) <= WaveOf(n).den
    <2> DEFINE a == PhaseOf(kernel, fed, n - 1)
               ph == a % Cycle
               dt == Increment(kernel, fed.p[n][1])
    <2>1. Tuned(fed, m)
      <3>1. \A i \in 1..m : Vetted(InfoOf(kernel), fed.p[i])
        BY <1>3, Zenon DEF Historic
      <3>2. Formed("oscillator", kernel)
        BY <1>5
      <3>. QED
        BY <3>1, <3>2, VettedTuned
    <2>2. fed.p[n][1] \in Nat
      BY <1>2, <2>1 DEF Tuned
    <2>3. n - 1 \in Nat /\ Tuned(fed, (n - 1) + 1)
      <3>1. n - 1 \in Nat /\ \A i \in 1..((n - 1) + 1) : i \in 1..m
        BY <1>2
      <3>. QED
        BY <2>1, <3>1, Zenon DEF Tuned
    <2>4. a \in Int
      <3> DEFINE l == n - 1
      <3>1. l \in Nat /\ Tuned(fed, l + 1)
        BY <2>3
      <3> HIDE DEF l
      <3>2. PhaseOf(kernel, fed, l) \in Int
        BY <1>6, <3>1, PhaseNext
      <3>. QED
        BY <3>2 DEF l
    <2> HIDE DEF a
    <2>5. ph \in 0..(Cycle - 1)
      BY <2>4, CycleAssumption, RemainderOf
    <2>6. dt \in Nat /\ 2 * dt <= Cycle
      <3>1. 0 \in 0..(Cycle - 1)
        BY CycleAssumption
      <3> DEFINE hz == fed.p[n][1]
                 zero == 0
      <3>2. hz \in Nat /\ zero \in 0..(Cycle - 1)
        BY <2>2, <3>1
      <3> HIDE DEF hz, zero
      <3>3. Increment(kernel, hz) \in Nat /\ 2 * Increment(kernel, hz) <= Cycle
        BY <1>6, <3>2, PhaseKept
      <3>. QED
        BY <3>3 DEF hz
    <2>7. WaveOf(n) = Wave(kernel.waveform, ph, dt)
      BY Zenon DEF WaveOf, a
    <2> HIDE DEF ph, dt
    <2>8. CASE kernel.waveform = "Saw"
      BY <2>5, <2>6, <2>7, <2>8, SawBounded
    <2>9. CASE kernel.waveform = "Square"
      BY <2>5, <2>6, <2>7, <2>9, SquareBounded
    <2>. QED
      BY <1>7, <1>9, <2>8, <2>9
  <1>. QED
    BY <1>8, <1>9, Zenon DEF OscillatorClaim

\* noise its,
LEMMA NoiseKeeps ==
  ASSUME KernelInv, HistoryInv, kind = "noise", out # <<>>
  PROVE  NoiseClaim
  <1>1. PICK ch \in Nat, m \in Nat : TrueTo(ch, m)
    BY DEF HistoryInv
  <1>2. Fed = m /\ HeardRight(ch, m)
    BY <1>1, HeardOk DEF Claimed
  <1>3. ASSUME NEW c \in DOMAIN out, NEW h \in Heard(c)
        PROVE  out[c][h[1]] = <<fed.p[h[2]][1], Draw(ChannelSeed(kernel.seed, c), h[2] - 1)>>
    <2>1. OkAt(kind, kernel, fed, c, h[2], out[c][h[1]])
      BY <1>2, Zenon DEF HeardRight
    <2>. QED
      BY <2>1, Zenon DEF OkAt
  <1>. QED
    BY <1>3, Zenon DEF NoiseClaim

\* and dither its own.
LEMMA DitherKeeps ==
  ASSUME KernelInv, HistoryInv, kind = "dither", out # <<>>
  PROVE  DitherClaim
  <1>1. PICK ch \in Nat, m \in Nat : TrueTo(ch, m)
    BY DEF HistoryInv
  <1>2. Fed = m /\ HeardRight(ch, m)
    BY <1>1, HeardOk DEF Claimed
  <1>3. Reflects(kind, kernel, fed, ch, m) /\ Historic(kind, kernel, fed, ch, m)
    BY <1>1, Zenon DEF TrueTo
  <1>4. Ready(kind, kernel)
    <2>1. ch # 0
      BY <1>2 DEF HeardRight
    <2>. QED
      BY <1>3, <2>1, Zenon DEF Reflects
  <1>5. kernel.levels \in Nat \ {0}
    BY <1>4, Zenon DEF Ready
  <1>6. /\ \A c \in 1..MaxChannels, n \in 0..(2 * MaxFrames[kind] - 1) :
             Draw(ChannelSeed(kernel.seed, c), n) \in 0..(DrawParts - 1)
        /\ MaxFrames[kind] \in Nat /\ MaxChannels \in Nat
    BY DitherDraws, SamplesHeeded DEF KernelInv
  <1>7. m = 0 \/ m <= MaxFrames[kind]
    BY <1>3, Zenon DEF Historic
  <1>8. Sampled(fed.x, ch, m, 1)
    BY <1>3, Zenon DEF Historic, Chronicle
  <1>9. ASSUME NEW c \in DOMAIN out, NEW h \in Heard(c)
        PROVE  out[c][h[1]] = LevelOf(c, h[2])
    <2>1. OkAt(kind, kernel, fed, c, h[2], out[c][h[1]])
      BY <1>2, Zenon DEF HeardRight
    <2>. QED
      BY <2>1, Zenon DEF OkAt, LevelOf, X, At
  <1>10. ASSUME NEW c \in DOMAIN out, NEW h \in Heard(c)
         PROVE  \/ 2 * Magnitude(OffBy(c, h)) < 3 * FullScale
                \/ OffBy(c, h) < 0 /\ out[c][h[1]] = kernel.levels - 1
                \/ OffBy(c, h) > 0 /\ out[c][h[1]] = -kernel.levels
    <2> DEFINE n == h[2]
               x == X(c, n)
               a == Draw(ChannelSeed(kernel.seed, c), 2 * n - 2)
               b == Draw(ChannelSeed(kernel.seed, c), 2 * n - 1)
               v == out[c][h[1]]
               levels == kernel.levels
               off == OffBy(c, h)
    <2>1. n \in 1..m /\ c \in 1..ch /\ c \in 1..MaxChannels
      BY <1>2, <1>6 DEF HeardRight
    <2>2. /\ 2 * n - 2 \in 0..(2 * MaxFrames[kind] - 1)
          /\ 2 * n - 1 \in 0..(2 * MaxFrames[kind] - 1)
      <3> DEFINE f == MaxFrames[kind]
      <3>1. f \in Nat /\ n \in 1..m /\ (m = 0 \/ m <= f)
        BY <1>6, <1>7, <2>1
      <3> HIDE DEF f, n
      <3>2. 2 * n - 2 \in 0..(2 * f - 1) /\ 2 * n - 1 \in 0..(2 * f - 1)
        BY <3>1
      <3>. QED
        BY <3>2 DEF f
    <2>3. a \in 0..(DrawParts - 1) /\ b \in 0..(DrawParts - 1)
      <3> HIDE DEF n
      <3>. QED
        BY <1>6, <2>1, <2>2
    <2>4. x \in Int
      <3>1. FiniteOrZero(fed.x[c][n]) \in Int
        <4> HIDE DEF n
        <4>. QED
          BY <1>8, <2>1, Zenon DEF Sampled
      <3>. QED
        BY <2>1, <3>1 DEF X
    <2>5. v = Quantized(levels, x, a, b)
      BY <1>9, Zenon DEF LevelOf
    <2>6. off = v * FullScale - x * levels
      BY Zenon DEF OffBy
    <2>7. levels \in Nat \ {0}
      BY <1>5
    <2> HIDE DEF n, x, a, b, v, levels, off
    <2>8. \/ 2 * Magnitude(off) < 3 * FullScale
          \/ off < 0 /\ v = levels - 1
          \/ off > 0 /\ v = -levels
      BY <2>3, <2>4, <2>5, <2>6, <2>7, QuantizedNear
    <2>. QED
      BY <2>8, Zenon DEF off, v, levels
  <1>. QED
    BY <1>9, <1>10, Zenon DEF DitherClaim

\* An oscillator's phase is the sum of all increments, wrapped, for every channel the same, and
\* no step's smoothing lifts the wave above its amplitude; a random kernel's channels each take
\* the same draws again after a reset, however the stream was cut, and dither is off by less than
\* a step and a half unless it clips (generators/sine.rs, poly_blep.rs, noise.rs;
\* mastering/dither.rs).
LEMMA StreamsFollow == KernelInv /\ HistoryInv => StreamsExact
  <1> SUFFICES ASSUME KernelInv, HistoryInv PROVE StreamsExact
    OBVIOUS
  <1>. QED
    BY OscillatorKeeps, NoiseKeeps, DitherKeeps, StreamsAre, Zenon

\* What a kernel gives is what its definition makes of the whole history, however that was cut
\* into blocks, runs and drains: whatever the tables, the parameters and the samples.
THEOREM RenderFollows == Spec => []RenderExact
  <1>1. KernelInv /\ HistoryInv => RenderExact
    BY AverageFollows, RecurrenceFollows, LinkedGainFollows, StreamsFollow DEF RenderExact
  <1>. QED
    BY <1>1, HistoryHolds, PTL

-----------------------------------------------------------------------------
(* The tail of a DC blocker. *)

\* w goes through the powers of b.
Powers(w, b, n) == w[0] = 1 /\ \A i \in 1..n : w[i] = b * w[i - 1]

\* A product of positive numbers is one.
LEMMA PositiveProduct ==
  ASSUME NEW a \in Nat \ {0}, NEW b \in Nat \ {0}
  PROVE  a * b \in Nat \ {0}
  <1>1. a * b \in Nat /\ a * b >= a
    BY NatProducts
  <1>. QED
    BY <1>1

\* There are powers of any positive number.
LEMMA PowersExist ==
  ASSUME NEW b \in Nat \ {0}, NEW n \in Nat
  PROVE  \E w : w \in [0..n -> Nat \ {0}] /\ Powers(w, b, n)
  <1> DEFINE T == Nat \ {0}
             G == [q \in (1..n) \X T |-> b * q[2]]
             base == 1
  <1>1. base \in T
    OBVIOUS
  <1>2. \A s \in T : b * s \in T
    BY PositiveProduct
  <1> HIDE DEF T, base
  <1>3. Paces(G, n, T)
    BY <1>2 DEF Paces
  <1>4. \A i \in 1..n, s \in T : G[<<i, s>>] = b * s
    OBVIOUS
  <1> HIDE DEF G
  <1>5. PICK A \in [0..n -> T] : Walks(A, G, base, n)
    BY <1>1, <1>3, WalkExists
  <1>6. ASSUME NEW i \in 1..n
        PROVE  A[i] = b * A[i - 1]
    <2>1. i - 1 \in 0..n
      OBVIOUS
    <2>2. A[i - 1] \in T
      BY <2>1
    <2>3. A[i] = G[<<i, A[i - 1]>>]
      BY <1>5, Zenon DEF Walks
    <2>. QED
      BY <1>4, <2>2, <2>3
  <1>7. A[0] = base
    BY <1>5, Zenon DEF Walks
  <1>8. Powers(A, b, n)
    BY <1>6, <1>7 DEF Powers, base
  <1>. QED
    BY <1>8, Zenon DEF T

\* Powers of the same number are the same.
LEMMA PowersAgree ==
  ASSUME NEW b, NEW n \in Nat, NEW m \in Nat, n <= m, NEW v, NEW w,
         Powers(v, b, n), Powers(w, b, m)
  PROVE  \A i \in 0..n : v[i] = w[i]
  <1> DEFINE S == {i \in Nat : v[i] = w[i]}
  <1>1. 0 \in S
    BY DEF Powers
  <1>2. ASSUME NEW i \in 0..(n - 1), i \in S PROVE i + 1 \in S
    <2>1. i + 1 \in 1..n /\ i + 1 \in 1..m /\ (i + 1) - 1 = i /\ i + 1 \in Nat
      OBVIOUS
    <2>2. v[i + 1] = b * v[(i + 1) - 1] /\ w[i + 1] = b * w[(i + 1) - 1]
      BY <2>1, Zenon DEF Powers
    <2>. QED
      BY <1>2, <2>1, <2>2
  <1>3. \A i \in 0..n : i \in S
    <2> HIDE DEF S
    <2>. QED
      BY <1>1, <1>2, UpTo
  <1>. QED
    BY <1>3

\* The powers as Power has them.
PowersOf(b, n) == CHOOSE p : p = [i \in 0..n |-> IF i = 0 THEN 1 ELSE b * p[i - 1]]

\* They are powers.
LEMMA PowersOfIs ==
  ASSUME NEW b \in Nat \ {0}, NEW n \in Nat
  PROVE  /\ Powers(PowersOf(b, n), b, n) /\ PowersOf(b, n)[n] \in Nat \ {0}
         /\ Power(b, n) = PowersOf(b, n)[n]
  <1> DEFINE P(p) == p = [i \in 0..n |-> IF i = 0 THEN 1 ELSE b * p[i - 1]]
             z == PowersOf(b, n)
  <1>1. PICK w : w \in [0..n -> Nat \ {0}] /\ Powers(w, b, n)
    BY PowersExist
  <1>2. P(w)
    <2> DEFINE R == [i \in 0..n |-> IF i = 0 THEN 1 ELSE b * w[i - 1]]
    <2>1. ASSUME NEW i \in 0..n PROVE w[i] = R[i]
      <3>1. CASE i = 0
        BY <1>1, <3>1 DEF Powers
      <3>2. CASE i # 0
        <4>1. i \in 1..n
          BY <3>2
        <4>. QED
          BY <1>1, <3>2, <4>1 DEF Powers
      <3>. QED
        BY <3>1, <3>2
    <2>2. w \in [0..n -> Nat \ {0}] /\ DOMAIN R = 0..n
      BY <1>1
    <2>3. R = [i \in 0..n |-> R[i]]
      OBVIOUS
    <2>4. w = [i \in 0..n |-> w[i]]
      BY <2>2
    <2> HIDE DEF R
    <2>5. w = R
      BY <2>1, <2>3, <2>4
    <2>. QED
      BY <2>5 DEF R
  <1>3. P(z)
    <2> HIDE DEF P
    <2>1. z = CHOOSE p : P(p)
      BY DEF PowersOf, P
    <2>. QED
      BY <1>2, <2>1
  <1>4. Powers(z, b, n)
    <2> HIDE DEF z
    <2>1. \A i \in 0..n : z[i] = IF i = 0 THEN 1 ELSE b * z[i - 1]
      BY <1>3
    <2>2. 0 \in 0..n
      OBVIOUS
    <2>3. \A i \in 1..n : i \in 0..n /\ i # 0
      OBVIOUS
    <2>. QED
      BY <2>1, <2>2, <2>3 DEF Powers
  <1> HIDE DEF z
  <1>5. z[n] = w[n]
    BY <1>1, <1>4, PowersAgree
  <1>6. z[n] \in Nat \ {0}
    BY <1>1, <1>5
  <1>7. Power(b, n) = z[n]
    BY DEF Power, PowersOf, z
  <1>. QED
    BY <1>4, <1>6, <1>7 DEF z

\* A power is positive, and the next is as many times it.
LEMMA PowerIs ==
  ASSUME NEW b \in Nat \ {0}, NEW n \in Nat
  PROVE  Power(b, n) \in Nat \ {0} /\ Power(b, n + 1) = b * Power(b, n)
  <1> DEFINE m == n + 1
             v == PowersOf(b, n)
             w == PowersOf(b, m)
  <1>1. m \in Nat /\ n <= m /\ m \in 1..m /\ m - 1 = n /\ n \in 0..n
    OBVIOUS
  <1> HIDE DEF m
  <1>2. Powers(v, b, n) /\ v[n] \in Nat \ {0} /\ Power(b, n) = v[n]
    BY PowersOfIs
  <1>3. Powers(w, b, m) /\ Power(b, m) = w[m]
    BY <1>1, PowersOfIs
  <1> HIDE DEF v, w
  <1>4. \A i \in 0..n : v[i] = w[i]
    BY <1>1, <1>2, <1>3, PowersAgree
  <1>5. w[m] = b * w[m - 1]
    BY <1>1, <1>3 DEF Powers
  <1>6. Power(b, m) = b * Power(b, n)
    BY <1>1, <1>2, <1>3, <1>4, <1>5
  <1>. QED
    BY <1>2, <1>6 DEF m

\* The first is one.
LEMMA PowerOfZero ==
  ASSUME NEW b \in Nat \ {0}
  PROVE  Power(b, 0) = 1
  <1> DEFINE zero == 0
             v == PowersOf(b, zero)
  <1>1. zero \in Nat
    OBVIOUS
  <1> HIDE DEF zero
  <1>2. Powers(v, b, zero) /\ Power(b, zero) = v[zero]
    BY <1>1, PowersOfIs
  <1> HIDE DEF v
  <1>. QED
    BY <1>2 DEF Powers, zero

\* What j frames at the pole s leave of twice the headroom.
Faint(y, j, s) ==
  y = 0 \/ Magnitude(y) * Power(Unit, j) < 2 * TailHeadroom * Power(s, j)

\* Factors keep an order.
LEMMA FactorKeeps ==
  ASSUME NEW a \in Int, NEW b \in Int, NEW c \in Nat \ {0}
  PROVE  /\ a <= b => c * a <= c * b
         /\ a < b => c * a < c * b
         /\ c * a < c * b => a < b
  <1>1. c * a \in Int /\ c * b \in Int
    OBVIOUS
  <1>2. ASSUME NEW u \in Int, NEW v \in Int, u <= v PROVE c * u <= c * v
    <2>1. PICK d \in Nat : v = u + d
      <3>1. v - u \in Nat /\ v = u + (v - u)
        BY <1>2
      <3>. QED
        BY <3>1
    <2>2. c * d \in Nat /\ c * v = c * u + c * d
      BY <2>1
    <2> DEFINE e == c * d
               f == c * u
    <2>3. f \in Int
      OBVIOUS
    <2> HIDE DEF e, f
    <2>4. e \in Nat /\ c * v = f + e
      BY <2>2 DEF e, f
    <2>5. f <= c * v
      BY <2>3, <2>4
    <2>. QED
      BY <2>5 DEF f
  <1>3. ASSUME a < b PROVE c * a < c * b
    <2>1. a + 1 <= b /\ a + 1 \in Int
      BY <1>3
    <2>2. c * (a + 1) <= c * b
      BY <1>2, <2>1
    <2>3. c * (a + 1) = c * a + c
      OBVIOUS
    <2>. QED
      BY <1>1, <2>2, <2>3
  <1>4. ASSUME c * a < c * b PROVE a < b
    <2>1. ASSUME b <= a PROVE FALSE
      <3>1. c * b <= c * a
        BY <1>2, <2>1
      <3>. QED
        BY <1>1, <1>4, <3>1
    <2>. QED
      BY <2>1
  <1>. QED
    BY <1>2, <1>3, <1>4

\* A quotient, as many times, is no larger.
LEMMA QuotientShrinks ==
  ASSUME NEW x \in Int, NEW d \in Nat \ {0}
  PROVE  /\ Magnitude(Quotient(x, d)) \in Nat
         /\ d * Magnitude(Quotient(x, d)) <= Magnitude(x)
  <1>1. CASE x < 0
    <2> DEFINE y == -x
               q == y \div d
    <2>1. y \in Nat /\ Magnitude(x) = y /\ Quotient(x, d) = -q
      BY <1>1 DEF Magnitude, Quotient
    <2> HIDE DEF y
    <2>2. q \in Nat /\ d * q <= y
      BY <2>1, Quotients
    <2> HIDE DEF q
    <2>3. Magnitude(-q) = q
      BY <2>2 DEF Magnitude
    <2>. QED
      BY <2>1, <2>2, <2>3
  <1>2. CASE ~ x < 0
    <2> DEFINE q == x \div d
    <2>1. x \in Nat /\ Magnitude(x) = x /\ Quotient(x, d) = q
      BY <1>2 DEF Magnitude, Quotient
    <2>2. q \in Nat /\ d * q <= x
      BY <2>1, Quotients
    <2> HIDE DEF q
    <2>3. Magnitude(q) = q
      BY <2>2 DEF Magnitude
    <2>. QED
      BY <2>1, <2>2, <2>3
  <1>. QED
    BY <1>1, <1>2

\* A product's size.
LEMMA ProductSize ==
  ASSUME NEW r \in Nat, NEW y \in Int
  PROVE  Magnitude(y) \in Nat /\ Magnitude(r * y) = r * Magnitude(y) /\ r * y \in Int
  <1>1. r * y \in Int
    OBVIOUS
  <1>2. CASE y >= 0
    <2>1. Magnitude(y) = y /\ y \in Nat
      BY <1>2 DEF Magnitude
    <2>2. r * y \in Nat
      BY <2>1, NatProducts
    <2> DEFINE p == r * y
    <2> HIDE DEF p
    <2>3. Magnitude(p) = p
      BY <2>2 DEF Magnitude, p
    <2>. QED
      BY <1>1, <2>1, <2>3 DEF p
  <1>3. CASE ~ y >= 0
    <2> DEFINE z == -y
    <2>1. Magnitude(y) = z /\ z \in Nat /\ y = -z
      BY <1>3 DEF Magnitude
    <2> HIDE DEF z
    <2>2. r * z \in Nat
      BY <2>1, NatProducts
    <2> DEFINE p == r * z
    <2>3. r * y = -p
      BY <2>1
    <2> HIDE DEF p
    <2>4. Magnitude(-p) = p
      BY <2>2 DEF Magnitude, p
    <2>. QED
      BY <1>1, <2>1, <2>3, <2>4 DEF p
  <1>. QED
    BY <1>2, <1>3

\* A frame of silence makes it fainter, at any faster pole.
LEMMA Fades ==
  ASSUME NEW r \in Nat, NEW s \in Nat \ {0}, r <= s, NEW y \in Int, NEW j \in Nat, Faint(y, j, s)
  PROVE  Faint(Quotient(r * y, Unit), j + 1, s)
  <1>1. Unit \in Nat \ {0} /\ TailHeadroom \in Nat
    BY TailAssumption
  <1> DEFINE z == Quotient(r * y, Unit)
             a == Magnitude(y)
             b == Magnitude(z)
             u == Power(Unit, j)
             v == Power(s, j)
             h == 2 * TailHeadroom
  <1>2. /\ u \in Nat \ {0} /\ Power(Unit, j + 1) = Unit * u
        /\ v \in Nat \ {0} /\ Power(s, j + 1) = s * v
    BY <1>1, PowerIs
  <1>3. a \in Nat /\ Magnitude(r * y) = r * a /\ r * y \in Int
    BY ProductSize
  <1>4. b \in Nat /\ Unit * b <= r * a
    <2> DEFINE x == r * y
    <2>1. x \in Int /\ Magnitude(x) = r * a
      BY <1>3
    <2> HIDE DEF x, a
    <2>2. Magnitude(Quotient(x, Unit)) \in Nat /\ Unit * Magnitude(Quotient(x, Unit)) <= Magnitude(x)
      BY <1>1, <2>1, QuotientShrinks
    <2>. QED
      BY <2>1, <2>2 DEF x
  <1>5. CASE y = 0
    <2>1. r * y = 0
      BY <1>5
    <2>2. z = 0
      <3>1. Quotient(0, Unit) = 0
        <4> DEFINE zero == 0
        <4>1. zero \in Nat /\ Quotient(zero, Unit) = zero \div Unit
          BY DEF Quotient
        <4> HIDE DEF zero
        <4>2. zero \div Unit \in Nat /\ Unit * (zero \div Unit) <= zero
          BY <1>1, <4>1, Quotients
        <4> DEFINE q == zero \div Unit
        <4> HIDE DEF q
        <4>3. q \in Nat /\ Unit * q <= 0
          BY <4>2 DEF q, zero
        <4>4. q > 0 => Unit * q >= Unit
          BY <1>1, <4>3, NatProducts
        <4>5. q = 0
          BY <1>1, <4>3, <4>4
        <4>. QED
          BY <4>1, <4>5 DEF q, zero
      <3>. QED
        BY <2>1, <3>1
    <2>. QED
      BY <2>2 DEF Faint
  <1>6. CASE y # 0
    <2>1. a * u < h * v
      BY <1>6 DEF Faint
    <2>2. h \in Nat
      BY <1>1
    <2> HIDE DEF a, b, u, v, h, z
    <2>3. r * a <= s * a
      <3>1. CASE a = 0
        BY <3>1
      <3>2. CASE a # 0
        <4>1. a * r <= a * s
          BY <1>3, <3>2, FactorKeeps
        <4>2. a * r = r * a /\ a * s = s * a
          BY <1>3
        <4>. QED
          BY <4>1, <4>2
      <3>. QED
        BY <3>1, <3>2
    <2>4. Unit * b <= s * a
      <3>1. Unit * b \in Int /\ r * a \in Int /\ s * a \in Int
        BY <1>1, <1>3, <1>4
      <3>. QED
        BY <1>4, <2>3, <3>1
    <2>5. u * (Unit * b) <= u * (s * a)
      <3>1. Unit * b \in Int /\ s * a \in Int
        BY <1>1, <1>3, <1>4
      <3>. QED
        BY <1>2, <2>4, <3>1, FactorKeeps
    <2>6. s * (a * u) < s * (h * v)
      <3>1. a * u \in Int /\ h * v \in Int
        BY <1>2, <1>3, <2>2
      <3>. QED
        BY <2>1, <3>1, FactorKeeps
    <2>7. u * (Unit * b) = b * (Unit * u) /\ u * (s * a) = s * (a * u) /\ s * (h * v) = h * (s * v)
      BY <1>1, <1>2, <1>3, <1>4, <2>2
    <2>8. b * (Unit * u) < h * (s * v)
      <3>1. b * (Unit * u) \in Int /\ s * (a * u) \in Int /\ h * (s * v) \in Int
        BY <1>1, <1>2, <1>3, <1>4, <2>2
      <3>. QED
        BY <2>5, <2>6, <2>7, <3>1
    <2>9. b * Power(Unit, j + 1) < h * Power(s, j + 1)
      BY <1>2, <2>8 DEF u, v
    <2>. QED
      BY <2>9 DEF Faint, b, h, z
  <1>. QED
    BY <1>5, <1>6

\* The first frame of silence leaves less than twice the headroom of a state within it.
LEMMA StartsFaint ==
  ASSUME NEW r \in Nat, r < Unit, NEW s \in Nat \ {0}, NEW x \in Int, NEW y \in Int,
         Magnitude(x) <= TailHeadroom, Magnitude(y) <= TailHeadroom
  PROVE  Faint(0 - x + Quotient(r * y, Unit), 0, s)
  <1>1. Unit \in Nat \ {0} /\ TailHeadroom \in Nat
    BY TailAssumption
  <1> DEFINE q == Quotient(r * y, Unit)
             a == Magnitude(y)
             b == Magnitude(q)
             h == TailHeadroom
             w == 0 - x + q
  <1>2. a \in Nat /\ Magnitude(r * y) = r * a /\ r * y \in Int
    BY ProductSize
  <1>3. b \in Nat /\ Unit * b <= r * a /\ q \in Int
    <2> DEFINE p == r * y
    <2>1. p \in Int /\ Magnitude(p) = r * a
      BY <1>2
    <2> HIDE DEF p, a
    <2>2. Magnitude(Quotient(p, Unit)) \in Nat /\ Unit * Magnitude(Quotient(p, Unit)) <= Magnitude(p)
      BY <1>1, <2>1, QuotientShrinks
    <2>3. Quotient(p, Unit) \in Int
      BY <1>1, <2>1, QuotientTyped
    <2>. QED
      BY <2>1, <2>2, <2>3 DEF p
  <1>4. Power(Unit, 0) = 1 /\ Power(s, 0) = 1
    BY <1>1, PowerOfZero
  <1>5. b <= a /\ (a > 0 => b < a)
    <2> HIDE DEF a, b, q, w
    <2>1. CASE a = 0
      <3>1. r * a = 0
        BY <2>1
      <3>2. b > 0 => Unit * b >= Unit
        BY <1>1, <1>3, NatProducts
      <3>. QED
        BY <1>1, <1>3, <2>1, <3>1, <3>2
    <2>2. CASE a > 0
      <3>1. a * r < a * Unit
        BY <1>1, <1>2, <2>2, FactorKeeps
      <3>2. a * r = r * a /\ a * Unit = Unit * a
        BY <1>1, <1>2
      <3>3. Unit * b < Unit * a
        <4>1. Unit * b \in Int /\ r * a \in Int /\ Unit * a \in Int
          BY <1>1, <1>2, <1>3
        <4>. QED
          BY <1>3, <3>1, <3>2, <4>1
      <3>4. b < a
        BY <1>1, <1>2, <1>3, <3>3, FactorKeeps
      <3>. QED
        BY <1>2, <1>3, <3>4
    <2>. QED
      BY <1>2, <2>1, <2>2
  <1>6. a <= h
    OBVIOUS
  <1>7. w = 0 \/ Magnitude(w) < 2 * h
    <2>1. (q >= 0 /\ b = q) \/ (q < 0 /\ b = -q)
      BY <1>3 DEF Magnitude
    <2>2. (x >= 0 /\ x <= h) \/ (x < 0 /\ -x <= h)
      BY DEF Magnitude
    <2>3. w = q - x
      BY <1>3
    <2> HIDE DEF a, b, q, w
    <2>4. h = 0 => b = 0 /\ x = 0
      BY <1>1, <1>2, <1>3, <1>5, <1>6, <2>2
    <2>5. h > 0 => b < h
      BY <1>1, <1>2, <1>3, <1>5, <1>6
    <2>. QED
      BY <1>1, <1>3, <2>1, <2>2, <2>3, <2>4, <2>5 DEF Magnitude
  <1> HIDE DEF w
  <1>8. w \in Int
    BY <1>3 DEF w
  <1>9. Magnitude(w) \in Int /\ Magnitude(w) * 1 = Magnitude(w) /\ 2 * h * 1 = 2 * h
    BY <1>1, <1>8 DEF Magnitude
  <1>10. Faint(w, 0, s)
    BY <1>4, <1>7, <1>9 DEF Faint
  <1>. QED
    BY <1>10 DEF w

\* After the frames of a decay it is below the floor.
LEMMA FaintEnough ==
  ASSUME NEW s \in Nat \ {0}, NEW j \in Nat, Decayed(s, j), NEW y \in Int, Faint(y, j, s)
  PROVE  Magnitude(y) < TailFloor
  <1>1. Unit \in Nat \ {0} /\ TailHeadroom \in Nat /\ TailFloor \in Nat \ {0}
    BY TailAssumption
  <1> DEFINE a == Magnitude(y)
             u == Power(Unit, j)
             v == Power(s, j)
             h == 2 * TailHeadroom
  <1>2. u \in Nat \ {0} /\ v \in Nat \ {0} /\ a \in Nat /\ h \in Nat
    <2>1. u \in Nat \ {0} /\ v \in Nat \ {0}
      BY <1>1, PowerIs
    <2>2. a \in Nat
      BY DEF Magnitude
    <2>3. h \in Nat
      BY <1>1
    <2>. QED
      BY <2>1, <2>2, <2>3
  <1>3. CASE y = 0
    BY <1>1, <1>3 DEF Magnitude
  <1>4. CASE y # 0
    <2>1. a * u < h * v
      BY <1>4 DEF Faint
    <2>2. TailFloor * u >= h * v
      BY DEF Decayed
    <2> HIDE DEF a, u, v, h
    <2>3. u * a < u * TailFloor
      <3>1. a * u = u * a /\ TailFloor * u = u * TailFloor
        BY <1>1, <1>2
      <3>2. u * a \in Int /\ u * TailFloor \in Int /\ h * v \in Int
        BY <1>1, <1>2
      <3>. QED
        BY <2>1, <2>2, <3>1, <3>2
    <2>4. a < TailFloor
      BY <1>1, <1>2, <2>3, FactorKeeps
    <2>. QED
      BY <2>4 DEF a
  <1>. QED
    BY <1>3, <1>4

\* Poles only fall with the cutoff.
LEMMA RadiusFalls ==
  ASSUME NEW i \in 0..49, NEW j \in 0..49, i <= j
  PROVE  Radius[j] <= Radius[i]
  <1> DEFINE S == {d \in Nat : Radius[i + d] <= Radius[i]}
             m == j - i
  <1>1. \A h \in 0..49 : Radius[h] \in Int
    BY RadiusAssumption, TailAssumption
  <1>2. 0 \in S
    BY <1>1
  <1>3. m \in Nat
    OBVIOUS
  <1>4. ASSUME NEW d \in 0..(m - 1), d \in S PROVE d + 1 \in S
    <2>1. i + d \in 0..48 /\ i + d + 1 \in 0..49 /\ i + d \in 0..49 /\ d \in Nat
      BY <1>3
    <2>2. Radius[i + d] >= Radius[i + d + 1]
      BY <2>1, RadiusAssumption
    <2>3. Radius[i + d] <= Radius[i]
      BY <1>4
    <2>4. Radius[i + d] \in Int /\ Radius[i + d + 1] \in Int /\ Radius[i] \in Int
      BY <1>1, <2>1
    <2>5. Radius[i + d + 1] <= Radius[i]
      BY <2>2, <2>3, <2>4
    <2>6. i + (d + 1) = i + d + 1 /\ d + 1 \in Nat
      BY <2>1
    <2>. QED
      BY <2>5, <2>6
  <1>5. \A d \in 0..m : d \in S
    <2> HIDE DEF S, m
    <2>. QED
      BY <1>2, <1>3, <1>4, UpTo
  <1>6. m \in 0..m /\ i + m = j
    BY <1>3
  <1>. QED
    BY <1>5, <1>6

\* The slowest pole is the lowest cutoff's.
LEMMA SlowestPole ==
  ASSUME NEW hz \in Int, hz >= 1, NEW fs \in Nat, fs >= 1
  PROVE  /\ Pole(hz, fs) \in 1..(Unit - 1) /\ Pole(DcLowest, fs) \in 1..(Unit - 1)
         /\ Pole(hz, fs) <= Pole(DcLowest, fs)
  <1> DEFINE a == DcClampCutoff(DcLowest, fs)
             b == DcClampCutoff(hz, fs)
             low == DcLowest
             i == a \div fs
             j == b \div fs
  <1>1. low \in Int /\ low = 1
    BY DEF DcLowest
  <1>2. a \in Nat /\ b \in Nat /\ a <= b
    BY DEF DcClampCutoff, ClampTo, DcLowest
  <1>3. i \in 0..49 /\ j \in 0..49
    <2> HIDE DEF low
    <2>1. DcClampCutoff(low, fs) \div fs \in 0..49 /\ DcClampCutoff(hz, fs) \div fs \in 0..49
      BY <1>1, PoleShare
    <2>. QED
      BY <2>1 DEF low
  <1>4. Pole(hz, fs) = Radius[j] /\ Pole(DcLowest, fs) = Radius[i]
    BY Zenon DEF Pole
  <1> HIDE DEF a, b
  <1>5. fs * i <= a /\ a < fs * i + fs /\ fs * j <= b /\ b < fs * j + fs
    BY <1>2, Quotients
  <1> HIDE DEF i, j
  <1>6. i <= j
    <2> SUFFICES ASSUME j < i PROVE FALSE
      BY <1>3
    <2>1. j + 1 <= i /\ j + 1 \in Int /\ i \in Int
      BY <1>3
    <2>2. fs * (j + 1) <= fs * i
      BY <2>1, FactorKeeps
    <2>3. fs * (j + 1) = fs * j + fs
      BY <1>3
    <2>4. fs * i \in Int /\ fs * j \in Int
      BY <1>3
    <2>. QED
      BY <1>2, <1>5, <2>2, <2>3, <2>4
  <1>7. Radius[j] <= Radius[i]
    BY <1>3, <1>6, RadiusFalls
  <1>8. Radius[i] \in 1..(Unit - 1) /\ Radius[j] \in 1..(Unit - 1)
    BY <1>3, RadiusAssumption
  <1>. QED
    BY <1>4, <1>7, <1>8

\* States of two numbers.
DcStates(states, ch) ==
  DOMAIN states = 1..ch /\ \A c \in 1..ch : states[c] \in [x1 : Int, y1 : Int]

\* Both numbers of each state are at most l.
DcWithin(states, ch, l) ==
  \A c \in 1..ch : Magnitude(states[c].x1) <= l /\ Magnitude(states[c].y1) <= l

\* The peak is the largest of the magnitudes.
LEMMA PeakIs ==
  ASSUME NEW ch \in Nat, NEW states, DcStates(states, ch)
  PROVE  /\ StatePeak(states) \in Nat
         /\ DcWithin(states, ch, StatePeak(states))
         /\ \A l \in Nat : DcWithin(states, ch, l) => StatePeak(states) <= l
  <1> DEFINE I == (1..ch) \X {"x1", "y1"}
             f == [q \in I |-> Magnitude(states[q[1]][q[2]])]
             S == UNION {{Magnitude(states[c][a]) : a \in DOMAIN states[c]} : c \in DOMAIN states}
             all == {0} \cup S
  <1>1. /\ DOMAIN states = 1..ch
        /\ \A c \in 1..ch : DOMAIN states[c] = {"x1", "y1"}
        /\ \A c \in 1..ch : states[c].x1 \in Int /\ states[c].y1 \in Int
    BY DEF DcStates
  <1>2. \A c \in 1..ch, a \in {"x1", "y1"} : Magnitude(states[c][a]) \in Nat
    BY <1>1 DEF Magnitude
  <1>3. \A v : v \in S <=> \E c \in 1..ch, a \in {"x1", "y1"} : v = Magnitude(states[c][a])
    BY <1>1
  <1>4. S \subseteq Nat
    <2> HIDE DEF S
    <2>. QED
      BY <1>2, <1>3
  <1>5. IsFiniteSet(S)
    <2>1. IsFiniteSet(1..ch) /\ IsFiniteSet({"x1", "y1"})
      <3>1. IsFiniteSet({"x1"}) /\ IsFiniteSet({"y1"})
        BY FS_Singleton
      <3>2. IsFiniteSet({"x1"} \cup {"y1"})
        BY <3>1, FS_Union
      <3>3. {"x1"} \cup {"y1"} = {"x1", "y1"}
        OBVIOUS
      <3>. QED
        BY <3>2, <3>3, FS_Interval
    <2>2. IsFiniteSet(I)
      BY <2>1, FS_Product
    <2>3. \A q \in I : f[q] = Magnitude(states[q[1]][q[2]])
      OBVIOUS
    <2>4. f \in Surjection(I, S)
      <3>1. \A q \in I : f[q] \in S
        <4> HIDE DEF S, f
        <4>1. ASSUME NEW q \in I PROVE f[q] \in S
          <5>1. q[1] \in 1..ch /\ q[2] \in {"x1", "y1"}
            OBVIOUS
          <5>. QED
            BY <1>3, <2>3, <5>1
        <4>. QED
          BY <4>1
      <3>2. \A v \in S : \E q \in I : f[q] = v
        <4> HIDE DEF S
        <4>1. ASSUME NEW v \in S PROVE \E q \in I : f[q] = v
          <5>1. PICK c \in 1..ch, a \in {"x1", "y1"} : v = Magnitude(states[c][a])
            BY <1>3
          <5>2. <<c, a>> \in I /\ f[<<c, a>>] = v
            BY <5>1
          <5>. QED
            BY <5>2
        <4>. QED
          BY <4>1
      <3>3. f = [q \in I |-> f[q]]
        OBVIOUS
      <3> HIDE DEF f, S, I
      <3>4. f \in [I -> S]
        BY <3>1, <3>3
      <3>. QED
        BY <3>2, <3>4 DEF Surjection
    <2> HIDE DEF f, S, I
    <2>. QED
      BY <2>2, <2>4, FS_Surjection
  <1>6. StatePeak(states) = Max(all)
    BY Zenon DEF StatePeak
  <1> HIDE DEF S
  <1>7. all \subseteq Int /\ all # {} /\ IsFiniteSet(all) /\ all \subseteq Nat
    <2>1. IsFiniteSet(all)
      BY <1>5, FS_Singleton, FS_Union
    <2>2. all \subseteq Nat /\ 0 \in all
      BY <1>4
    <2>. QED
      BY <2>1, <2>2
  <1>8. Max(all) \in all /\ \A x \in all : Max(all) >= x
    <2> HIDE DEF all
    <2>. QED
      BY <1>7, MaxIn
  <1> DEFINE p == Max(all)
  <1>9. p \in Nat
    BY <1>7, <1>8
  <1>10. DcWithin(states, ch, p)
    <2> HIDE DEF p, all
    <2>1. ASSUME NEW c \in 1..ch
          PROVE  Magnitude(states[c].x1) <= p /\ Magnitude(states[c].y1) <= p
      <3>1. Magnitude(states[c].x1) \in S /\ Magnitude(states[c].y1) \in S
        BY <1>3
      <3>2. \A x \in S : x \in all
        BY DEF all
      <3>3. p >= Magnitude(states[c].x1) /\ p >= Magnitude(states[c].y1)
        BY <1>8, <3>1, <3>2 DEF p
      <3>4. Magnitude(states[c].x1) \in Nat /\ Magnitude(states[c].y1) \in Nat
        BY <1>2
      <3>. QED
        BY <1>9, <3>3, <3>4
    <2>. QED
      BY <2>1 DEF DcWithin
  <1>11. ASSUME NEW l \in Nat, DcWithin(states, ch, l) PROVE p <= l
    <2> HIDE DEF p
    <2>1. p = 0 \/ p \in S
      BY <1>8 DEF p
    <2>2. ASSUME p \in S PROVE p <= l
      <3>1. PICK c \in 1..ch, a \in {"x1", "y1"} : p = Magnitude(states[c][a])
        BY <1>3, <2>2
      <3>. QED
        BY <1>11, <3>1 DEF DcWithin
    <2>. QED
      BY <2>1, <2>2
  <1> HIDE DEF p
  <1>12. StatePeak(states) = p
    BY <1>6 DEF p
  <1>. QED
    BY <1>9, <1>10, <1>11, <1>12

\* What f frames of a drain leave of a state that was within the headroom.
Fading(s, f, fs) ==
  \/ f = 0 /\ Magnitude(s.x1) <= TailHeadroom /\ Magnitude(s.y1) <= TailHeadroom
  \/ f # 0 /\ s.x1 = 0 /\ Faint(s.y1, f - 1, Pole(DcLowest, fs))

\* A pole of a cutoff that a run may have, at that rate.
DrainPole(r, fs) ==
  fs \in Nat \ {0} /\ r \in Nat /\ r < Unit /\ Pole(DcLowest, fs) \in Nat \ {0} /\ r <= Pole(DcLowest, fs)

\* One frame goes on with that.
LEMMA FrameFades ==
  ASSUME NEW r, NEW fs, DrainPole(r, fs), NEW s \in [x1 : Int, y1 : Int], NEW f \in Nat,
         Fading(s, f, fs)
  PROVE  Fading(DcStep(s, 0, r), f + 1, fs)
  <1> DEFINE x == s.x1
             y == s.y1
             q == Quotient(r * y, Unit)
             z == DcStep(s, 0, r)
             low == Pole(DcLowest, fs)
             g == f - 1
  <1>1. x \in Int /\ y \in Int
    OBVIOUS
  <1>2. r \in Nat /\ r < Unit /\ low \in Nat \ {0} /\ r <= low
    BY DEF DrainPole
  <1>3. z.x1 = 0 /\ z.y1 = 0 - x + q
    BY DEF DcStep
  <1>4. q \in Int
    <2> HIDE DEF y
    <2>1. r * y \in Int
      BY <1>1, <1>2
    <2> DEFINE p == r * y
    <2> HIDE DEF p
    <2>2. Quotient(p, Unit) \in Int
      BY <2>1, QuotientTyped, TailAssumption DEF p
    <2>. QED
      BY <2>2 DEF p
  <1>5. Faint(z.y1, f, low)
    <2>1. CASE f = 0
      <3>1. Magnitude(x) <= TailHeadroom /\ Magnitude(y) <= TailHeadroom
        BY <2>1 DEF Fading
      <3> HIDE DEF x, y, low
      <3>2. Faint(0 - x + Quotient(r * y, Unit), 0, low)
        BY <1>1, <1>2, <3>1, StartsFaint
      <3>3. z.y1 = 0 - x + Quotient(r * y, Unit)
        BY <1>3
      <3>. QED
        BY <2>1, <3>2, <3>3
    <2>2. CASE f # 0
      <3>1. x = 0 /\ Faint(y, g, low) /\ g \in Nat /\ g + 1 = f
        BY <2>2 DEF Fading
      <3> HIDE DEF g, y, low, q
      <3>2. Faint(Quotient(r * y, Unit), g + 1, low)
        BY <1>1, <1>2, <3>1, Fades
      <3> HIDE DEF x
      <3>3. z.y1 = q
        BY <1>3, <1>4, <3>1
      <3>. QED
        BY <3>1, <3>2, <3>3 DEF q
    <2>. QED
      BY <2>1, <2>2
  <1>6. (f + 1) - 1 = f /\ f + 1 # 0
    OBVIOUS
  <1> HIDE DEF z, low
  <1>7. Fading(z, f + 1, fs)
    BY <1>3, <1>5, <1>6 DEF Fading, low
  <1>. QED
    BY <1>7 DEF z

\* n frames of silence.
Still(xs, n) == DOMAIN xs = 1..n /\ \A i \in 1..n : xs[i] = 0

\* A run of silence on one channel leaves numbers.
LEMMA SilenceTyped ==
  ASSUME NEW r, NEW fs, DrainPole(r, fs), NEW s \in [x1 : Int, y1 : Int], NEW n \in Nat,
         NEW xs, Still(xs, n)
  PROVE  FilterChannel("dc_blocker", r, s, xs).s \in [x1 : Int, y1 : Int]
  <1> DEFINE dc == "dc_blocker"
             end == FilterChannel(dc, r, s, xs)
  <1>1. dc \in Filters /\ dc = "dc_blocker"
    BY DEF Filters
  <1>2. Works(dc, r)
    BY DEF DrainPole, Works
  <1>3. s \in StatesOf(dc)
    BY DEF StatesOf
  <1>4. DOMAIN xs = 1..n /\ \A i \in 1..n : FiniteOrZero(xs[i]) \in Int
    BY DEF Still, FiniteOrZero
  <1> HIDE DEF dc
  <1>5. PICK A : FilterWalks(A, dc, r, s, xs, n, end)
    BY <1>1, <1>2, <1>3, <1>4, FilterChannelWalks
  <1>6. A \in [0..n -> FilterFrames(dc)] /\ end = A[n]
    BY <1>5, Zenon DEF FilterWalks
  <1>7. end.s \in [x1 : Int, y1 : Int]
    BY <1>1, <1>6 DEF FilterFrames, StatesOf
  <1>. QED
    BY <1>7 DEF dc

\* A run of silence on one channel goes on with it.
LEMMA SilenceFades ==
  ASSUME NEW r, NEW fs, DrainPole(r, fs), NEW s \in [x1 : Int, y1 : Int], NEW f \in Nat,
         Fading(s, f, fs), NEW n \in Nat, NEW xs, Still(xs, n)
  PROVE  Fading(FilterChannel("dc_blocker", r, s, xs).s, f + n, fs)
  <1> DEFINE dc == "dc_blocker"
             end == FilterChannel(dc, r, s, xs)
  <1>1. dc \in Filters /\ dc = "dc_blocker"
    BY DEF Filters
  <1>2. Works(dc, r)
    BY DEF DrainPole, Works
  <1>3. s \in StatesOf(dc)
    BY DEF StatesOf
  <1>4. DOMAIN xs = 1..n /\ \A i \in 1..n : xs[i] = 0 /\ FiniteOrZero(xs[i]) = 0
    BY DEF Still, FiniteOrZero
  <1>5. \A i \in 1..n : FiniteOrZero(xs[i]) \in Int
    BY <1>4
  <1> HIDE DEF dc
  <1>6. PICK A : FilterWalks(A, dc, r, s, xs, n, end)
    BY <1>1, <1>2, <1>3, <1>4, <1>5, FilterChannelWalks
  <1>7. /\ A \in [0..n -> FilterFrames(dc)] /\ A[0] = [s |-> s, out |-> <<>>]
        /\ \A i \in 1..n : A[i] = FilterFrame(dc, r, A[i - 1], xs[i])
        /\ end = A[n]
    BY <1>6, Zenon DEF FilterWalks
  <1>8. \A i \in 0..n : A[i].s \in [x1 : Int, y1 : Int]
    BY <1>1, <1>7 DEF FilterFrames, StatesOf
  <1> DEFINE S == {i \in Nat : Fading(A[i].s, f + i, fs)}
  <1>9. 0 \in S
    <2>1. A[0].s = s /\ f + 0 = f
      BY <1>7
    <2>. QED
      BY <2>1
  <1>10. ASSUME NEW i \in 0..(n - 1), i \in S PROVE i + 1 \in S
    <2> DEFINE t == A[i].s
               g == f + i
    <2>1. i + 1 \in 1..n /\ (i + 1) - 1 = i /\ i \in Nat /\ i \in 0..n /\ i + 1 \in Nat
          /\ g \in Nat /\ f + (i + 1) = g + 1
      OBVIOUS
    <2>2. A[i + 1] = FilterFrame(dc, r, A[i], xs[i + 1])
      BY <1>7, <2>1
    <2>3. FiniteOrZero(xs[i + 1]) = 0
      BY <1>4, <2>1
    <2>4. A[i + 1].s = DcStep(t, 0, r)
      <3>1. FilterFrame(dc, r, A[i], xs[i + 1]).s = FilterStep(dc, t, FiniteOrZero(xs[i + 1]), r)
        BY DEF FilterFrame
      <3>. QED
        BY <1>1, <2>2, <2>3, <3>1 DEF FilterStep
    <2>5. t \in [x1 : Int, y1 : Int] /\ Fading(t, g, fs)
      BY <1>8, <1>10, <2>1
    <2> HIDE DEF t, g
    <2>6. Fading(DcStep(t, 0, r), g + 1, fs)
      BY <2>1, <2>5, FrameFades
    <2>. QED
      BY <2>1, <2>4, <2>6
  <1>11. \A i \in 0..n : i \in S
    <2> HIDE DEF S
    <2>. QED
      BY <1>9, <1>10, UpTo
  <1>12. n \in 0..n
    OBVIOUS
  <1>13. Fading(end.s, f + n, fs)
    BY <1>7, <1>11, <1>12
  <1>. QED
    BY <1>13 DEF dc

\* A kernel that drains from within the headroom, or is over.
DcCalm(k) ==
  \/ StatePeak(k.state) < TailFloor
  \/ \A c \in DOMAIN k.state : Fading(k.state[c], k.flushed, k.fs)

\* Its drain is that of its rate.
DcDrainable(k, ch) ==
  /\ {"state", "flushed", "tail_bound", "fs", "flush_r"} \subseteq DOMAIN k
  /\ DcStates(k.state, ch) /\ k.fs \in Nat \ {0}
  /\ k.tail_bound = DcTailBound(k.fs) /\ k.flushed \in 0..(k.tail_bound)
  /\ DrainPole(k.flush_r, k.fs)

\* The bound is one frame more than the slowest decay takes.
LEMMA BoundDecays ==
  ASSUME NEW fs \in Nat \ {0}
  PROVE  \E n \in Nat : DcTailBound(fs) = n + 1 /\ Decayed(Pole(DcLowest, fs), n)
  <1> DEFINE low == DcLowest
             h == DcClampCutoff(low, fs) \div fs
             n == DecayFrames(Radius[h])
  <1>1. low \in Int
    BY DEF DcLowest
  <1>2. h \in 0..49
    <2> HIDE DEF low
    <2>1. fs \in Nat /\ fs >= 1
      OBVIOUS
    <2>. QED
      BY <1>1, <2>1, PoleShare
  <1>3. Pole(DcLowest, fs) = Radius[h]
    BY Zenon DEF Pole
  <1> HIDE DEF h
  <1>4. n \in Nat /\ Decayed(Radius[h], n)
    BY <1>2, DecayTyped
  <1>5. DcTailBound(fs) = n + 1
    BY <1>3 DEF DcTailBound
  <1> HIDE DEF n
  <1>. QED
    BY <1>3, <1>4, <1>5

\* When such a drain is over, nothing above the floor is left.
LEMMA CalmDone ==
  ASSUME NEW ch \in Nat, NEW k, DcDrainable(k, ch), DcCalm(k), TailDone(k)
  PROVE  StatePeak(k.state) < TailFloor
  <1>1. /\ DcStates(k.state, ch) /\ k.fs \in Nat \ {0}
        /\ k.tail_bound = DcTailBound(k.fs) /\ k.flushed \in 0..(k.tail_bound)
        /\ Pole(DcLowest, k.fs) \in Nat \ {0}
    BY DEF DcDrainable, DrainPole
  <1> DEFINE fs == k.fs
             f == k.flushed
             low == Pole(DcLowest, fs)
             states == k.state
             last == TailFloor - 1
  <1>2. PICK n \in Nat : DcTailBound(fs) = n + 1 /\ Decayed(low, n)
    BY <1>1, BoundDecays
  <1>3. CASE ~ StatePeak(states) < TailFloor
    <2>1. f = n + 1
      <3>1. f >= k.tail_bound
        BY <1>3 DEF TailDone
      <3>. QED
        BY <1>1, <1>2, <3>1
    <2>2. \A c \in DOMAIN states : Fading(states[c], f, fs)
      BY <1>3 DEF DcCalm
    <2>3. DcStates(states, ch) /\ DOMAIN states = 1..ch
          /\ \A c \in 1..ch : states[c].x1 \in Int /\ states[c].y1 \in Int
      BY <1>1 DEF DcStates
    <2>4. last \in Nat /\ TailFloor \in Nat
      BY TailAssumption
    <2>5. low \in Nat \ {0}
      BY <1>1
    <2> HIDE DEF states, f, fs, last, low
    <2>6. ASSUME NEW c \in 1..ch
          PROVE  Magnitude(states[c].x1) <= last /\ Magnitude(states[c].y1) <= last
      <3> DEFINE x == states[c].x1
                 y == states[c].y1
      <3>1. x \in Int /\ y \in Int
        BY <2>3
      <3>2. f # 0 /\ f - 1 = n
        BY <2>1
      <3>3. x = 0 /\ Faint(y, n, low)
        BY <2>2, <2>3, <3>2 DEF Fading, low
      <3> HIDE DEF x, y
      <3>4. Magnitude(y) < TailFloor
        BY <1>2, <2>5, <3>1, <3>3, FaintEnough
      <3>5. Magnitude(x) <= last /\ Magnitude(y) <= last
        BY <2>4, <3>1, <3>3, <3>4 DEF Magnitude, last
      <3>. QED
        BY <3>5 DEF x, y
    <2>7. DcWithin(states, ch, last)
      BY <2>6 DEF DcWithin
    <2>8. StatePeak(states) \in Nat /\ StatePeak(states) <= last
      BY <2>3, <2>4, <2>7, PeakIs
    <2>9. StatePeak(states) < TailFloor
      BY <2>4, <2>8 DEF last
    <2>. QED
      BY <2>9 DEF states
  <1>. QED
    BY <1>3

\* What a DC blocker's flush does: the drain is over, or goes on with silence.
DcDrains(k, room, f) ==
  IF TailDone(k) THEN f.kernel = Settle(k) /\ f.done = TRUE
  ELSE \E want, drained :
         /\ want = Min({room, k.tail_bound - k.flushed})
         /\ drained = [k EXCEPT !.state = FilterRun("dc_blocker", k.state,
                                            Silence(Len(k.state), want), k.flush_r).state,
                                !.flushed = @ + want]
         /\ f.kernel = Settle(drained) /\ f.done = TailDone(drained)

\* It does.
LEMMA DcFlushDrains ==
  ASSUME NEW k, NEW room
  PROVE  DcDrains(k, room, DcFlush(k, room))
  <1> DEFINE want == Min({room, k.tail_bound - k.flushed})
             planes == Silence(Len(k.state), want)
             r == k.flush_r
             run == FilterRun("dc_blocker", k.state, planes, r)
             drained == [k EXCEPT !.state = run.state, !.flushed = @ + want]
  <1>1. run = RunStates(k.state, planes, LAMBDA s, x : DcStep(s, x, r))
    BY Zenon DEF FilterRun
  <1>2. DcFlush(k, room)
          = IF TailDone(k)
            THEN [kernel |-> Settle(k), out |-> Silence(Len(k.state), 0), frames |-> 0,
                  done |-> TRUE]
            ELSE [kernel |-> Settle(drained), out |-> run.out, frames |-> want,
                  done |-> TailDone(drained)]
    BY <1>1, Zenon DEF DcFlush, FlushStates
  <1>3. CASE TailDone(k)
    <2>1. DcFlush(k, room).kernel = Settle(k) /\ DcFlush(k, room).done = TRUE
      BY <1>2, <1>3
    <2>. QED
      BY <1>3, <2>1, Zenon DEF DcDrains
  <1>4. CASE ~ TailDone(k)
    <2> HIDE DEF drained
    <2>1. DcFlush(k, room).kernel = Settle(drained) /\ DcFlush(k, room).done = TailDone(drained)
      BY <1>2, <1>4
    <2>. QED
      BY <1>4, <2>1, Zenon DEF DcDrains, drained
  <1>. QED
    BY <1>3, <1>4

\* A call keeps such a drain one, and when it says that it is over, it is.
LEMMA DrainStaysCalm ==
  ASSUME NEW ch \in Nat, NEW k, DcDrainable(k, ch), NEW room \in Nat, NEW f, DcDrains(k, room, f)
  PROVE  /\ f.kernel.fs = k.fs /\ f.kernel.tail_bound = k.tail_bound
         /\ DcCalm(k) => DcCalm(f.kernel) /\ (f.done => StatePeak(f.kernel.state) < TailFloor)
  <1>1. /\ {"state", "flushed", "tail_bound", "fs", "flush_r"} \subseteq DOMAIN k
        /\ DcStates(k.state, ch) /\ DOMAIN k.state = 1..ch /\ k.fs \in Nat \ {0}
        /\ k.tail_bound = DcTailBound(k.fs) /\ k.flushed \in 0..(k.tail_bound)
        /\ DrainPole(k.flush_r, k.fs)
    BY DEF DcDrainable, DcStates
  <1>2. CASE TailDone(k)
    <2> DEFINE settled == [k EXCEPT !.flushed = k.tail_bound]
    <2>1. f.kernel = settled
      BY <1>2, Zenon DEF DcDrains, Settle
    <2>2. settled.state = k.state /\ settled.fs = k.fs /\ settled.tail_bound = k.tail_bound
      BY <1>1
    <2> HIDE DEF settled
    <2>3. DcCalm(k) => StatePeak(k.state) < TailFloor
      BY <1>2, CalmDone
    <2>. QED
      BY <2>1, <2>2, <2>3, Zenon DEF DcCalm
  <1>3. CASE ~ TailDone(k)
    <2> DEFINE r == k.flush_r
               fs == k.fs
               tail == k.tail_bound
               was == k.flushed
               states == k.state
               left == tail - was
    <2>1. PICK want, drained :
            /\ want = Min({room, left})
            /\ drained = [k EXCEPT !.state = FilterRun("dc_blocker", states,
                                               Silence(Len(states), want), r).state,
                                   !.flushed = was + want]
            /\ f.kernel = Settle(drained) /\ f.done = TailDone(drained)
      BY <1>3, Zenon DEF DcDrains
    <2>2. tail \in Nat /\ was \in Nat /\ was <= tail /\ fs \in Nat \ {0}
      <3>1. PICK n \in Nat : tail = n + 1
        BY <1>1, BoundDecays
      <3>. QED
        BY <1>1, <3>1
    <2>3. want \in Nat /\ want <= left
      <3>1. left \in Nat
        BY <2>2
      <3> HIDE DEF left
      <3>2. \E x \in {room, left} : \A y \in {room, left} : x <= y
        BY <3>1
      <3>3. want \in {room, left} /\ want <= left
        BY <2>1, <3>2 DEF Min
      <3>. QED
        BY <3>1, <3>3
    <2> DEFINE planes == Silence(Len(states), want)
               new == FilterRun("dc_blocker", states, planes, r).state
               now == was + want
    <2>4. /\ drained.state = new /\ drained.flushed = now /\ drained.fs = fs
          /\ drained.tail_bound = tail /\ drained.flush_r = r /\ DOMAIN drained = DOMAIN k
      BY <1>1, <2>1
    <2>5. now \in 0..tail
      BY <2>2, <2>3
    <2>6. Len(states) = ch
      BY <1>1
    <2>7. \A c \in 1..ch : Still(planes[c], want)
      BY <2>3, <2>6 DEF Silence, Still
    <2>8. DOMAIN new = 1..ch
          /\ \A c \in 1..ch : new[c] = FilterChannel("dc_blocker", r, states[c], planes[c]).s
      <3> DEFINE dc == "dc_blocker"
      <3>1. dc \in Filters
        BY DEF Filters
      <3>2. DOMAIN states = 1..ch
        BY <1>1
      <3> HIDE DEF dc, planes
      <3>3. DOMAIN FilterRun(dc, states, planes, r).state = DOMAIN states
            /\ \A c \in DOMAIN states : FilterRun(dc, states, planes, r).state[c]
                                          = FilterChannel(dc, r, states[c], planes[c]).s
        BY <3>1, FilterRunIs
      <3>. QED
        BY <3>2, <3>3 DEF dc
    <2>9. DrainPole(r, fs) /\ \A c \in 1..ch : states[c] \in [x1 : Int, y1 : Int]
      BY <1>1 DEF DcStates
    <2> HIDE DEF new, planes, r, fs, states, now, was, tail, left
    <2>10. DcStates(new, ch)
      <3>1. ASSUME NEW c \in 1..ch PROVE new[c] \in [x1 : Int, y1 : Int]
        <4> DEFINE xs == planes[c]
                   s == states[c]
        <4>1. Still(xs, want) /\ s \in [x1 : Int, y1 : Int] /\ want \in Nat
          BY <2>3, <2>7, <2>9
        <4> HIDE DEF xs, s
        <4>2. FilterChannel("dc_blocker", r, s, xs).s \in [x1 : Int, y1 : Int]
          BY <2>9, <4>1, SilenceTyped
        <4>. QED
          BY <2>8, <4>2 DEF s, xs
      <3>. QED
        BY <2>8, <3>1 DEF DcStates
    <2>11. DcDrainable(drained, ch)
      BY <1>1, <2>4, <2>5, <2>10 DEF DcDrainable, r, fs, tail
    <2>12. DcCalm(k) => DcCalm(drained)
      <3> SUFFICES ASSUME DcCalm(k) PROVE DcCalm(drained)
        OBVIOUS
      <3>1. \A c \in 1..ch : Fading(states[c], was, fs)
        <4>1. ~ StatePeak(k.state) < TailFloor
          BY <1>3 DEF TailDone
        <4>. QED
          BY <1>1, <4>1 DEF DcCalm, states, was, fs
      <3>2. ASSUME NEW c \in 1..ch PROVE Fading(new[c], now, fs)
        <4> DEFINE xs == planes[c]
                   s == states[c]
        <4>1. /\ Still(xs, want) /\ s \in [x1 : Int, y1 : Int] /\ want \in Nat /\ was \in Nat
              /\ Fading(s, was, fs)
          BY <2>2, <2>3, <2>7, <2>9, <3>1
        <4> HIDE DEF xs, s
        <4>2. Fading(FilterChannel("dc_blocker", r, s, xs).s, was + want, fs)
          BY <2>9, <4>1, SilenceFades
        <4>. QED
          BY <2>8, <4>2 DEF s, xs, now
      <3>3. \A c \in DOMAIN drained.state : Fading(drained.state[c], drained.flushed, drained.fs)
        BY <2>4, <2>8, <3>2
      <3>. QED
        BY <3>3, Zenon DEF DcCalm
    <2>13. DcCalm(drained) /\ TailDone(drained) => StatePeak(drained.state) < TailFloor
      BY <2>11, CalmDone
    <2> DEFINE settled == [drained EXCEPT !.flushed = drained.tail_bound]
    <2>14. f.kernel = IF TailDone(drained) THEN settled ELSE drained
      BY <2>1, Zenon DEF Settle
    <2>15. settled.state = drained.state /\ settled.fs = drained.fs
           /\ settled.tail_bound = drained.tail_bound
      BY <1>1, <2>4
    <2> HIDE DEF settled
    <2>16. f.kernel.fs = fs /\ f.kernel.tail_bound = tail /\ f.kernel.state = drained.state
      BY <2>4, <2>14, <2>15
    <2>17. DcCalm(k) => DcCalm(f.kernel)
      <3>1. CASE TailDone(drained)
        BY <2>12, <2>13, <2>16, <3>1, Zenon DEF DcCalm
      <3>2. CASE ~ TailDone(drained)
        BY <2>12, <2>14, <3>2
      <3>. QED
        BY <3>1, <3>2
    <2>18. DcCalm(k) /\ f.done => StatePeak(f.kernel.state) < TailFloor
      <3> SUFFICES ASSUME DcCalm(k), f.done PROVE StatePeak(f.kernel.state) < TailFloor
        OBVIOUS
      <3>1. TailDone(drained)
        BY <2>1
      <3>2. StatePeak(drained.state) < TailFloor
        BY <2>12, <2>13, <3>1
      <3>. QED
        BY <2>16, <3>2
    <2>. QED
      BY <2>16, <2>17, <2>18 DEF fs, tail
  <1>. QED
    BY <1>2, <1>3

\* The drain of a DC blocker: its bound is that of its rate, what came of an input within the
\* headroom is no more than the bound reckons with, and what is over is below the floor.
TailInv ==
  kind = "dc_blocker" =>
    /\ kernel.fs # 0 => kernel.tail_bound = DcTailBound(kernel.fs)
    /\ ~ hot => DcCalm(kernel)
    /\ ended /\ ~ hot => StatePeak(kernel.state) < TailFloor

\* A DC blocker at rest is within the headroom.
LEMMA RestCalm ==
  ASSUME NEW k, NEW n, k.state = DcRest(n), k.flushed = 0
  PROVE  DcCalm(k)
  <1>1. TailHeadroom \in Nat
    BY TailAssumption
  <1>2. ASSUME NEW c \in DOMAIN k.state
        PROVE  Fading(k.state[c], k.flushed, k.fs)
    <2>1. k.state[c].x1 = 0 /\ k.state[c].y1 = 0
      BY DEF DcRest
    <2>2. Magnitude(0) = 0
      BY DEF Magnitude
    <2>. QED
      BY <1>1, <2>1, <2>2 DEF Fading
  <1>. QED
    BY <1>2, Zenon DEF DcCalm

\* So is a new one,
LEMMA TailInit == Init => TailInv
  <1> SUFFICES ASSUME Init, kind = "dc_blocker"
               PROVE  /\ kernel.fs # 0 => kernel.tail_bound = DcTailBound(kernel.fs)
                      /\ ~ hot => DcCalm(kernel)
                      /\ ended /\ ~ hot => StatePeak(kernel.state) < TailFloor
    BY DEF TailInv
  <1>1. PICK k \in Kernels : kind = k.kind /\ kernel = k.kernel
    BY DEF Init
  <1>2. Constructed(kind, kernel)
    BY <1>1, HostAssumption
  <1> DEFINE settings == [cutoff_hz |-> Default(kernel, 1)]
  <1>3. kernel = DcNew(settings)
    BY <1>2, Zenon DEF Constructed
  <1> HIDE DEF settings
  <1>4. kernel.fs = 0 /\ kernel.state = <<>>
    BY <1>3 DEF DcNew
  <1>5. DcCalm(kernel)
    <2>1. DOMAIN kernel.state = {}
      BY <1>4
    <2>. QED
      BY <2>1 DEF DcCalm
  <1>6. ended = FALSE
    BY DEF Init
  <1>. QED
    BY <1>4, <1>5, <1>6

\* one that is prepared, or that a refusal left as it was,
LEMMA TailPrepare ==
  ASSUME KernelInv, TailInv, NEW spec \in Specs[kind], Prepare(spec)
  PROVE  TailInv'
  <1>1. Formed(kind, kernel) /\ kind' = kind
    BY SteadyFormed DEF KernelInv, Prepare
  <1>2. ASSUME NEW why, PrepareRefused(why)
        PROVE  TailInv'
    <2>1. kernel' = kernel /\ hot' = hot /\ ended' = ended
      BY <1>2, Zenon DEF PrepareRefused, Refuse, history
    <2>. QED
      BY <1>1, <2>1 DEF TailInv, DcCalm
  <1>3. ASSUME PrepareKernel(spec), kind = "dc_blocker"
        PROVE  TailInv'
    <2> DEFINE k == DcPrepared(kernel, spec)
               rate == spec.sample_rate
    <2>1. kernel' = KernelPrepared(spec) /\ ended' = FALSE
      BY <1>3, Zenon DEF PrepareKernel, Forget
    <2>2. KernelPrepared(spec) = k
      BY <1>3, Zenon DEF KernelPrepared
    <2>3. DOMAIN kernel = {"params", "fs", "state", "flush_r", "tail_bound", "flushed"}
      BY <1>1, <1>3 DEF Formed
    <2> DEFINE states == DcRest(spec.channels)
               bound == DcTailBound(rate)
    <2>4. /\ k.fs = rate /\ k.state = states /\ k.tail_bound = bound
          /\ k.flushed = 0
      <3> HIDE DEF states, bound
      <3> DEFINE j == [kernel EXCEPT !.fs = rate, !.state = states, !.tail_bound = bound]
      <3>1. k = DcResetFlush(j)
        BY Zenon DEF DcPrepared, states, bound
      <3>2. DOMAIN j = DOMAIN kernel /\ j.fs = rate /\ j.state = states /\ j.tail_bound = bound
        BY <2>3
      <3> HIDE DEF j
      <3> DEFINE r == IF j.fs > 0 THEN Pole(FiniteOrZero(j.params[1].default), j.fs) ELSE j.flush_r
      <3>3. DcResetFlush(j) = [j EXCEPT !.flushed = 0, !.flush_r = r]
        BY DEF DcResetFlush
      <3> HIDE DEF r
      <3>. QED
        BY <2>3, <3>1, <3>2, <3>3
    <2> HIDE DEF k
    <2>5. DcCalm(k)
      BY <2>4, RestCalm
    <2>6. kernel' = k
      BY <2>1, <2>2
    <2>. QED
      BY <1>1, <2>1, <2>4, <2>5, <2>6 DEF TailInv, DcCalm
  <1>4. CASE \E why : PrepareRefused(why)
    BY <1>2, <1>4
  <1>5. CASE PrepareKernel(spec)
    <2>1. kind # "dc_blocker" => TailInv'
      BY <1>1 DEF TailInv
    <2>. QED
      BY <1>3, <1>5, <2>1
  <1>. QED
    BY <1>4, <1>5, Zenon DEF Prepare

\* and one that is reset.
LEMMA TailReset ==
  ASSUME KernelInv, TailInv, Reset
  PROVE  TailInv'
  <1>1. Formed(kind, kernel) /\ kind' = kind
    BY SteadyFormed DEF KernelInv, Reset
  <1>2. CASE kind # "dc_blocker"
    BY <1>1, <1>2 DEF TailInv
  <1>3. CASE kind = "dc_blocker"
    <2> DEFINE states == DcRest(Len(kernel.state))
               j == [kernel EXCEPT !.state = states]
    <2>1. kernel' = DcReset(kernel) /\ ended' = FALSE
      BY <1>3, Zenon DEF Reset, KernelReset, Forget
    <2>2. DOMAIN kernel = {"params", "fs", "state", "flush_r", "tail_bound", "flushed"}
      BY <1>1, <1>3 DEF Formed
    <2>3. DcReset(kernel) = DcResetFlush(j)
      BY DEF DcReset
    <2> HIDE DEF states
    <2>4. /\ DOMAIN j = DOMAIN kernel /\ j.fs = kernel.fs /\ j.state = states
          /\ j.tail_bound = kernel.tail_bound
      BY <2>2
    <2> HIDE DEF j
    <2> DEFINE r == IF j.fs > 0 THEN Pole(FiniteOrZero(j.params[1].default), j.fs) ELSE j.flush_r
    <2>5. DcResetFlush(j) = [j EXCEPT !.flushed = 0, !.flush_r = r]
      BY DEF DcResetFlush
    <2> HIDE DEF r
    <2>6. /\ kernel'.state = states /\ kernel'.flushed = 0 /\ kernel'.fs = kernel.fs
          /\ kernel'.tail_bound = kernel.tail_bound
      BY <2>1, <2>2, <2>3, <2>4, <2>5
    <2> DEFINE k == kernel'
    <2>7. DcCalm(k)
      <3>1. k.state = DcRest(Len(kernel.state)) /\ k.flushed = 0
        BY <2>6 DEF states
      <3> HIDE DEF k
      <3> DEFINE n == Len(kernel.state)
      <3>2. k.state = DcRest(n)
        BY <3>1
      <3> HIDE DEF n
      <3>. QED
        BY <3>1, <3>2, RestCalm
    <2>. QED
      BY <1>1, <1>3, <2>1, <2>6, <2>7 DEF TailInv, DcCalm
  <1>. QED
    BY <1>2, <1>3

\* A DC blocker that can be run has states of two numbers, one for each channel.
LEMMA StatesTyped ==
  ASSUME NEW k, NEW h, NEW ch \in Nat, NEW m, NEW knd, knd = "dc_blocker", Reflects(knd, k, h, ch, m),
         Ready(knd, k)
  PROVE  DcStates(k.state, ch) /\ k.fs \in Nat \ {0} /\ k.flushed \in 0..(k.tail_bound)
         /\ StatesRight(knd, k, h, ch, m)
  <1>1. knd \in Filters
    BY DEF Filters
  <1>2. Shaped(knd, k, ch) /\ Right(knd, k, h, ch, m)
    BY Zenon DEF Reflects
  <1>3. StatesRight(knd, k, h, ch, m)
    BY <1>1, <1>2, Zenon DEF Right
  <1>4. \A c \in 1..ch : k.state[c] \in StatesOf(knd)
    BY <1>3, Zenon DEF StatesRight, StateRight
  <1>5. \A c \in 1..ch : k.state[c] \in [x1 : Int, y1 : Int]
    BY <1>4, Zenon DEF StatesOf
  <1>6. DOMAIN k.state = 1..ch /\ k.flushed \in 0..(k.tail_bound)
    BY <1>1, <1>2, Zenon DEF Shaped
  <1>7. k.fs \in Nat \ {0}
    BY Zenon DEF Ready
  <1>. QED
    BY <1>3, <1>5, <1>6, <1>7, Zenon DEF DcStates

\* Its run begins a drain.
LEMMA RunBegins ==
  ASSUME kind = "dc_blocker", NEW k, "flushed" \in DOMAIN k, NEW run, NEW p, NEW slip
  PROVE  /\ KernelRender(k, run, p, slip).kernel.flushed = 0
         /\ "flushed" \in DOMAIN KernelRender(k, run, p, slip).kernel
  <1>1. KernelRender(k, run, p, slip) = DcRender(k, run, p)
    BY Zenon DEF KernelRender
  <1>2. \E r, s : DcRender(k, run, p).kernel = [k EXCEPT !.flushed = 0, !.flush_r = r, !.state = s]
    BY Zenon DEF DcRender
  <1>3. PICK r, s : DcRender(k, run, p).kernel = [k EXCEPT !.flushed = 0, !.flush_r = r, !.state = s]
    BY <1>2
  <1>. QED
    BY <1>1, <1>3

\* And so does a block, however it is cut.
LEMMA BlockBegins ==
  ASSUME kind = "dc_blocker", "flushed" \in DOMAIN kernel, NEW ctx, NEW cut, NEW p, NEW q, NEW slip
  PROVE  RenderBlock(ctx, cut, p, q, slip).kernel.flushed = 0
  <1> DEFINE first == RenderRun(kernel, ctx, 0, cut, p, slip)
             second == RenderRun(first.kernel, first.ctx, cut, ctx.frames - cut, q, slip)
  <1>1. first.kernel.flushed = 0 /\ "flushed" \in DOMAIN first.kernel
    <2> DEFINE run == Run(ctx, 0, cut)
    <2>1. first.kernel = KernelRender(kernel, run, p, slip).kernel
      BY Zenon DEF RenderRun
    <2> HIDE DEF first, run
    <2>. QED
      BY <2>1, RunBegins
  <1>2. second.kernel.flushed = 0
    <2> DEFINE k == first.kernel
               run == Run(first.ctx, cut, ctx.frames - cut)
    <2>1. second.kernel = KernelRender(k, run, q, slip).kernel
      BY Zenon DEF RenderRun
    <2>2. "flushed" \in DOMAIN k
      BY <1>1
    <2> HIDE DEF second, run, k
    <2>. QED
      BY <2>1, <2>2, RunBegins
  <1>3. RenderBlock(ctx, cut, p, q, slip) = IF cut = ctx.frames THEN first ELSE second
    BY Zenon DEF RenderBlock
  <1> HIDE DEF first, second
  <1>. QED
    BY <1>1, <1>2, <1>3

\* States within the headroom are where a drain may begin.
LEMMA CoolCalm ==
  ASSUME NEW k, NEW ch \in Nat, DcStates(k.state, ch), k.flushed = 0,
         ~ StatePeak(k.state) > TailHeadroom
  PROVE  DcCalm(k)
  <1> DEFINE states == k.state
             l == StatePeak(states)
  <1>1. l \in Nat /\ DcWithin(states, ch, l)
    <2>1. DcStates(states, ch)
      OBVIOUS
    <2> HIDE DEF states
    <2>. QED
      BY <2>1, PeakIs
  <1>2. TailHeadroom \in Nat /\ l <= TailHeadroom
    BY <1>1, TailAssumption
  <1>3. ASSUME NEW c \in 1..ch
        PROVE  Magnitude(states[c].x1) <= TailHeadroom /\ Magnitude(states[c].y1) <= TailHeadroom
    <2>1. Magnitude(states[c].x1) <= l /\ Magnitude(states[c].y1) <= l
      BY <1>1, Zenon DEF DcWithin
    <2>2. states[c].x1 \in Int /\ states[c].y1 \in Int
      BY DEF DcStates
    <2>3. Magnitude(states[c].x1) \in Int /\ Magnitude(states[c].y1) \in Int
      BY <2>2 DEF Magnitude
    <2> HIDE DEF l, states
    <2>. QED
      BY <1>1, <1>2, <2>1, <2>3
  <1>4. DOMAIN states = 1..ch
    BY DEF DcStates
  <1>5. \A c \in DOMAIN k.state : Fading(k.state[c], k.flushed, k.fs)
    BY <1>3, <1>4, Zenon DEF Fading
  <1>. QED
    BY <1>5, Zenon DEF DcCalm

\* A block begins a drain.
LEMMA TailProcess ==
  ASSUME KernelInv, TailInv, HistoryInv', NEW p \in RunValues, NEW q \in RunValues, NEW n \in Nat,
         NEW ctx \in Contexts(n), Process(ctx, p, q)
  PROVE  TailInv'
  <1>1. PICK slip \in Slips, cut \in 1..ctx.frames : ProcessBlock(ctx, cut, p, q, slip)
    BY DEF Process
  <1>2. /\ HonorsContract(ctx) /\ kernel' = RenderBlock(ctx, cut, p, q, slip).kernel
        /\ ended' = FALSE
        /\ hot' = (kind \in Filters /\ StatePeak(kernel'.state) > TailHeadroom)
        /\ UNCHANGED <<kind, prepared>>
    BY <1>1, Zenon DEF ProcessBlock
  <1>3. prepared # NotPrepared
    BY <1>2 DEF HonorsContract
  <1> SUFFICES ASSUME kind = "dc_blocker"
               PROVE  TailInv'
    BY <1>2 DEF TailInv
  <1> DEFINE ch == asked.channels
             k == kernel'
  <1>4. /\ kind \in KernelKinds /\ Formed(kind, kernel) /\ Whole
        /\ Runnable(kind, kernel) /\ ch \in Nat
        /\ Shaped(kind, kernel, ch)
        /\ prepared.channels = ch /\ prepared.io_mode = IoMode
        /\ prepared.sidechain_inputs = SidechainInputs
    BY <1>3, PreparedIs
  <1> HIDE DEF ch, k
  <1>5. Hears(kernel, ctx, ch, n, 1) /\ ctx.frames \in 0..n
    <2>1. Samples[kind] \subseteq Int \cup {NotFinite}
      BY SteadyFormed DEF KernelInv
    <2>. QED
      BY <1>2, <1>4, <2>1, ContextHears
  <1>6. slip \in Int /\ kind # "oscillator"
    BY SlipsTyped
  <1>7. Holds(kernel, k)
    <2> DEFINE j == RenderBlock(ctx, cut, p, q, slip).kernel
    <2>1. Holds(kernel, j)
      BY <1>4, <1>5, <1>6, BlockShaped
    <2>. QED
      BY <1>2, <2>1 DEF k
  <1>8. DOMAIN kernel = {"params", "fs", "state", "flush_r", "tail_bound", "flushed"}
    BY <1>4 DEF Formed
  <1>9. k.fs = kernel.fs /\ k.tail_bound = kernel.tail_bound
    BY <1>7, <1>8 DEF Holds, Fixed
  <1>10. k.flushed = 0
    <2>1. "flushed" \in DOMAIN kernel
      BY <1>8
    <2>. QED
      BY <1>2, <2>1, BlockBegins DEF k
  <1>11. PICK c \in Nat, m \in Nat : TrueTo(c, m)'
    BY DEF HistoryInv
  <1>12. kind' = kind /\ prepared' # NotPrepared'
    BY <1>2, <1>3 DEF NotPrepared
  <1>13. Reflects(kind, k, fed', c, m) /\ Ready(kind, k)
    BY <1>11, <1>12, Zenon DEF TrueTo, k
  <1>14. DcStates(k.state, c)
    <2> DEFINE h == fed'
               knd == kind
    <2>1. Reflects(knd, k, h, c, m) /\ Ready(knd, k) /\ knd = "dc_blocker"
      BY <1>13
    <2> HIDE DEF h, knd
    <2>. QED
      BY <2>1, StatesTyped
  <1>15. ~ hot' => DcCalm(k)
    <2> SUFFICES ASSUME ~ hot'
                 PROVE  DcCalm(k)
      OBVIOUS
    <2>1. ~ StatePeak(k.state) > TailHeadroom
      BY <1>2 DEF k, Filters
    <2>. QED
      BY <1>10, <1>14, <2>1, CoolCalm
  <1>16. kernel.fs # 0 => kernel.tail_bound = DcTailBound(kernel.fs)
    BY DEF TailInv
  <1>17. k.fs # 0 => k.tail_bound = DcTailBound(k.fs)
    BY <1>9, <1>16
  <1>18. (kernel.fs # 0 => kernel.tail_bound = DcTailBound(kernel.fs))'
    BY <1>17 DEF k, DcTailBound, DecayFrames, Pole, DcClampCutoff
  <1>19. (DcCalm(kernel))' = DcCalm(k)
    BY DEF k, DcCalm
  <1>. QED
    BY <1>2, <1>12, <1>15, <1>18, <1>19 DEF TailInv

\* A drain goes on with a pole of a cutoff that the DC blocker may have.
LEMMA PoleLast ==
  ASSUME KernelInv, kind = "dc_blocker", NEW ch \in Nat, NEW m \in Nat, TrueTo(ch, m),
         Ready(kind, kernel)
  PROVE  DrainPole(kernel.flush_r, kernel.fs)
  <1>1. Formed(kind, kernel) /\ Made(kind, kernel)
    BY SteadyFormed, SteadyMade DEF KernelInv
  <1>2. StatesRight(kind, kernel, fed, ch, m) /\ kernel.fs \in Nat \ {0}
    <2> DEFINE k == kernel
               h == fed
               knd == kind
    <2>1. Reflects(knd, k, h, ch, m) /\ Ready(knd, k) /\ knd = "dc_blocker"
      BY Zenon DEF TrueTo
    <2> HIDE DEF k, h, knd
    <2>2. StatesRight(knd, k, h, ch, m) /\ k.fs \in Nat \ {0}
      BY <2>1, StatesTyped
    <2>. QED
      BY <2>2 DEF k, h, knd
  <1>3. /\ DOMAIN fed = {"x", "sidechain", "p"} /\ Chronicle(kind, kernel, fed, ch, m)
        /\ (m = 0 => fed.p = <<>>) /\ \A i \in 1..m : Vetted(InfoOf(kernel), fed.p[i])
    BY Zenon DEF TrueTo, Historic
  <1>4. "params" \in DOMAIN kernel
    BY <1>1 DEF Formed
  <1>5. InfoOf(kernel) = kernel.params /\ ParamInfo = kernel.params
    BY <1>4 DEF InfoOf, ParamInfo
  <1>6. Told(ch, m)
    BY <1>3, <1>5, Zenon DEF Told
  <1> DEFINE p == LastOf(fed.p)
  <1>7. Vetted(kernel.params, p)
    BY <1>5, <1>6, LastVetted
  <1>8. p = LastAt(kernel, fed, m)
    <2>1. DOMAIN fed.p = 1..m
      BY <1>3, Zenon DEF Chronicle
    <2>2. p = IF m = 0 THEN [i \in DOMAIN ParamInfo |-> ParamInfo[i].default] ELSE fed.p[m]
      BY <1>3, <2>1, LastIs
    <2>. QED
      BY <1>5, <2>2, Zenon DEF LastAt
  <1>9. /\ 1 \in DOMAIN kernel.params
        /\ kernel.params[1].lo = DcLowest /\ kernel.params[1].hi = DcHighest
    BY <1>1 DEF Made, Ranged
  <1>10. p[1] \in DcLowest..DcHighest
    BY <1>7, <1>9 DEF Vetted
  <1>11. p[1] \in Int /\ p[1] >= 1
    <2>1. DcLowest = 1 /\ DcHighest \in Int
      BY DEF DcLowest, DcHighest
    <2>. QED
      BY <1>10, <2>1
  <1>12. Finite(kernel.params[1].default)
    <2>1. ValidParams(kernel.params)
      BY <1>4, Zenon DEF Ready
    <2>. QED
      BY <1>9, <2>1 DEF ValidParams, ValidParam
  <1>13. kernel.flush_r = Pole(p[1], kernel.fs)
    <2>1. kind \in Filters /\ kind # "biquad"
      BY DEF Filters
    <2>2. FlushOf(kind, kernel) = FilterOf(kind, kernel, LastAt(kernel, fed, m))
      BY <1>2, <1>9, <1>12, <2>1, FlushIsLast
    <2>. QED
      BY <1>8, <2>2, Zenon DEF FlushOf, FilterOf
  <1> HIDE DEF p
  <1> DEFINE hz == p[1]
             fs == kernel.fs
  <1>14. hz \in Int /\ hz >= 1 /\ fs \in Nat /\ fs >= 1
    BY <1>2, <1>11
  <1> HIDE DEF hz, fs
  <1>15. /\ Pole(hz, fs) \in 1..(Unit - 1) /\ Pole(DcLowest, fs) \in 1..(Unit - 1)
         /\ Pole(hz, fs) <= Pole(DcLowest, fs)
    BY <1>14, SlowestPole
  <1> DEFINE r == Pole(hz, fs)
             slow == Pole(DcLowest, fs)
  <1>16. r \in Nat /\ r < Unit /\ slow \in Nat \ {0} /\ r <= slow
    <2>1. Unit \in Nat
      BY TailAssumption
    <2> HIDE DEF r, slow
    <2>2. r \in 1..(Unit - 1) /\ slow \in 1..(Unit - 1) /\ r <= slow
      BY <1>15 DEF r, slow
    <2>. QED
      BY <2>1, <2>2
  <1>17. fs \in Nat \ {0}
    BY <1>14
  <1>18. DrainPole(r, fs)
    BY <1>16, <1>17, Zenon DEF DrainPole
  <1>. QED
    BY <1>13, <1>18 DEF hz, fs

\* A drain goes on with what is left of the input.
LEMMA TailFlush ==
  ASSUME KernelInv, HistoryInv, TailInv, NEW room \in Rooms, NEW slip \in Slips, Usable,
         Flush(room, slip)
  PROVE  TailInv'
  <1>1. /\ prepared # NotPrepared /\ kernel' = KernelFlush(room, slip).kernel
        /\ ended' = KernelFlush(room, slip).done /\ hot' = hot /\ kind' = kind
    BY Zenon DEF Flush
  <1> SUFFICES ASSUME kind = "dc_blocker"
               PROVE  TailInv'
    BY <1>1 DEF TailInv
  <1>2. PICK ch \in Nat, m \in Nat : TrueTo(ch, m)
    BY DEF HistoryInv
  <1>3. Ready(kind, kernel) /\ Reflects(kind, kernel, fed, ch, m)
    BY <1>1, <1>2, Zenon DEF TrueTo
  <1>4. DrainPole(kernel.flush_r, kernel.fs)
    BY <1>2, <1>3, PoleLast
  <1> DEFINE k == kernel
             h == fed
             f == DcFlush(k, room)
             knd == kind
  <1>5. DOMAIN k = {"params", "fs", "state", "flush_r", "tail_bound", "flushed"}
    <2>1. Formed(kind, kernel)
      BY SteadyFormed DEF KernelInv
    <2>. QED
      BY <2>1 DEF Formed
  <1>6. DcStates(k.state, ch) /\ k.fs \in Nat \ {0} /\ k.flushed \in 0..(k.tail_bound)
    <2>1. Reflects(knd, k, h, ch, m) /\ Ready(knd, k) /\ knd = "dc_blocker"
      BY <1>3
    <2> HIDE DEF k, h, knd
    <2>. QED
      BY <2>1, StatesTyped
  <1>7. k.tail_bound = DcTailBound(k.fs)
    BY <1>6 DEF TailInv
  <1>8. DcDrainable(k, ch)
    <2>1. {"state", "flushed", "tail_bound", "fs", "flush_r"} \subseteq DOMAIN k
      BY <1>5
    <2>2. DrainPole(k.flush_r, k.fs)
      BY <1>4
    <2> HIDE DEF k
    <2>. QED
      BY <1>6, <1>7, <2>1, <2>2, Zenon DEF DcDrainable
  <1>9. DcCalm(k) \/ hot
    BY DEF TailInv
  <1>10. kernel' = f.kernel /\ ended' = f.done
    BY <1>1, Zenon DEF KernelFlush
  <1>11. DcDrains(k, room, f)
    BY DcFlushDrains
  <1>12. room \in Nat
    BY SlipsTyped
  <1> HIDE DEF k, f
  <1>13. /\ f.kernel.fs = k.fs /\ f.kernel.tail_bound = k.tail_bound
         /\ DcCalm(k) => DcCalm(f.kernel) /\ (f.done => StatePeak(f.kernel.state) < TailFloor)
    BY <1>8, <1>11, <1>12, DrainStaysCalm
  <1> DEFINE j == f.kernel
  <1>14. j.tail_bound = DcTailBound(j.fs)
    BY <1>7, <1>13
  <1>15. (kernel.fs # 0 => kernel.tail_bound = DcTailBound(kernel.fs))'
    BY <1>10, <1>14 DEF DcTailBound, DecayFrames, Pole, DcClampCutoff
  <1>16. (DcCalm(kernel))' = DcCalm(j)
    BY <1>10 DEF DcCalm
  <1>17. ~ hot' => DcCalm(kernel)'
    BY <1>1, <1>9, <1>13, <1>16
  <1>18. (ended /\ ~ hot => StatePeak(kernel.state) < TailFloor)'
    <2> SUFFICES ASSUME ended', ~ hot'
                 PROVE  StatePeak(kernel'.state) < TailFloor
      OBVIOUS
    <2>1. StatePeak(j.state) < TailFloor
      BY <1>1, <1>9, <1>10, <1>13
    <2>. QED
      BY <1>10, <2>1
  <1>. QED
    BY <1>1, <1>15, <1>17, <1>18 DEF TailInv

\* So the tail is as the drain goes on, in every state.
LEMMA TailHolds == Spec => [](KernelInv /\ HistoryInv /\ TailInv)
  <1>1. KernelInv /\ HistoryInv /\ HistoryInv' /\ TailInv /\ [Next]_vars => TailInv'
    <2> SUFFICES ASSUME KernelInv, HistoryInv, HistoryInv', TailInv, [Next]_vars
                 PROVE  TailInv'
      OBVIOUS
    <2>1. ASSUME NEW spec \in Specs[kind], Prepare(spec)
          PROVE  TailInv'
      BY <2>1, TailPrepare
    <2>2. CASE Reset
      BY <2>2, TailReset
    <2>3. ASSUME Usable, NEW p \in RunValues, NEW q \in RunValues,
                 NEW n \in 1..prepared.max_block, NEW ctx \in Contexts(n), Process(ctx, p, q)
          PROVE  TailInv'
      <3>1. prepared # NotPrepared
        BY <2>3, Zenon DEF Process, ProcessBlock, HonorsContract
      <3>2. prepared.max_block \in Nat
        BY <3>1, PreparedIs
      <3>3. n \in Nat
        BY <3>2
      <3>. QED
        BY <2>3, <3>3, TailProcess
    <2>4. ASSUME Usable, NEW room \in Rooms, NEW slip \in Slips, Flush(room, slip)
          PROVE  TailInv'
      BY <2>4, TailFlush
    <2>5. CASE UNCHANGED vars
      <3>1. UNCHANGED <<kind, kernel, hot, ended>>
        BY <2>5 DEF vars, history
      <3>. QED
        BY <3>1 DEF TailInv, DcCalm
    <2>. QED
      BY <2>1, <2>2, <2>3, <2>4, <2>5, Zenon DEF Next, Drain
  <1>. QED
    BY <1>1, TailInit, HistoryHolds, PTL DEF Spec

\* A drain that is over leaves nothing: of an average all but what it last wrote over is silence,
\* and of a DC blocker whose input was within the headroom a state below the floor, by the
\* declared bound if not before (repair/dc_blocker.rs, prepare and flush;
\* filters/moving_average.rs, tail).
THEOREM DrainsDry == Spec => []TailCovers
  <1>1. KernelInv /\ HistoryInv /\ TailInv => TailCovers
    <2> SUFFICES ASSUME KernelInv, HistoryInv, TailInv, ended, ~ hot
                 PROVE  /\ kind = "average" =>
                             \A c \in DOMAIN kernel.rings :
                               \A i \in DOMAIN kernel.rings[c] \ {kernel.ring_pos} :
                                 kernel.rings[c][i] = 0
                        /\ kind = "dc_blocker" => StatePeak(kernel.state) < TailFloor
      BY Zenon DEF TailCovers
    <2>1. ASSUME kind = "average", NEW c \in DOMAIN kernel.rings,
                 NEW i \in DOMAIN kernel.rings[c] \ {kernel.ring_pos}
          PROVE  kernel.rings[c][i] = 0
      BY <2>1, AverageDrained
    <2>2. kind = "dc_blocker" => StatePeak(kernel.state) < TailFloor
      BY DEF TailInv
    <2>. QED
      BY <2>1, <2>2
  <1>. QED
    BY <1>1, TailHolds, PTL
=============================================================================
