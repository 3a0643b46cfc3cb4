--------------------------- MODULE LogStackProofs ---------------------------
(***************************************************************************)
(* For any number of entries and any environment: no kind of logger is     *)
(* twice in the stack and the memory log stays below all others.  The      *)
(* argument looks only at the shape of the stack: a step leaves it alone,  *)
(* puts a new kind of logger on top, cuts it short or starts a new one.    *)
(*                                                                         *)
(* No logger misses an entry, and the file has each once, in order.  The   *)
(* invariant LogInv says of each logger in the stack what it has, and of   *)
(* each phase which loggers there are to replay from.                      *)
(***************************************************************************)
EXTENDS LogStack, WellFoundedInduction, SequenceTheorems, TLAPS

ChainOK == chain \in Seq(Idents) /\ chain # <<>> /\ DistinctLoggers

(* What a step may do to logStack and the loggers it forwards to            *)
(* (stackable.go).                                                          *)
Reshaped ==
  \/ chain' = chain
  \/ \E s \in Idents \ {"memLog"} : ~InStack(s) /\ chain' = <<s>> \o chain
  \/ \E n \in 1 .. Len(chain) : chain' = SubSeq(chain, 1, n)
  \/ \E s \in Idents : chain' = <<s>>

(* AddLogger (stackable.go:100) refuses a kind that is there.               *)
LEMMA AddLoggerShape ==
  ASSUME NEW s \in Idents \ {"memLog"}, NEW previous, AddLogger(s, previous)
  PROVE  Reshaped
BY DEF AddLogger, Reshaped

(* AddPBLog (pblog.go:48) adds its logger, or none.                         *)
LEMMA AddPBLogShape ==
  ASSUME NEW next, AddPBLog(next)
  PROVE  Reshaped
<1>1. "PBLog" \in Idents \ {"memLog"}
  BY DEF Idents
<1>2. CASE AddLogger("PBLog", TRUE)
  BY <1>1, <1>2, AddLoggerShape
<1>3. CASE NotAdded
  BY <1>3 DEF NotAdded, Reshaped
<1>4. CASE UNCHANGED <<chain, entries, closed, base>>
  BY <1>4 DEF Reshaped
<1> QED BY <1>2, <1>3, <1>4 DEF AddPBLog

(* RemoveLogger (stackable.go:128) cuts the stack above, below or at the    *)
(* logger it finds.                                                         *)
LEMMA RemoveLoggerShape ==
  ASSUME chain \in Seq(Idents), NEW s \in Idents, NEW next, RemoveLogger(s, next)
  PROVE  Reshaped
<1>1. CASE ~InStack(s)
  BY <1>1 DEF RemoveLogger, Reshaped
<1>2. CASE InStack(s)
  <2> DEFINE i == CHOOSE j \in DOMAIN chain : chain[j] = s
  <2>1. i \in 1 .. Len(chain)
    BY <1>2 DEF InStack
  <2>2. \/ chain' = <<s>>
        \/ i > 1 /\ chain' = SubSeq(chain, 1, i - 1)
        \/ chain' = SubSeq(chain, 1, i)
    BY <1>2 DEF RemoveLogger
  <2> HIDE DEF i
  <2>3. i - 1 \in 1 .. Len(chain) \/ ~(i > 1)
    BY <2>1
  <2> QED BY <2>1, <2>2, <2>3 DEF Reshaped
<1> QED BY <1>1, <1>2

(* Every action of the init process is one of these.                        *)
LEMMA NextShape ==
  ASSUME ChainOK, [Next]_vars
  PROVE  Reshaped
<1> USE DEF Idents
<1>0. chain \in Seq(Idents)
  BY DEF ChainOK
<1>1. CASE CommonEnvVars
  BY <1>1, AddLoggerShape DEF CommonEnvVars, NotAdded, Reshaped
<1>2. CASE OutputTo9p
  BY <1>2, AddLoggerShape DEF OutputTo9p, NotAdded, Reshaped
<1>3. CASE HandleEnvVars
  BY <1>3, AddPBLogShape DEF HandleEnvVars
<1>4. CASE Boot
  BY <1>4 DEF Boot, Go, NotAdded, Reshaped
<1>5. CASE BootMenu
  BY <1>5 DEF BootMenu, Go, NotAdded, Reshaped
<1>6. CASE AddConsoleLog
  BY <1>6, AddLoggerShape DEF AddConsoleLog
<1>7. CASE AddLcdLog
  BY <1>7, AddLoggerShape DEF AddLcdLog, NotAdded, Reshaped
<1>8. CASE AddFileLog
  BY <1>8, AddLoggerShape DEF AddFileLog, NotAdded, Reshaped
<1>9. CASE HandleFrData
  BY <1>9, AddPBLogShape DEF HandleFrData
<1>10. CASE FlushMemLog
  BY <1>0, <1>10, RemoveLoggerShape DEF FlushMemLog
<1>11. CASE Leave
  BY <1>11 DEF Leave, Go, NotAdded, Reshaped
<1>12. CASE Log
  BY <1>12 DEF Log, FlaggedLogf, Reshaped
<1>13. CASE RecordKeeper
  BY <1>13 DEF RecordKeeper, FlaggedLogf, Reshaped
<1>14. CASE Fatalf
  BY <1>14 DEF Fatalf, FlaggedLogf, Reshaped
<1>15. CASE FatalFinalize
  BY <1>15 DEF FatalFinalize, Reshaped
<1>16. CASE Reboot
  BY <1>16 DEF Reboot, Go, NotAdded, Reshaped
<1>17. CASE Fork
  BY <1>0, <1>17, RemoveLoggerShape DEF Fork, NotAdded, Reshaped
<1>18. CASE NextBoot
  BY <1>18 DEF NextBoot, Reshaped
<1>19. CASE UNCHANGED vars
  BY <1>19 DEF vars, Reshaped
<1> QED
  BY <1>1, <1>2, <1>3, <1>4, <1>5, <1>6, <1>7, <1>8, <1>9, <1>10, <1>11, <1>12,
     <1>13, <1>14, <1>15, <1>16, <1>17, <1>18, <1>19 DEF Next

(* No such change makes two of a kind, or puts anything below the memory    *)
(* log (stackable.go:116, ForwardFrom).                                     *)
LEMMA ShapeKeeps ==
  ASSUME ChainOK, Reshaped
  PROVE  ChainOK'
<1>0. /\ chain \in Seq(Idents) /\ chain # <<>>
      /\ \A i, j \in DOMAIN chain :
           /\ chain[i] = chain[j] => i = j
           /\ chain[i] = "memLog" => i = Len(chain)
  BY DEF ChainOK, DistinctLoggers
<1>1. CASE chain' = chain
  BY <1>0, <1>1 DEF ChainOK, DistinctLoggers
<1>2. CASE \E s \in Idents \ {"memLog"} : ~InStack(s) /\ chain' = <<s>> \o chain
  <2>1. PICK s \in Idents \ {"memLog"} : ~InStack(s) /\ chain' = <<s>> \o chain
    BY <1>2
  <2>2. /\ chain' \in Seq(Idents) /\ chain' # <<>> /\ Len(chain') = Len(chain) + 1
        /\ chain'[1] = s
        /\ \A i \in DOMAIN chain' : i # 1 => i - 1 \in DOMAIN chain /\ chain'[i] = chain[i - 1]
    BY <1>0, <2>1
  <2>3. \A i \in DOMAIN chain : chain[i] # s
    BY <2>1 DEF InStack
  <2>4. \A i, j \in DOMAIN chain' :
          /\ chain'[i] = chain'[j] => i = j
          /\ chain'[i] = "memLog" => i = Len(chain')
    <3> SUFFICES ASSUME NEW i \in DOMAIN chain', NEW j \in DOMAIN chain'
                 PROVE  /\ chain'[i] = chain'[j] => i = j
                        /\ chain'[i] = "memLog" => i = Len(chain')
      OBVIOUS
    <3>1. i \in Int /\ j \in Int /\ Len(chain) \in Nat
      BY <1>0, <2>2
    <3>2. CASE i = 1
      BY <2>2, <2>3, <3>2
    <3>3. CASE i # 1 /\ j = 1
      BY <1>0, <2>2, <2>3, <3>1, <3>3
    <3>4. CASE i # 1 /\ j # 1
      <4>1. /\ i - 1 \in DOMAIN chain /\ chain'[i] = chain[i - 1]
            /\ j - 1 \in DOMAIN chain /\ chain'[j] = chain[j - 1]
        BY <2>2, <3>4
      <4>2. chain'[i] = chain'[j] => i - 1 = j - 1
        BY <1>0, <4>1
      <4>3. chain'[i] = "memLog" => i - 1 = Len(chain)
        BY <1>0, <4>1
      <4> QED BY <2>2, <3>1, <4>2, <4>3
    <3> QED BY <3>2, <3>3, <3>4
  <2> QED BY <2>2, <2>4 DEF ChainOK, DistinctLoggers
<1>3. CASE \E n \in 1 .. Len(chain) : chain' = SubSeq(chain, 1, n)
  <2>1. PICK n \in 1 .. Len(chain) : chain' = SubSeq(chain, 1, n)
    BY <1>3
  <2>2. /\ chain' \in Seq(Idents) /\ Len(chain') = n /\ chain' # <<>>
        /\ \A i \in DOMAIN chain' : i \in DOMAIN chain /\ chain'[i] = chain[i] /\ i <= n
    BY <1>0, <2>1
  <2>3. \A i, j \in DOMAIN chain' :
          /\ chain'[i] = chain'[j] => i = j
          /\ chain'[i] = "memLog" => i = Len(chain')
    BY <1>0, <2>1, <2>2
  <2> QED BY <2>2, <2>3 DEF ChainOK, DistinctLoggers
<1>4. CASE \E s \in Idents : chain' = <<s>>
  BY <1>4 DEF ChainOK, DistinctLoggers
<1> QED BY <1>1, <1>2, <1>3, <1>4 DEF Reshaped

(* For every bound on the entries, every environment and any behaviour of   *)
(* the log server: no kind of logger is twice in the stack, and the memory  *)
(* log is nowhere but at its bottom (AddLogger, RemoveLogger of             *)
(* stackable.go).                                                           *)
THEOREM LoggersDistinct == Spec => []DistinctLoggers
<1>1. Init => ChainOK
  BY DEF Init, ChainOK, DistinctLoggers, Idents
<1>2. ChainOK /\ [Next]_vars => ChainOK'
  BY NextShape, ShapeKeeps
<1>3. ChainOK => DistinctLoggers
  BY DEF ChainOK
<1> QED BY <1>1, <1>2, <1>3, PTL DEF Spec

-----------------------------------------------------------------------------
(* Entries given to a logger that is added. *)

(* Any set of numbers has a least one; so induction on sets of numbers.      *)
LEMMA Least ==
  ASSUME NEW S \in SUBSET Nat, S # {}
  PROVE  \E m \in S : \A k \in S : m <= k
<1> DEFINE R == OpToRel(<, Nat)
<1>1. IsWellFoundedOn(R, Nat)
  BY NatLessThanWellFounded, Zenon
<1>2. \E x \in S : \A y \in S : ~(<<y, x>> \in R)
  <2> HIDE DEF R
  <2> QED BY <1>1, WFMin
<1>3. \A x, y \in S : <<y, x>> \in R <=> y < x
  BY DEF OpToRel
<1> HIDE DEF R
<1>4. PICK x \in S : \A y \in S : ~(<<y, x>> \in R)
  BY <1>2
<1>5. \A y \in S : ~(y < x)
  BY <1>3, <1>4, Zenon
<1> QED BY <1>5

LEMMA Induct ==
  ASSUME NEW S \in SUBSET Nat, 0 \in S, \A n \in S : n + 1 \in S
  PROVE  S = Nat
<1> DEFINE T == Nat \ S
<1>1. CASE T # {}
  <2> HIDE DEF T
  <2>1. T \in SUBSET Nat
    BY DEF T
  <2>2. PICK m \in T : \A k \in T : m <= k
    BY <1>1, <2>1, Least
  <2>3. m \in Nat /\ m # 0 /\ m - 1 \in Nat /\ ~(m <= m - 1)
    BY <2>1, <2>2 DEF T
  <2>4. m - 1 \in S /\ (m - 1) + 1 = m
    BY <2>2, <2>3 DEF T
  <2> QED BY <2>2, <2>4 DEF T
<1> QED BY <1>1

(* The function that Only stands for exists: it does for every length.      *)
LEMMA OnlyStep ==
  ASSUME NEW S, NEW seq \in Seq(S), NEW keep
  PROVE \E f : /\ DOMAIN f = 0 .. Len(seq) /\ f[0] = <<>> /\ Only(seq, keep) = f[Len(seq)]
               /\ \A n \in 1 .. Len(seq) :
                    f[n] = IF seq[n] \in keep THEN Append(f[n - 1], seq[n]) ELSE f[n - 1]
<1> DEFINE Body(f, n) == IF n = 0 THEN <<>>
                         ELSE IF seq[n] \in keep THEN Append(f[n - 1], seq[n]) ELSE f[n - 1]
           Good(f, k) == f = [n \in 0 .. k |-> Body(f, n)]
           F == CHOOSE f : Good(f, Len(seq))
           K == {k \in Nat : \E f : Good(f, k)}
<1>1. Only(seq, keep) = F[Len(seq)]
  BY DEF Only
<1>2. 0 \in K
  <2> DEFINE f == [n \in 0 .. 0 |-> <<>>]
  <2>1. Good(f, 0)
    OBVIOUS
  <2> QED BY <2>1
<1>3. ASSUME NEW k \in K PROVE k + 1 \in K
  <2>1. PICK f : Good(f, k)
    OBVIOUS
  <2> DEFINE g == [n \in 0 .. k + 1 |-> Body(f, n)]
  <2>2. \A n \in 0 .. k : f[n] = Body(f, n) /\ g[n] = f[n]
    <3> TAKE n \in 0 .. k
    <3> HIDE DEF Body
    <3>1. f[n] = Body(f, n)
      BY <2>1
    <3>2. n \in 0 .. k + 1
      OBVIOUS
    <3> QED BY <3>1, <3>2
  <2>3. \A n \in 0 .. k + 1 : Body(g, n) = Body(f, n)
    <3> TAKE n \in 0 .. k + 1
    <3>1. CASE n = 0
      BY <3>1
    <3>2. CASE n # 0
      <4>1. n - 1 \in 0 .. k
        BY <3>2
      <4>2. g[n - 1] = f[n - 1]
        BY <2>2, <4>1
      <4> QED BY <3>2, <4>2
    <3> QED BY <3>1, <3>2
  <2>4. Good(g, k + 1)
    <3> HIDE DEF Body
    <3> QED BY <2>3
  <2> HIDE DEF Good, g
  <2> QED BY <2>4
<1>4. \E f : Good(f, Len(seq))
  <2> HIDE DEF Good
  <2>1. K \in SUBSET Nat /\ Len(seq) \in Nat
    OBVIOUS
  <2> HIDE DEF K
  <2>2. K = Nat
    BY <1>2, <1>3, <2>1, Induct
  <2> QED BY <2>1, <2>2 DEF K
<1>5. Good(F, Len(seq))
  <2> HIDE DEF Good
  <2> QED BY <1>4
<1> HIDE DEF F
<1>6. DOMAIN F = 0 .. Len(seq) /\ \A n \in 0 .. Len(seq) : F[n] = Body(F, n)
  <2> HIDE DEF Body
  <2> QED BY <1>5
<1>7. Len(seq) \in Nat
  OBVIOUS
<1>8. F[0] = <<>>
  BY <1>6, <1>7
<1>9. \A n \in 1 .. Len(seq) :
        F[n] = IF seq[n] \in keep THEN Append(F[n - 1], seq[n]) ELSE F[n - 1]
  <2> TAKE n \in 1 .. Len(seq)
  <2>1. n \in 0 .. Len(seq) /\ n # 0
    BY <1>7
  <2> QED BY <1>6, <2>1
<1> QED BY <1>1, <1>6, <1>8, <1>9

LEMMA ToSetPlus ==
  ASSUME NEW s, NEW t, NEW x, NEW k \in Nat, DOMAIN s = 1 .. k, DOMAIN t = 1 .. k + 1,
         t[k + 1] = x, \A i \in 1 .. k : t[i] = s[i]
  PROVE  ToSet(t) = ToSet(s) \cup {x}
<1>1. \A i \in 1 .. k + 1 : i \in 1 .. k \/ i = k + 1
  OBVIOUS
<1>2. k + 1 \in 1 .. k + 1 /\ \A i \in 1 .. k : i \in 1 .. k + 1
  OBVIOUS
<1> QED BY <1>1, <1>2 DEF ToSet

(* What the loop over earlier entries gives (stackable.go addPreviousEvents).*)
LEMMA OnlyKeeps ==
  ASSUME NEW S, NEW seq \in Seq(S), NEW keep
  PROVE  /\ Only(seq, keep) \in Seq(S)
         /\ ToSet(Only(seq, keep)) = ToSet(seq) \cap keep
         /\ ToSet(seq) \subseteq keep => Only(seq, keep) = seq
<1>0. Len(seq) \in Nat /\ DOMAIN seq = 1 .. Len(seq)
  OBVIOUS
<1>1. PICK f : /\ DOMAIN f = 0 .. Len(seq) /\ f[0] = <<>> /\ Only(seq, keep) = f[Len(seq)]
               /\ \A n \in 1 .. Len(seq) :
                    f[n] = IF seq[n] \in keep THEN Append(f[n - 1], seq[n]) ELSE f[n - 1]
  BY OnlyStep
<1> DEFINE Right(n) == /\ f[n] \in Seq(S)
                       /\ ToSet(f[n]) = {seq[i] : i \in 1 .. n} \cap keep
                       /\ ToSet(seq) \subseteq keep =>
                            Len(f[n]) = n /\ \A i \in 1 .. n : f[n][i] = seq[i]
           K == {n \in Nat : n <= Len(seq) => Right(n)}
<1>2. 0 \in K
  <2>1. {seq[i] : i \in 1 .. 0} = {} /\ ToSet(f[0]) = {}
    BY <1>1 DEF ToSet
  <2>2. f[0] \in Seq(S) /\ Len(f[0]) = 0
    BY <1>1, EmptySeq
  <2> QED BY <2>1, <2>2
<1>3. ASSUME NEW n \in K PROVE n + 1 \in K
  <2> SUFFICES ASSUME n + 1 <= Len(seq) PROVE Right(n + 1)
    OBVIOUS
  <2>1. n \in Nat /\ n + 1 \in 1 .. Len(seq) /\ Right(n) /\ (n + 1) - 1 = n
    BY <1>0
  <2>2. seq[n + 1] \in S /\ seq[n + 1] \in ToSet(seq)
    BY <1>0, <2>1 DEF ToSet
  <2>3. {seq[i] : i \in 1 .. n + 1} = {seq[i] : i \in 1 .. n} \cup {seq[n + 1]}
    BY <2>1
  <2>4. f[n + 1] = IF seq[n + 1] \in keep THEN Append(f[n], seq[n + 1]) ELSE f[n]
    BY <1>1, <2>1
  <2>5. CASE seq[n + 1] \in keep
    <3>1. /\ f[n + 1] \in Seq(S) /\ Len(f[n + 1]) = Len(f[n]) + 1
          /\ f[n + 1][Len(f[n]) + 1] = seq[n + 1]
          /\ \A i \in 1 .. Len(f[n]) : f[n + 1][i] = f[n][i]
      BY <2>1, <2>2, <2>4, <2>5, AppendProperties
    <3>2. ToSet(f[n + 1]) = ToSet(f[n]) \cup {seq[n + 1]}
      <4> DEFINE a == f[n]
                 b == f[n + 1]
                 x == seq[n + 1]
      <4> HIDE DEF Right
      <4>1. /\ Len(a) \in Nat /\ DOMAIN a = 1 .. Len(a) /\ DOMAIN b = 1 .. Len(a) + 1
            /\ b[Len(a) + 1] = x /\ \A i \in 1 .. Len(a) : b[i] = a[i]
        BY <2>1, <3>1 DEF Right
      <4> HIDE DEF a, b, x
      <4>2. ToSet(b) = ToSet(a) \cup {x}
        BY <4>1, ToSetPlus
      <4> QED BY <4>2 DEF a, b, x
    <3>3. ToSet(f[n + 1]) = {seq[i] : i \in 1 .. n + 1} \cap keep
      BY <2>1, <2>3, <2>5, <3>2
    <3>4. ASSUME ToSet(seq) \subseteq keep
          PROVE  Len(f[n + 1]) = n + 1 /\ \A i \in 1 .. n + 1 : f[n + 1][i] = seq[i]
      <4>1. Len(f[n]) = n /\ \A i \in 1 .. n : f[n][i] = seq[i]
        BY <2>1, <3>4
      <4> HIDE DEF Right
      <4>2. Len(f[n + 1]) = n + 1
        BY <3>1, <4>1
      <4>3. \A i \in 1 .. n + 1 : i \in 1 .. n \/ i = n + 1
        BY <2>1
      <4> QED BY <3>1, <4>1, <4>2, <4>3
    <3> QED BY <3>1, <3>3, <3>4
  <2>6. CASE seq[n + 1] \notin keep
    BY <2>1, <2>2, <2>3, <2>4, <2>6
  <2> QED BY <2>5, <2>6
<1>4. Right(Len(seq))
  <2> HIDE DEF Right
  <2>1. K \in SUBSET Nat
    OBVIOUS
  <2> HIDE DEF K
  <2>2. K = Nat
    BY <1>2, <1>3, <2>1, Induct
  <2> QED BY <1>0, <2>2 DEF K
<1>5. ToSet(seq) = {seq[i] : i \in 1 .. Len(seq)}
  BY <1>0 DEF ToSet
<1>6. ToSet(seq) \subseteq keep => f[Len(seq)] = seq
  <2> HAVE ToSet(seq) \subseteq keep
  <2> QED BY <1>4, SeqEqual
<1> QED BY <1>1, <1>4, <1>5, <1>6
-----------------------------------------------------------------------------
(* The invariant: what each logger has. *)

(* While loggers may still be added, the memory log has all there is.       *)
Adding == {"early", "testlog", "xlog", "boot", "menu", "console", "lcd", "file", "handle",
           "flush"}

LogTypes ==
  /\ entries \in Seq(Flags) /\ taken \in [Idents -> Seq(Nat)] /\ base \in [Idents -> Nat]
  /\ \A s \in Idents : base[s] <= Len(entries)

MemoryAll ==
  InStack("memLog") =>
    /\ Len(taken["memLog"]) = Len(entries)
    /\ \A i \in 1 .. Len(entries) : taken["memLog"][i] = i

Complete(s) ==
  InStack(s) /\ s \notin closed /\ s # "memLog" => Due(s) \subseteq ToSet(taken[s])

FileEmpty == ~InStack("fileLog") => taken["fileLog"] = <<>>
FileNumbered ==
  InStack("fileLog") /\ "fileLog" \notin closed =>
    /\ Len(taken["fileLog"]) = Len(entries) - base["fileLog"]
    /\ \A i \in 1 .. Len(taken["fileLog"]) : taken["fileLog"][i] = base["fileLog"] + i

(* The parts of it that say what the loggers have, and those that say which *)
(* loggers there are by then.                                               *)
Stocked == LogTypes /\ FileNumbered /\ \A s \in Idents : Complete(s)
ByPhase ==
  /\ phase \in Adding => MemoryAll
  /\ phase = "work" => ~InStack("memLog")
  /\ phase \in {"lcd", "file", "handle", "flush"} => InStack("consoleLog")
  /\ phase \in {"early", "testlog"} => ~InStack("fileLog")
  /\ phase # "os" => FileEmpty

LogInv == ChainOK /\ LogTypes /\ (Working => Stocked /\ ByPhase)

LEMMA TakesSame ==
  ASSUME NEW s, NEW f, env' = env, s \in closed' <=> s \in closed
  PROVE  Takes(s, f)' = Takes(s, f)
BY DEF Takes

(* A step that leaves the loggers and their entries alone.                  *)
LEMMA NotAddedKeeps ==
  ASSUME env' = env, NotAdded
  PROVE  /\ Stocked' = Stocked /\ MemoryAll' = MemoryAll /\ FileEmpty' = FileEmpty
         /\ LogTypes' = LogTypes /\ \A s : InStack(s)' = InStack(s)
<1>1. UNCHANGED <<chain, entries, taken, closed, base, env>>
  BY DEF NotAdded
<1>2. \A s : InStack(s)' = InStack(s)
  BY <1>1 DEF InStack
<1>3. MemoryAll' = MemoryAll /\ FileEmpty' = FileEmpty /\ FileNumbered' = FileNumbered
  BY <1>1, <1>2 DEF MemoryAll, FileEmpty, FileNumbered
<1>4. LogTypes' = LogTypes
  BY <1>1 DEF LogTypes
<1>5. \A s : Complete(s)' = Complete(s)
  <2> TAKE s
  <2>1. Due(s)' = Due(s)
    BY <1>1, TakesSame DEF Due
  <2> QED BY <1>1, <1>2, <2>1 DEF Complete
<1> QED BY <1>2, <1>3, <1>4, <1>5 DEF Stocked

(* What a new logger is given is what it takes of all entries so far.       *)
LEMMA PreviousAll ==
  ASSUME LogTypes, NEW s
  PROVE  /\ Previous(s) \in Seq(Nat)
         /\ MemoryAll /\ InStack("memLog") => Meant(s) \subseteq ToSet(Previous(s))
         /\ MemoryAll /\ InStack("memLog") /\ (\A f : Takes(s, f)) =>
              /\ Len(Previous(s)) = Len(entries)
              /\ \A i \in 1 .. Len(entries) : Previous(s)[i] = i
         /\ ~InStack("memLog") => Previous(s) = <<>>
<1> DEFINE mem == taken["memLog"]
<1>1. mem \in Seq(Nat) /\ Len(entries) \in Nat /\ DOMAIN entries = 1 .. Len(entries)
  BY DEF LogTypes, Idents
<1>2. CASE ~InStack("memLog")
  BY <1>2, EmptySeq DEF Previous
<1>3. CASE InStack("memLog")
  <2> HIDE DEF mem
  <2>1. Previous(s) = Only(mem, Meant(s))
    BY <1>3 DEF Previous, mem
  <2>2. /\ Only(mem, Meant(s)) \in Seq(Nat)
        /\ ToSet(Only(mem, Meant(s))) = ToSet(mem) \cap Meant(s)
        /\ ToSet(mem) \subseteq Meant(s) => Only(mem, Meant(s)) = mem
    BY <1>1, OnlyKeeps
  <2>3. ASSUME MemoryAll
        PROVE  /\ Len(mem) = Len(entries) /\ \A i \in 1 .. Len(entries) : mem[i] = i
               /\ ToSet(mem) = 1 .. Len(entries)
    <3>1. Len(mem) = Len(entries) /\ \A i \in 1 .. Len(entries) : mem[i] = i
      BY <1>3, <2>3 DEF MemoryAll, mem
    <3>2. DOMAIN mem = 1 .. Len(entries)
      BY <1>1, <3>1
    <3> QED BY <3>1, <3>2 DEF ToSet
  <2>4. Meant(s) \subseteq 1 .. Len(entries)
    BY <1>1 DEF Meant
  <2>5. (\A f : Takes(s, f)) => Meant(s) = 1 .. Len(entries)
    BY <1>1 DEF Meant
  <2> QED BY <1>3, <2>1, <2>2, <2>3, <2>4, <2>5
<1> QED BY <1>2, <1>3

LEMMA ToSetConcat ==
  ASSUME NEW S, NEW a \in Seq(S), NEW b \in Seq(S)
  PROVE  ToSet(a) \subseteq ToSet(a \o b) /\ ToSet(b) \subseteq ToSet(a \o b)
<1>1. /\ Len(a) \in Nat /\ Len(b) \in Nat /\ DOMAIN a = 1 .. Len(a) /\ DOMAIN b = 1 .. Len(b)
      /\ a \o b \in Seq(S) /\ Len(a \o b) = Len(a) + Len(b)
      /\ \A i \in 1 .. Len(a) + Len(b) : (a \o b)[i] = IF i <= Len(a) THEN a[i] ELSE b[i - Len(a)]
  BY ConcatProperties
<1>2. DOMAIN (a \o b) = 1 .. Len(a) + Len(b)
  BY <1>1
<1>3. \A i \in DOMAIN a : i \in DOMAIN (a \o b) /\ (a \o b)[i] = a[i]
  BY <1>1, <1>2
<1>4. ASSUME NEW i \in DOMAIN b
      PROVE  Len(a) + i \in DOMAIN (a \o b) /\ (a \o b)[Len(a) + i] = b[i]
  <2>1. /\ i \in Nat /\ i >= 1 /\ i <= Len(b) /\ Len(a) + i \in 1 .. Len(a) + Len(b)
        /\ ~(Len(a) + i <= Len(a)) /\ (Len(a) + i) - Len(a) = i
    BY <1>1
  <2> QED BY <1>1, <1>2, <2>1
<1> QED BY <1>3, <1>4 DEF ToSet

(* AddLogger (stackable.go:100): what the new logger has, and what it       *)
(* leaves to the others.                                                    *)
LEMMA AddLoggerKeeps ==
  ASSUME ChainOK, Stocked, MemoryAll, FileEmpty, env' = env,
         NEW s \in Idents \ {"memLog"}, NEW previous \in BOOLEAN, AddLogger(s, previous),
         s = "fileLog" => previous = TRUE /\ ~InStack("fileLog")
  PROVE  /\ Stocked' /\ MemoryAll' /\ FileEmpty'
         /\ \A t : (InStack(t))' <=> InStack(t) \/ t = s
<1> DEFINE more == IF previous THEN Previous(s) ELSE <<>>
<1>1. /\ chain' = IF InStack(s) THEN chain ELSE <<s>> \o chain
      /\ taken' = [taken EXCEPT ![s] = IF previous THEN @ \o Previous(s) ELSE @]
      /\ base' = [base EXCEPT ![s] = IF InStack(s) THEN @
                              ELSE IF previous /\ InStack("memLog") THEN 0 ELSE Len(entries)]
      /\ entries' = entries /\ closed' = closed
  BY DEF AddLogger, Attached
<1>2. LogTypes /\ chain \in Seq(Idents) /\ Len(entries) \in Nat /\ DOMAIN entries = 1 .. Len(entries)
  BY DEF Stocked, LogTypes, ChainOK
<1>3. Previous(s) \in Seq(Nat) /\ more \in Seq(Nat)
  BY <1>2, PreviousAll, EmptySeq
<1> HIDE DEF more
<1>4. \A t : (InStack(t))' <=> InStack(t) \/ t = s
  <2>1. CASE InStack(s)
    BY <1>1, <2>1 DEF InStack
  <2>2. CASE ~InStack(s)
    <3>1. /\ DOMAIN chain' = 1 .. Len(chain) + 1 /\ DOMAIN chain = 1 .. Len(chain)
          /\ Len(chain) \in Nat /\ chain'[1] = s
          /\ \A i \in 2 .. Len(chain) + 1 : chain'[i] = chain[i - 1]
      BY <1>1, <1>2, <2>2
    <3>2. \A i \in DOMAIN chain : i + 1 \in DOMAIN chain' /\ chain'[i + 1] = chain[i]
      <4> TAKE i \in DOMAIN chain
      <4>1. i + 1 \in 2 .. Len(chain) + 1 /\ (i + 1) - 1 = i
        BY <3>1
      <4> QED BY <3>1, <4>1
    <3>3. \A i \in DOMAIN chain' : i = 1 \/ (i - 1 \in DOMAIN chain /\ chain'[i] = chain[i - 1])
      BY <3>1
    <3>4. 1 \in DOMAIN chain'
      BY <3>1
    <3> QED BY <3>1, <3>2, <3>3, <3>4 DEF InStack
  <2> QED BY <2>1, <2>2
<1>5. /\ taken'[s] = IF previous THEN taken[s] \o Previous(s) ELSE taken[s]
      /\ \A t \in Idents : t # s => taken'[t] = taken[t] /\ base'[t] = base[t]
      /\ base'[s] = IF InStack(s) THEN base[s]
                    ELSE IF previous /\ InStack("memLog") THEN 0 ELSE Len(entries)
      /\ taken[s] \in Seq(Nat)
  BY <1>1, <1>2 DEF LogTypes
<1>6. LogTypes'
  <2>1. taken'[s] \in Seq(Nat)
    BY <1>3, <1>5, ConcatProperties
  <2>2. base'[s] \in Nat /\ base'[s] <= Len(entries)
    BY <1>2, <1>5 DEF LogTypes
  <2>3. taken' \in [Idents -> Seq(Nat)]
    BY <1>1, <1>2, <1>5, <2>1 DEF LogTypes
  <2>4. base' \in [Idents -> Nat] /\ \A t \in Idents : base'[t] <= Len(entries)
    BY <1>1, <1>2, <1>5, <2>2 DEF LogTypes
  <2> QED BY <1>1, <1>2, <2>3, <2>4 DEF LogTypes
<1>7. MemoryAll'
  BY <1>1, <1>4, <1>5 DEF MemoryAll, Idents
<1>8. \A t, f : Takes(t, f)' = Takes(t, f)
  BY <1>1, TakesSame
<1>9. ASSUME NEW t \in Idents PROVE Complete(t)'
  <2>0. Due(t)' = {i \in base'[t] + 1 .. Len(entries) : Takes(t, entries[i])}
    BY <1>1, <1>8 DEF Due
  <2>1. CASE t # s
    <3>1. Due(t)' = Due(t)
      BY <1>5, <2>0, <2>1 DEF Due
    <3> QED BY <1>1, <1>4, <1>5, <2>1, <3>1 DEF Stocked, Complete
  <2>2. CASE t = s /\ InStack(s)
    <3>1. Due(s)' = Due(s) /\ ToSet(taken[s]) \subseteq ToSet(taken'[s])
      BY <1>3, <1>5, <2>0, <2>2, ToSetConcat DEF Due
    <3> QED BY <1>1, <2>2, <3>1 DEF Stocked, Complete
  <2>3. CASE t = s /\ ~InStack(s) /\ previous /\ InStack("memLog")
    <3>1. Due(s)' \subseteq Meant(s)
      BY <1>2, <1>5, <2>0, <2>3 DEF Meant
    <3>2. Meant(s) \subseteq ToSet(Previous(s))
      BY <1>2, <2>3, PreviousAll
    <3>3. ToSet(Previous(s)) \subseteq ToSet(taken'[s])
      BY <1>3, <1>5, <2>3, ToSetConcat
    <3> QED BY <2>3, <3>1, <3>2, <3>3 DEF Complete
  <2>4. CASE t = s /\ ~InStack(s) /\ ~(previous /\ InStack("memLog"))
    <3>1. Due(s)' = {}
      BY <1>2, <1>5, <2>0, <2>4
    <3> QED BY <2>4, <3>1 DEF Complete
  <2> QED BY <2>1, <2>2, <2>3, <2>4
<1>10. FileEmpty' /\ FileNumbered'
  <2>1. CASE s # "fileLog"
    <3>1. taken'["fileLog"] = taken["fileLog"] /\ base'["fileLog"] = base["fileLog"]
      BY <1>5, <2>1 DEF Idents
    <3>2. InStack("fileLog")' <=> InStack("fileLog")
      BY <1>4, <2>1
    <3> QED BY <1>1, <3>1, <3>2 DEF FileEmpty, FileNumbered, Stocked
  <2>2. CASE s = "fileLog"
    <3>1. previous = TRUE /\ ~InStack("fileLog") /\ taken["fileLog"] = <<>>
      BY <2>2 DEF FileEmpty
    <3>2. taken'["fileLog"] = Previous("fileLog") /\ Previous("fileLog") \in Seq(Nat)
      BY <1>3, <1>5, <2>2, <3>1, ConcatEmptySeq
    <3>3. InStack("fileLog")'
      BY <1>4, <2>2
    <3>4. ASSUME "fileLog" \notin closed
          PROVE  FileNumbered'
      <4>1. \A f : Takes("fileLog", f)
        BY <3>4 DEF Takes
      <4>2. CASE InStack("memLog")
        <5>1. /\ Len(Previous("fileLog")) = Len(entries)
              /\ \A i \in 1 .. Len(entries) : Previous("fileLog")[i] = i
          BY <1>2, <4>1, <4>2, PreviousAll
        <5>2. base'["fileLog"] = 0
          BY <1>5, <2>2, <3>1, <4>2
        <5> QED BY <1>1, <1>2, <3>2, <5>1, <5>2 DEF FileNumbered
      <4>3. CASE ~InStack("memLog")
        <5>1. Len(taken'["fileLog"]) = 0 /\ base'["fileLog"] = Len(entries)
          BY <1>2, <1>5, <2>2, <3>1, <3>2, <4>3, PreviousAll, EmptySeq
        <5> QED BY <1>1, <1>2, <5>1 DEF FileNumbered
      <4> QED BY <4>2, <4>3
    <3>5. "fileLog" \in closed => FileNumbered'
      BY <1>1 DEF FileNumbered
    <3> QED BY <3>3, <3>4, <3>5 DEF FileEmpty
  <2> QED BY <2>1, <2>2
<1> QED BY <1>4, <1>6, <1>7, <1>9, <1>10 DEF Stocked

(* Loggers are removed or finalized, or the memory log is emptied: the      *)
(* others have what they had.                                               *)
LEMMA LessKeeps ==
  ASSUME Stocked, env' = env, entries' = entries, base' = base, closed \subseteq closed',
         taken' \in [Idents -> Seq(Nat)],
         \A t \in Idents : t # "memLog" => taken'[t] = taken[t],
         \A t : (InStack(t))' => InStack(t)
  PROVE  Stocked'
<1>1. LogTypes'
  BY DEF Stocked, LogTypes
<1>2. FileNumbered'
  BY DEF Stocked, FileNumbered, Idents
<1>3. ASSUME NEW t \in Idents PROVE Complete(t)'
  <2> SUFFICES ASSUME InStack(t)', t \notin closed', t # "memLog"
               PROVE  Due(t)' \subseteq ToSet(taken'[t])
    BY DEF Complete
  <2>1. Due(t)' = Due(t)
    <3>1. t \notin closed
      OBVIOUS
    <3>2. \A f : Takes(t, f)' = Takes(t, f)
      BY <3>1, TakesSame
    <3> QED BY <3>2 DEF Due
  <2> QED BY <2>1 DEF Stocked, Complete
<1> QED BY <1>1, <1>2, <1>3 DEF Stocked

(* Finalize of the whole stack closes the file and the connection, and      *)
(* empties the memory log (memlog.go, filelog.go, pblog.go).                *)
LEMMA FinalizeKeeps ==
  ASSUME Stocked, FileEmpty, FinalizeFrom(chain, 1), UNCHANGED <<chain, env, entries, base>>
  PROVE  Stocked' /\ FileEmpty'
<1>1. /\ closed \subseteq closed'
      /\ taken' = taken \/ taken' = [taken EXCEPT !["memLog"] = <<>>]
  BY DEF FinalizeFrom
<1>2. taken' \in [Idents -> Seq(Nat)] /\ \A t \in Idents : t # "memLog" => taken'[t] = taken[t]
  BY <1>1, EmptySeq DEF Stocked, LogTypes
<1>3. \A t : (InStack(t))' <=> InStack(t)
  BY DEF InStack
<1>4. Stocked'
  BY <1>1, <1>2, <1>3, LessKeeps
<1> QED BY <1>2, <1>3, <1>4 DEF FileEmpty, Idents

(* RemoveLogger (stackable.go:128): a memory log with others above it goes, *)
(* and none of them.                                                        *)
LEMMA FlushKeeps ==
  ASSUME ChainOK, Stocked, FileEmpty, InStack("consoleLog"), env' = env,
         NEW next, RemoveLogger("memLog", next)
  PROVE  /\ Stocked' /\ FileEmpty' /\ ~InStack("memLog")' /\ phase' = next
<1>1. CASE ~InStack("memLog")
  <2>1. phase' = next /\ NotAdded
    BY <1>1 DEF RemoveLogger, NotAdded
  <2> QED BY <1>1, <2>1, NotAddedKeeps
<1>2. CASE InStack("memLog")
  <2> DEFINE i == CHOOSE j \in DOMAIN chain : chain[j] = "memLog"
  <2>1. i \in DOMAIN chain /\ chain[i] = "memLog"
    BY <1>2 DEF InStack
  <2>2. /\ \/ i = 1 /\ chain' = <<"memLog">> /\ phase' = next
           \/ i > 1 /\ i = Len(chain) /\ phase' = next /\ chain' = SubSeq(chain, 1, i - 1)
           \/ i > 1 /\ i < Len(chain) /\ phase' = "panic"
              /\ chain' = SubSeq(chain, 1, i)
        /\ FinalizeFrom(<<"memLog">>, 1) /\ entries' = entries /\ base' = base
    BY <1>2 DEF RemoveLogger
  <2> HIDE DEF i
  <2>3. /\ chain \in Seq(Idents) /\ DOMAIN chain = 1 .. Len(chain) /\ Len(chain) \in Nat
        /\ \A j, k \in DOMAIN chain : chain[j] = chain[k] => j = k
        /\ i = Len(chain)
    BY <2>1 DEF ChainOK, DistinctLoggers
  <2>4. i > 1
    <3>1. PICK j \in DOMAIN chain : chain[j] = "consoleLog"
      BY DEF InStack
    <3>2. j # i /\ j \in 1 .. Len(chain)
      BY <2>1, <2>3, <3>1
    <3> QED BY <2>3, <3>2
  <2>5. phase' = next /\ chain' = SubSeq(chain, 1, i - 1)
    BY <2>2, <2>3, <2>4
  <2>6. /\ closed' = closed \cup ({"memLog"} \cap {"fileLog", "PBLog"})
        /\ taken' = [taken EXCEPT !["memLog"] = <<>>]
    BY <2>2 DEF FinalizeFrom
  <2>7. /\ taken' \in [Idents -> Seq(Nat)] /\ closed' = closed
        /\ \A t \in Idents : t # "memLog" => taken'[t] = taken[t]
    BY <2>6, EmptySeq DEF Stocked, LogTypes
  <2>8. DOMAIN chain' = 1 .. i - 1 /\ \A j \in 1 .. i - 1 : chain'[j] = chain[j]
    BY <2>3, <2>4, <2>5
  <2>9. \A t : (InStack(t))' <=> InStack(t) /\ t # "memLog"
    <3> TAKE t
    <3>1. ASSUME NEW j \in DOMAIN chain', chain'[j] = t
          PROVE  InStack(t) /\ t # "memLog"
      <4>1. j \in DOMAIN chain /\ j # i /\ chain[j] = t
        BY <2>3, <2>4, <2>8, <3>1
      <4> QED BY <2>1, <2>3, <4>1 DEF InStack
    <3>2. ASSUME NEW j \in DOMAIN chain, chain[j] = t, t # "memLog"
          PROVE  j \in DOMAIN chain' /\ chain'[j] = t
      <4>1. j # i
        BY <2>1, <3>2
      <4> QED BY <2>3, <2>8, <3>2, <4>1
    <3> QED BY <3>1, <3>2 DEF InStack
  <2>10. Stocked'
    BY <2>2, <2>7, <2>9, LessKeeps
  <2>11. FileEmpty'
    BY <2>7, <2>9 DEF FileEmpty, Idents
  <2> QED BY <2>5, <2>9, <2>10, <2>11
<1> QED BY <1>1, <1>2

LEMMA ForkKeeps ==
  ASSUME ChainOK, Stocked, env' = env, RemoveLogger("lcdLog", "os"), phase' # "panic"
  PROVE  Stocked' /\ phase' = "os"
<1>1. CASE ~InStack("lcdLog")
  <2>1. phase' = "os" /\ NotAdded
    BY <1>1 DEF RemoveLogger, NotAdded
  <2> QED BY <1>1, <2>1, NotAddedKeeps
<1>2. CASE InStack("lcdLog")
  <2> DEFINE i == CHOOSE j \in DOMAIN chain : chain[j] = "lcdLog"
  <2>1. i \in 1 .. Len(chain) /\ chain[i] = "lcdLog" /\ chain \in Seq(Idents)
    BY <1>2 DEF InStack, ChainOK
  <2>2. /\ phase' = "os"
        /\ \/ chain' = <<"lcdLog">>
           \/ i > 1 /\ chain' = SubSeq(chain, 1, i - 1)
        /\ FinalizeFrom(<<"lcdLog">>, 1) /\ entries' = entries /\ base' = base
    BY <1>2 DEF RemoveLogger
  <2> HIDE DEF i
  <2>3. taken' = taken /\ closed \subseteq closed'
    BY <2>2 DEF FinalizeFrom
  <2>4. \A t : (InStack(t))' => InStack(t)
    <3>1. CASE chain' = <<"lcdLog">>
      BY <2>1, <3>1 DEF InStack
    <3>2. CASE i > 1 /\ chain' = SubSeq(chain, 1, i - 1)
      <4>1. \A j \in DOMAIN chain' : j \in DOMAIN chain /\ chain'[j] = chain[j]
        BY <2>1, <3>2
      <4> QED BY <4>1 DEF InStack
    <3> QED BY <2>2, <3>1, <3>2
  <2>5. Stocked'
    BY <2>2, <2>3, <2>4, LessKeeps DEF Stocked, LogTypes
  <2> QED BY <2>2, <2>5
<1> QED BY <1>1, <1>2

(* FlaggedLogf (log.go): every logger in the stack has the new entry, if it *)
(* takes it.                                                                *)
LEMMA DeliverTypes ==
  ASSUME LogTypes, NEW f \in Flags, NEW n, taken' = Deliver(f, n),
         entries' = Append(entries, f), base' = base
  PROVE  /\ LogTypes'
         /\ \A s \in Idents :
              taken'[s] = IF Takes(s, f) /\ \E i \in 1 .. n : chain[i] = s
                          THEN Append(taken[s], Len(entries) + 1) ELSE taken[s]
<1>1. Len(entries) \in Nat /\ entries' \in Seq(Flags) /\ Len(entries') = Len(entries) + 1
  BY DEF LogTypes
<1>2. \A s \in Idents : taken[s] \in Seq(Nat) /\ Append(taken[s], Len(entries) + 1) \in Seq(Nat)
  BY <1>1, AppendProperties DEF LogTypes
<1>3. \A s \in Idents :
        taken'[s] = IF Takes(s, f) /\ \E i \in 1 .. n : chain[i] = s
                    THEN Append(taken[s], Len(entries) + 1) ELSE taken[s]
  BY DEF Deliver
<1>4. taken' \in [Idents -> Seq(Nat)]
  BY <1>2 DEF Deliver
<1>5. \A s \in Idents : base'[s] <= Len(entries')
  BY <1>1 DEF LogTypes
<1> QED BY <1>1, <1>3, <1>4, <1>5 DEF LogTypes

LEMMA LogKeeps ==
  ASSUME ChainOK, Stocked, env' = env, NEW f \in Flags, taken' = Deliver(f, Len(chain)),
         entries' = Append(entries, f), UNCHANGED <<chain, closed, base>>
  PROVE  /\ Stocked'
         /\ (MemoryAll => MemoryAll') /\ (FileEmpty => FileEmpty')
         /\ \A t : (InStack(t))' <=> InStack(t)
<1> DEFINE n == Len(entries)
<1>1. /\ LogTypes' /\ n \in Nat /\ DOMAIN entries = 1 .. n /\ Len(entries') = n + 1
      /\ DOMAIN entries' = 1 .. n + 1 /\ entries'[n + 1] = f
      /\ \A i \in 1 .. n : entries'[i] = entries[i]
      /\ chain \in Seq(Idents) /\ DOMAIN chain = 1 .. Len(chain)
  BY DeliverTypes, AppendProperties DEF Stocked, LogTypes, ChainOK
<1>2. \A t : (InStack(t))' <=> InStack(t)
  BY DEF InStack
<1>3. \A s \in Idents : /\ taken[s] \in Seq(Nat)
                        /\ taken'[s] = IF Takes(s, f) /\ InStack(s)
                                       THEN Append(taken[s], n + 1) ELSE taken[s]
  <2> TAKE s \in Idents
  <2>1. taken[s] \in Seq(Nat)
    BY DEF Stocked, LogTypes
  <2>2. InStack(s) <=> \E i \in 1 .. Len(chain) : chain[i] = s
    BY <1>1 DEF InStack
  <2>3. taken'[s] = IF Takes(s, f) /\ \E i \in 1 .. Len(chain) : chain[i] = s
                    THEN Append(taken[s], n + 1) ELSE taken[s]
    BY DeliverTypes DEF Stocked
  <2> QED BY <2>1, <2>2, <2>3
<1> HIDE DEF n
<1>4. \A s \in Idents : Takes(s, f) /\ InStack(s) =>
        /\ Len(taken'[s]) = Len(taken[s]) + 1 /\ taken'[s][Len(taken[s]) + 1] = n + 1
        /\ Len(taken[s]) \in Nat
        /\ \A i \in 1 .. Len(taken[s]) : taken'[s][i] = taken[s][i]
  <2> SUFFICES ASSUME NEW s \in Idents, Takes(s, f), InStack(s)
               PROVE  /\ Len(taken'[s]) = Len(taken[s]) + 1
                      /\ taken'[s][Len(taken[s]) + 1] = n + 1
                      /\ Len(taken[s]) \in Nat
                      /\ \A i \in 1 .. Len(taken[s]) : taken'[s][i] = taken[s][i]
    OBVIOUS
  <2>1. taken[s] \in Seq(Nat) /\ taken'[s] = Append(taken[s], n + 1) /\ n + 1 \in Nat
    <3>1. n + 1 \in Nat
      BY <1>1
    <3>2. taken[s] \in Seq(Nat) /\ taken'[s] = Append(taken[s], n + 1)
      BY <1>3, Zenon
    <3> QED BY <3>1, <3>2
  <2> QED BY <2>1, AppendProperties
<1>5. ASSUME NEW s \in Idents PROVE Complete(s)'
  <2> SUFFICES ASSUME InStack(s), s \notin closed, s # "memLog"
               PROVE  Due(s)' \subseteq ToSet(taken'[s])
    BY <1>2 DEF Complete
  <2>1. \A g : Takes(s, g)' = Takes(s, g)
    BY TakesSame
  <2>2. Due(s) \subseteq ToSet(taken[s])
    BY DEF Stocked, Complete
  <2>3. ASSUME NEW i \in Due(s)' PROVE i \in Due(s) \/ (i = n + 1 /\ Takes(s, f))
    <3>1. i \in base[s] + 1 .. n + 1 /\ Takes(s, entries'[i]) /\ base[s] \in Nat
      BY <1>1, <2>1, <2>3 DEF Due, Stocked, LogTypes
    <3>2. CASE i = n + 1
      BY <1>1, <3>1, <3>2
    <3>3. CASE i # n + 1
      <4>1. i \in base[s] + 1 .. n /\ i \in 1 .. n
        BY <1>1, <3>1, <3>3
      <4> QED BY <1>1, <3>1, <4>1 DEF Due, n
    <3> QED BY <3>2, <3>3
  <2>4. CASE Takes(s, f)
    <3>1. /\ Len(taken[s]) \in Nat /\ DOMAIN taken[s] = 1 .. Len(taken[s])
          /\ DOMAIN taken'[s] = 1 .. Len(taken[s]) + 1
          /\ taken'[s][Len(taken[s]) + 1] = n + 1
          /\ \A i \in 1 .. Len(taken[s]) : taken'[s][i] = taken[s][i]
      <4>1. taken'[s] \in Seq(Nat) /\ taken[s] \in Seq(Nat)
        BY <1>1, <1>3 DEF LogTypes
      <4>2. /\ Len(taken'[s]) = Len(taken[s]) + 1
            /\ taken'[s][Len(taken[s]) + 1] = n + 1
            /\ \A i \in 1 .. Len(taken[s]) : taken'[s][i] = taken[s][i]
        BY <1>4, <2>4
      <4>3. Len(taken[s]) \in Nat /\ DOMAIN taken[s] = 1 .. Len(taken[s])
        BY <4>1
      <4>4. DOMAIN taken'[s] = 1 .. Len(taken'[s])
        BY <4>1
      <4> QED BY <4>2, <4>3, <4>4
    <3> DEFINE a == taken[s]
               b == taken'[s]
               k == Len(taken[s])
               x == n + 1
    <3>2. /\ k \in Nat /\ DOMAIN a = 1 .. k /\ DOMAIN b = 1 .. k + 1 /\ b[k + 1] = x
          /\ \A i \in 1 .. k : b[i] = a[i]
      BY <3>1
    <3> HIDE DEF a, b, k, x
    <3>3. ToSet(b) = ToSet(a) \cup {x}
      BY <3>2, ToSetPlus
    <3> QED BY <2>2, <2>3, <3>3 DEF a, b, x
  <2>5. CASE ~Takes(s, f)
    BY <1>3, <2>2, <2>3, <2>5
  <2> QED BY <2>4, <2>5
<1>6. MemoryAll => MemoryAll'
  <2> SUFFICES ASSUME MemoryAll, InStack("memLog")
               PROVE  /\ Len(taken'["memLog"]) = n + 1
                      /\ \A i \in 1 .. n + 1 : taken'["memLog"][i] = i
    BY <1>1, <1>2 DEF MemoryAll
  <2>1. Takes("memLog", f) /\ "memLog" \in Idents
    BY DEF Takes, Idents
  <2>2. Len(taken["memLog"]) = n /\ \A i \in 1 .. n : taken["memLog"][i] = i
    BY DEF MemoryAll, n
  <2>3. \A i \in 1 .. n + 1 : i \in 1 .. n \/ i = n + 1
    BY <1>1
  <2> QED BY <1>4, <2>1, <2>2, <2>3
<1>7. FileEmpty => FileEmpty'
  BY <1>2, <1>3 DEF FileEmpty, Idents
<1>8. FileNumbered'
  <2> SUFFICES ASSUME InStack("fileLog"), "fileLog" \notin closed
               PROVE  /\ Len(taken'["fileLog"]) = Len(entries') - base'["fileLog"]
                      /\ \A i \in 1 .. Len(taken'["fileLog"]) :
                           taken'["fileLog"][i] = base'["fileLog"] + i
    BY <1>2 DEF FileNumbered
  <2>1. Takes("fileLog", f) /\ "fileLog" \in Idents
    BY DEF Takes, Idents
  <2>2. /\ Len(taken["fileLog"]) = n - base["fileLog"] /\ base["fileLog"] \in Nat
        /\ \A i \in 1 .. Len(taken["fileLog"]) : taken["fileLog"][i] = base["fileLog"] + i
    BY <2>1 DEF Stocked, LogTypes, FileNumbered, n
  <2>3. /\ Len(taken'["fileLog"]) = Len(taken["fileLog"]) + 1
        /\ taken'["fileLog"][Len(taken["fileLog"]) + 1] = n + 1
        /\ Len(taken["fileLog"]) \in Nat
        /\ \A i \in 1 .. Len(taken["fileLog"]) : taken'["fileLog"][i] = taken["fileLog"][i]
    BY <1>4, <2>1
  <2>4. \A i \in 1 .. Len(taken["fileLog"]) + 1 :
          i \in 1 .. Len(taken["fileLog"]) \/ i = Len(taken["fileLog"]) + 1
    BY <2>3
  <2>5. base["fileLog"] + (Len(taken["fileLog"]) + 1) = n + 1
    BY <1>1, <2>2
  <2>6. Len(taken'["fileLog"]) = Len(entries') - base'["fileLog"]
    <3>1. base'["fileLog"] = base["fileLog"]
      OBVIOUS
    <3>2. Len(entries') = n + 1 /\ n \in Nat
      BY <1>1
    <3>3. Len(taken'["fileLog"]) = (n - base["fileLog"]) + 1 /\ base["fileLog"] \in Nat
      BY <2>2, <2>3
    <3>4. (n - base["fileLog"]) + 1 = (n + 1) - base["fileLog"]
      BY <3>2, <3>3
    <3> QED BY <3>1, <3>2, <3>3, <3>4
  <2>7. ASSUME NEW i \in 1 .. Len(taken'["fileLog"])
        PROVE  taken'["fileLog"][i] = base'["fileLog"] + i
    BY <2>2, <2>3, <2>4, <2>5
  <2> QED BY <2>6, <2>7
<1> QED BY <1>1, <1>2, <1>5, <1>6, <1>7, <1>8 DEF Stocked

(* AddPBLog (pblog.go:48): the server is connected, or not, or hangs.       *)
LEMMA AddPBLogKeeps ==
  ASSUME ChainOK, Stocked, MemoryAll, FileEmpty, env' = env, NEW next, AddPBLog(next)
  PROVE  /\ LogTypes'
         /\ Working' => /\ Stocked' /\ MemoryAll' /\ FileEmpty' /\ phase' = next
                        /\ \A t : InStack(t) => InStack(t)'
<1>1. CASE phase' = next /\ NotAdded
  BY <1>1, NotAddedKeeps DEF Stocked
<1>2. CASE phase' = next /\ AddLogger("PBLog", TRUE)
  <2>1. "PBLog" \in Idents \ {"memLog"} /\ TRUE \in BOOLEAN /\ "PBLog" # "fileLog"
    BY DEF Idents
  <2>2. /\ Stocked' /\ MemoryAll' /\ FileEmpty'
        /\ \A t : (InStack(t))' <=> InStack(t) \/ t = "PBLog"
    BY <1>2, <2>1, AddLoggerKeeps
  <2> QED BY <1>2, <2>2 DEF Stocked
<1>3. CASE /\ phase' = "hung" /\ UNCHANGED <<entries, base>>
           /\ \E n \in 0 .. Len(Previous("PBLog")) - 1 :
                taken' = [taken EXCEPT !["PBLog"] = @ \o SubSeq(Previous("PBLog"), 1, n)]
  <2>1. PICK n \in 0 .. Len(Previous("PBLog")) - 1 :
          taken' = [taken EXCEPT !["PBLog"] = @ \o SubSeq(Previous("PBLog"), 1, n)]
    BY <1>3
  <2>2. LogTypes /\ Previous("PBLog") \in Seq(Nat) /\ "PBLog" \in Idents
    BY PreviousAll DEF Stocked, Idents
  <2>3. SubSeq(Previous("PBLog"), 1, n) \in Seq(Nat)
    <3>1. Len(Previous("PBLog")) \in Nat /\ \A i \in 1 .. n : Previous("PBLog")[i] \in Nat
      BY <2>2
    <3> QED BY <3>1, SubSeqProperties
  <2>4. taken["PBLog"] \o SubSeq(Previous("PBLog"), 1, n) \in Seq(Nat)
    BY <2>2, <2>3, ConcatProperties DEF LogTypes
  <2> QED BY <1>3, <2>1, <2>2, <2>4 DEF LogTypes, Working
<1> QED BY <1>1, <1>2, <1>3 DEF AddPBLog

LEMMA FlaggedLogKeeps ==
  ASSUME ChainOK, Stocked, env' = env, NEW f \in Flags, NEW next, FlaggedLogf(f, next)
  PROVE  /\ LogTypes'
         /\ Working' => /\ Stocked' /\ (MemoryAll => MemoryAll') /\ (FileEmpty => FileEmpty')
                        /\ phase' = next
                        /\ \A t : (InStack(t))' <=> InStack(t)
<1>1. entries' = Append(entries, f) /\ UNCHANGED <<chain, closed, base>>
  BY DEF FlaggedLogf
<1>2. CASE phase' = next /\ taken' = Deliver(f, Len(chain))
  <2>1. /\ Stocked'
        /\ (MemoryAll => MemoryAll') /\ (FileEmpty => FileEmpty')
        /\ \A t : (InStack(t))' <=> InStack(t)
    BY <1>1, <1>2, LogKeeps
  <2>2. LogTypes'
    BY <2>1 DEF Stocked
  <2> QED BY <1>2, <2>1, <2>2
<1>3. CASE phase' = "hung" /\ \E i \in DOMAIN chain : taken' \in {Deliver(f, i - 1), Deliver(f, i)}
  <2>1. LogTypes'
    BY <1>1, <1>3, DeliverTypes DEF Stocked
  <2> QED BY <1>3, <2>1 DEF Working
<1> QED BY <1>2, <1>3 DEF FlaggedLogf

-----------------------------------------------------------------------------
(* Every step of the init process keeps the invariant. *)

LEMMA FreshKeeps ==
  ASSUME NextBoot
  PROVE  LogTypes' /\ Stocked' /\ ByPhase'
<1>1. /\ phase' = "early" /\ chain' = <<"memLog">> /\ entries' = <<>>
      /\ taken' = [s \in Idents |-> <<>>] /\ base' = [s \in Idents |-> 0] /\ closed' = {}
  BY DEF NextBoot
<1>2. /\ DOMAIN chain' = {1} /\ chain'[1] = "memLog" /\ Len(entries') = 0
      /\ entries' \in Seq(Flags)
  BY <1>1
<1>3. \A t : (InStack(t))' <=> t = "memLog"
  BY <1>2 DEF InStack
<1>4. \A s \in Idents : taken'[s] = <<>> /\ base'[s] = 0 /\ Len(taken'[s]) = 0
  BY <1>1
<1>5. LogTypes'
  BY <1>1, <1>2, <1>4, EmptySeq DEF LogTypes
<1>6. MemoryAll' /\ FileEmpty' /\ FileNumbered'
  BY <1>2, <1>3, <1>4 DEF MemoryAll, FileEmpty, FileNumbered, Idents
<1>7. \A s \in Idents : Complete(s)'
  BY <1>3 DEF Complete
<1> QED BY <1>1, <1>3, <1>5, <1>6, <1>7 DEF Stocked, ByPhase

LEMMA AddingKeeps ==
  ASSUME ChainOK, Stocked, ByPhase,
         \/ CommonEnvVars \/ OutputTo9p \/ HandleEnvVars \/ AddConsoleLog \/ AddLcdLog
         \/ AddFileLog \/ HandleFrData
  PROVE  LogTypes' /\ (Working' => Stocked' /\ ByPhase')
<1> USE DEF Adding
<1>1. phase \in Adding /\ phase # "os" /\ env' = env
  BY DEF CommonEnvVars, OutputTo9p, HandleEnvVars, AddConsoleLog, AddLcdLog, AddFileLog,
     HandleFrData
<1>2. MemoryAll /\ FileEmpty /\ LogTypes
  BY <1>1 DEF ByPhase, Stocked
<1>3. ASSUME NEW s \in Idents \ {"memLog"}, NEW previous \in BOOLEAN, AddLogger(s, previous),
             s = "fileLog" => previous = TRUE /\ ~InStack("fileLog")
      PROVE  /\ Stocked' /\ MemoryAll' /\ FileEmpty' /\ LogTypes'
             /\ \A t : (InStack(t))' <=> InStack(t) \/ t = s
  BY <1>1, <1>2, <1>3, AddLoggerKeeps DEF Stocked
<1>4. NotAdded => /\ Stocked' /\ MemoryAll' /\ FileEmpty' /\ LogTypes'
                  /\ \A t : (InStack(t))' <=> InStack(t)
  BY <1>1, <1>2, NotAddedKeeps
<1>5. CASE CommonEnvVars
  <2>1. /\ phase = "early" /\ phase' = "testlog"
        /\ NotAdded \/ AddLogger("consoleLog", TRUE)
    BY <1>5 DEF CommonEnvVars
  <2>2. Stocked' /\ MemoryAll' /\ FileEmpty' /\ LogTypes' /\ ~InStack("fileLog")'
    BY <1>3, <1>4, <2>1 DEF Idents, ByPhase
  <2> QED BY <2>1, <2>2 DEF ByPhase
<1>6. CASE OutputTo9p
  <2>1. /\ phase = "testlog" /\ phase' = "xlog"
        /\ NotAdded \/ AddLogger("fileLog", TRUE)
    BY <1>6 DEF OutputTo9p
  <2>2. Stocked' /\ MemoryAll' /\ FileEmpty' /\ LogTypes'
    BY <1>3, <1>4, <2>1 DEF Idents, ByPhase
  <2> QED BY <2>1, <2>2 DEF ByPhase
<1>7. CASE HandleEnvVars
  <2>1. AddPBLog("boot")
    BY <1>7 DEF HandleEnvVars
  <2> QED BY <1>1, <1>2, <2>1, AddPBLogKeeps DEF ByPhase
<1>8. CASE AddConsoleLog
  <2>1. phase' = "lcd" /\ AddLogger("consoleLog", TRUE)
    BY <1>8 DEF AddConsoleLog
  <2>2. Stocked' /\ MemoryAll' /\ FileEmpty' /\ LogTypes' /\ InStack("consoleLog")'
    BY <1>3, <2>1 DEF Idents
  <2> QED BY <2>1, <2>2 DEF ByPhase
<1>9. CASE AddLcdLog
  <2>1. phase = "lcd" /\ phase' = "file" /\ (NotAdded \/ AddLogger("lcdLog", FALSE))
    BY <1>9 DEF AddLcdLog
  <2>2. Stocked' /\ MemoryAll' /\ FileEmpty' /\ LogTypes' /\ InStack("consoleLog")'
    BY <1>3, <1>4, <2>1 DEF Idents, ByPhase
  <2> QED BY <2>1, <2>2 DEF ByPhase
<1>10. CASE AddFileLog
  <2>1. /\ phase = "file" /\ phase' \in {"flush", "handle"}
        /\ NotAdded \/ (~InStack("fileLog") /\ AddLogger("fileLog", TRUE))
    BY <1>10 DEF AddFileLog
  <2>2. Stocked' /\ MemoryAll' /\ FileEmpty' /\ LogTypes' /\ InStack("consoleLog")'
    BY <1>3, <1>4, <2>1 DEF Idents, ByPhase
  <2> QED BY <2>1, <2>2 DEF ByPhase
<1>11. CASE HandleFrData
  <2>1. phase = "handle" /\ AddPBLog("flush")
    BY <1>11 DEF HandleFrData
  <2>2. LogTypes' /\ (Working' => /\ Stocked' /\ MemoryAll' /\ FileEmpty' /\ phase' = "flush"
                                  /\ InStack("consoleLog")')
    BY <1>1, <1>2, <2>1, AddPBLogKeeps DEF ByPhase
  <2> QED BY <2>2 DEF ByPhase
<1> QED BY <1>5, <1>6, <1>7, <1>8, <1>9, <1>10, <1>11

LEMMA LoggingKeeps ==
  ASSUME ChainOK, Stocked, ByPhase, Log \/ RecordKeeper \/ Fatalf
  PROVE  LogTypes' /\ (Working' => Stocked' /\ ByPhase')
<1>1. /\ env' = env /\ phase # "os"
      /\ \E f \in Flags : FlaggedLogf(f, phase) \/ FlaggedLogf(f, "fatal")
  BY DEF Log, RecordKeeper, Fatalf, Flags
<1>2. FileEmpty
  BY <1>1 DEF ByPhase
<1>3. PICK f \in Flags : FlaggedLogf(f, phase) \/ FlaggedLogf(f, "fatal")
  BY <1>1
<1>4. CASE FlaggedLogf(f, phase)
  <2>1. /\ LogTypes'
        /\ Working' => /\ Stocked' /\ (MemoryAll => MemoryAll') /\ FileEmpty' /\ phase' = phase
                       /\ \A t : (InStack(t))' <=> InStack(t)
    BY <1>1, <1>2, <1>4, FlaggedLogKeeps
  <2> QED BY <2>1 DEF ByPhase
<1>5. CASE FlaggedLogf(f, "fatal")
  <2>1. LogTypes' /\ (Working' => Stocked' /\ FileEmpty' /\ phase' = "fatal")
    BY <1>1, <1>2, <1>5, FlaggedLogKeeps
  <2> QED BY <2>1 DEF ByPhase, Adding
<1> QED BY <1>3, <1>4, <1>5

LEMMA LeavingKeeps ==
  ASSUME ChainOK, Stocked, ByPhase,
         Boot \/ BootMenu \/ FlushMemLog \/ Leave \/ FatalFinalize \/ Reboot \/ Fork,
         Working'
  PROVE  Stocked' /\ ByPhase'
<1>1. phase # "os" /\ FileEmpty
  BY DEF Boot, BootMenu, FlushMemLog, Leave, FatalFinalize, Reboot, Fork, Go, ByPhase
<1>2. CASE Boot \/ BootMenu \/ Reboot
  <2>1. /\ env' = env /\ NotAdded
        /\ phase' \in {"console", "fork", "menu"} => phase \in Adding
        /\ phase' \in {"console", "fork", "menu", "reboot"}
    BY <1>2 DEF Boot, BootMenu, Reboot, Go, Adding
  <2>2. Stocked' /\ FileEmpty' /\ (phase' \in {"console", "menu"} => MemoryAll')
    BY <1>1, <2>1, NotAddedKeeps DEF ByPhase
  <2> QED BY <2>1, <2>2 DEF ByPhase, Adding
<1>3. CASE FlushMemLog
  <2>1. InStack("consoleLog") /\ env' = env /\ RemoveLogger("memLog", "work")
    BY <1>3 DEF FlushMemLog, ByPhase
  <2>2. Stocked' /\ FileEmpty' /\ ~InStack("memLog")' /\ phase' = "work"
    BY <1>1, <2>1, FlushKeeps
  <2> QED BY <2>2 DEF ByPhase, Adding
<1>4. CASE phase = "work" /\ Go("menu", "boot")
  <2>1. env' = env /\ NotAdded /\ phase' = "menu" /\ ~InStack("memLog")
    BY <1>4 DEF Go, ByPhase
  <2>2. Stocked' /\ FileEmpty' /\ ~InStack("memLog")'
    BY <1>1, <2>1, NotAddedKeeps
  <2> QED BY <2>1, <2>2 DEF ByPhase, Adding, MemoryAll
<1>5. CASE phase' = "closing" /\ FinalizeFrom(chain, 1) /\ UNCHANGED <<env, chain, entries, base>>
  <2>1. Stocked' /\ FileEmpty'
    BY <1>1, <1>5, FinalizeKeeps
  <2> QED BY <1>5, <2>1 DEF ByPhase, Adding
<1>6. CASE Fork
  <2>1. env' = env /\ (RemoveLogger("lcdLog", "os") \/ (phase' = "os" /\ NotAdded))
    BY <1>6 DEF Fork
  <2>2. Stocked' /\ phase' = "os"
    BY <2>1, ForkKeeps, NotAddedKeeps DEF Working
  <2> QED BY <2>2 DEF ByPhase, Adding
<1> QED BY <1>2, <1>3, <1>4, <1>5, <1>6 DEF Leave, FatalFinalize

(* A stack that is cut short by the panic of a forwarded logger, or by the  *)
(* removal of the lcd, has the same entries.                                *)
LEMMA PanicTypes ==
  ASSUME LogTypes, ChainOK,
         Boot \/ BootMenu \/ FlushMemLog \/ Leave \/ FatalFinalize \/ Reboot \/ Fork
  PROVE  LogTypes'
<1>1. /\ UNCHANGED <<entries, base>>
      /\ taken' = taken \/ taken' = [taken EXCEPT !["memLog"] = <<>>]
  BY DEF Boot, BootMenu, FlushMemLog, Leave, FatalFinalize, Reboot, Fork, Go, NotAdded,
     RemoveLogger, FinalizeFrom
<1>2. taken' \in [Idents -> Seq(Nat)]
  BY <1>1, EmptySeq DEF LogTypes
<1> QED BY <1>1, <1>2 DEF LogTypes

LEMMA LogStep ==
  ASSUME LogInv, [Next]_vars
  PROVE  LogInv'
<1>1. ChainOK'
  BY NextShape, ShapeKeeps DEF LogInv
<1>2. CASE UNCHANGED vars
  <2>1. env' = env /\ NotAdded /\ phase' = phase
    BY <1>2 DEF vars, NotAdded
  <2>2. /\ Stocked' = Stocked /\ MemoryAll' = MemoryAll /\ FileEmpty' = FileEmpty
        /\ LogTypes' = LogTypes /\ \A s : InStack(s)' = InStack(s)
    BY <2>1, NotAddedKeeps
  <2>3. Working' = Working /\ ByPhase' = ByPhase
    BY <2>1, <2>2 DEF Working, ByPhase
  <2> QED BY <1>1, <2>2, <2>3 DEF LogInv
<1>3. CASE NextBoot
  BY <1>1, <1>3, FreshKeeps DEF LogInv
<1>4. CASE Next /\ ~NextBoot
  <2>1. Working
    BY <1>4 DEF Next, Working, CommonEnvVars, OutputTo9p, HandleEnvVars, Boot, BootMenu,
       AddConsoleLog, AddLcdLog, AddFileLog, HandleFrData, FlushMemLog, Leave, Log,
       RecordKeeper, Fatalf, FatalFinalize, Reboot, Fork
  <2>2. ChainOK /\ Stocked /\ ByPhase /\ LogTypes
    BY <2>1 DEF LogInv
  <2>3. CASE \/ CommonEnvVars \/ OutputTo9p \/ HandleEnvVars \/ AddConsoleLog \/ AddLcdLog
             \/ AddFileLog \/ HandleFrData
    BY <1>1, <2>2, <2>3, AddingKeeps DEF LogInv
  <2>4. CASE Log \/ RecordKeeper \/ Fatalf
    BY <1>1, <2>2, <2>4, LoggingKeeps DEF LogInv
  <2>5. CASE Boot \/ BootMenu \/ FlushMemLog \/ Leave \/ FatalFinalize \/ Reboot \/ Fork
    BY <1>1, <2>2, <2>5, LeavingKeeps, PanicTypes DEF LogInv
  <2> QED BY <1>4, <2>3, <2>4, <2>5 DEF Next
<1> QED BY <1>2, <1>3, <1>4

LEMMA LogInvariant == Spec => []LogInv
<1>1. ASSUME Init PROVE LogInv
  <2>1. /\ phase = "early" /\ chain = <<"memLog">> /\ entries = <<>>
        /\ taken = [s \in Idents |-> <<>>] /\ base = [s \in Idents |-> 0] /\ closed = {}
    BY <1>1 DEF Init
  <2>2. /\ DOMAIN chain = {1} /\ chain[1] = "memLog" /\ Len(entries) = 0
        /\ entries \in Seq(Flags)
    BY <2>1
  <2>3. \A t : InStack(t) <=> t = "memLog"
    BY <2>2 DEF InStack
  <2>4. \A s \in Idents : taken[s] = <<>> /\ base[s] = 0 /\ Len(taken[s]) = 0
    BY <2>1
  <2>5. LogTypes
    BY <2>1, <2>2, <2>4, EmptySeq DEF LogTypes
  <2>6. MemoryAll /\ FileEmpty /\ FileNumbered
    BY <2>2, <2>3, <2>4 DEF MemoryAll, FileEmpty, FileNumbered, Idents
  <2>7. \A s \in Idents : Complete(s)
    BY <2>3 DEF Complete
  <2>8. ChainOK
    BY <2>1 DEF ChainOK, DistinctLoggers, Idents
  <2> QED BY <2>1, <2>3, <2>5, <2>6, <2>7, <2>8 DEF LogInv, Stocked, ByPhase
<1>2. LogInv /\ [Next]_vars => LogInv'
  BY LogStep
<1> QED BY <1>1, <1>2, PTL DEF Spec

LEMMA InChain ==
  ASSUME NEW s \in ToSet(chain)
  PROVE  InStack(s)
BY DEF ToSet, InStack

(* For every bound on the entries and any behaviour of the log server: a    *)
(* logger in the stack has every entry meant for it since the process       *)
(* started, or since it was added when the memory log was gone by then, in   *)
(* whatever order and however often loggers are added (stackable.go:100).   *)
THEOREM LoggersComplete == Spec => []NothingLost
<1>1. ASSUME LogInv PROVE NothingLost
  <2> SUFFICES ASSUME Working, NEW s \in ToSet(chain) \ (closed \cup {"memLog"})
               PROVE  Due(s) \subseteq ToSet(taken[s])
    BY DEF NothingLost
  <2>1. InStack(s) /\ s \in Idents
    BY <1>1, InChain DEF LogInv, ChainOK, ToSet
  <2> QED BY <1>1, <2>1 DEF LogInv, Stocked, Complete
<1> QED BY <1>1, LogInvariant, PTL

(* For every bound on the entries and any behaviour of the log server: the  *)
(* log file has the entries since it was opened, or since the process       *)
(* started, without gap, repetition or disorder (filelog.go, stackable.go). *)
THEOREM FileIsExact == Spec => []FileExact
<1>1. ASSUME LogInv PROVE FileExact
  <2> SUFFICES ASSUME Working, "fileLog" \in ToSet(chain) \ closed
               PROVE  /\ ToSet(taken["fileLog"]) = Due("fileLog")
                      /\ \A i, j \in DOMAIN taken["fileLog"] :
                           i < j => taken["fileLog"][i] < taken["fileLog"][j]
    BY DEF FileExact
  <2> DEFINE b == base["fileLog"]
             file == taken["fileLog"]
             n == Len(entries)
  <2>1. /\ Len(file) = n - b /\ \A i \in 1 .. Len(file) : file[i] = b + i
    BY <1>1, InChain DEF LogInv, Stocked, FileNumbered
  <2>2. n \in Nat /\ b \in Nat /\ b <= n /\ file \in Seq(Nat)
    BY <1>1 DEF LogInv, LogTypes, Idents
  <2>3. Due("fileLog") = b + 1 .. n
    BY DEF Due, Takes
  <2> HIDE DEF b, file, n
  <2>4. DOMAIN file = 1 .. n - b
    BY <2>1, <2>2
  <2>5. ToSet(file) = b + 1 .. n
    <3>1. \A i \in 1 .. n - b : file[i] = b + i /\ b + i \in b + 1 .. n
      BY <2>1, <2>2
    <3>2. \A k \in b + 1 .. n : k - b \in 1 .. n - b /\ b + (k - b) = k
      BY <2>2
    <3> QED BY <2>4, <3>1, <3>2 DEF ToSet
  <2>6. \A i, j \in DOMAIN file : i < j => file[i] < file[j]
    BY <2>1, <2>2, <2>4
  <2> QED BY <2>3, <2>5, <2>6 DEF file
<1> QED BY <1>1, LogInvariant, PTL
=============================================================================
