------------------------------ MODULE FileProofs ------------------------------
(***************************************************************************)
(* What is in files.  No node builds on a torn directory, no chain is lost *)
(* silently, and the tools beside a node are exact: for any back ends,     *)
(* modes and numbers of crashes, damages, backups, restores and tools, and *)
(* any log.  The inventory application's file has what was answered for,   *)
(* for any requests, failed writes and crashes, and its document stays     *)
(* sound, for any requests, recipes, quantities and factors.               *)
(***************************************************************************)
EXTENDS NodeFiles, DataStore, Inventory, Sums, SequenceTheorems, TLAPS

Block == [id : Int, height : Int, prev : Int, pre : Int, sound : BOOLEAN]

(* The blocks of a directory, whatever was damaged in it: in order of      *)
(* height, each computed from the state its predecessor left.              *)
Chains == {b \in Seq(Block) :
             /\ b # << >>
             /\ \A i \in DOMAIN b : b[i].pre = b[i].prev
             /\ \A i, j \in DOMAIN b : i < j => b[i].height < b[j].height}

Dirs == [blocks : Chains, tip : Int, core : Int, hist : Int]
MaybeDirs == Dirs \cup {NoDir}

Lefts == SUBSET {"meta", "ledger"}
Nodes == [up : BOOLEAN, tip : Int, core : Int, hist : Int, paused : BOOLEAN]
Puts == [block : Seq(Block), left : Lefts, after : Nodes]

(* The node and its directory.                                             *)
NodeTypes ==
  /\ dir \in MaybeDirs
  /\ node \in Nodes
  /\ put \in Puts
  /\ mined \in Int

(* The tools and what they hold.                                           *)
ToolTypes ==
  /\ \A zip \in zips : zip.content \in Dirs
  /\ copy \in MaybeDirs
  /\ restore \in [step : {"idle", "staged", "verified", "removed"},
                  stage : MaybeDirs, force : BOOLEAN]
  /\ tool \in [step : {"idle", "full", "tip", "repair"}, snap : MaybeDirs, to : Int]
  /\ history \in [started : BOOLEAN, left : SUBSET MaybeDirs, failedLate : BOOLEAN,
                  repaired : {"no", "alone", "beside a node"}]

(* Who may be at work together.                                            *)
Turns ==
  /\ node.up => dir # NoDir
  /\ restore.step # "idle" => /\ restore.stage # NoDir
                              /\ ~node.up /\ tool.step = "idle"
  /\ tool.step # "idle" => /\ tool.snap # NoDir /\ dir # NoDir
                           /\ backend = "sqlite"
                           /\ \E i \in DOMAIN tool.snap.blocks :
                                tool.snap.blocks[i].height = tool.to
  /\ history.repaired # "no" => backend = "sqlite"

(* The memory of a node is the state of a block, or of the one before it.  *)
Has(n, block) == n.tip = block.id /\ n.core = block.id
Lags(n, block) == n.tip = block.prev /\ n.core = block.prev /\ n.tip # block.id

(* A write the JSON storage has to go on with is that of the latest block, *)
(* and what is left of it is what the node takes over afterwards: until    *)
(* then the memory of an observer is that of the block before.             *)
WriteInv ==
  put # Whole =>
    /\ node.up /\ backend = "json"
    /\ put.block = <<Latest(dir)>>
    /\ put.after.up /\ Has(put.after, Latest(dir))
    /\ \/ put.left = {"meta", "ledger"}
       \/ put.left = {"ledger"} /\ dir.tip = Latest(dir).id
    /\ mode = "observer" /\ Latest(dir).height > 0 => Lags(node, Latest(dir))

(* A node that has the state of its latest block in memory has stored it,  *)
(* and one that calls itself healthy has it, or is an observer that lags.  *)
MemoryInv ==
  node.up /\ put = Whole =>
    /\ Has(node, Latest(dir)) => dir.tip = node.tip /\ dir.core = node.core
    /\ ~node.paused => \/ Has(node, Latest(dir))
                       \/ mode = "observer" /\ Lags(node, Latest(dir))

FilesInv == NodeTypes /\ ToolTypes /\ Turns /\ WriteInv /\ MemoryInv

ChainInv == FilesInv /\ NothingIsLost /\ ReportsAreTrue /\ RepairHolds

-----------------------------------------------------------------------------
(* Chains and directories.                                                 *)

LEMMA ChainFacts ==
  ASSUME NEW b \in Chains
  PROVE  /\ b \in Seq(Block) /\ b # << >>
         /\ Len(b) \in Nat \ {0} /\ DOMAIN b = 1 .. Len(b)
         /\ Last(b) = b[Len(b)] /\ Last(b) \in Block
         /\ \A i \in DOMAIN b : b[i] \in Block
<1>1. b \in Seq(Block) /\ b # << >>
  BY DEF Chains
<1>2. Len(b) \in Nat \ {0} /\ DOMAIN b = 1 .. Len(b)
  BY <1>1, LenProperties, EmptySeq
<1>3. \A i \in 1 .. Len(b) : b[i] \in Block
  BY <1>1, ElementOfSeq
<1> QED BY <1>1, <1>2, <1>3 DEF Last

LEMMA ChainOrder ==
  ASSUME NEW b \in Chains
  PROVE  /\ \A i \in DOMAIN b : b[i].pre = b[i].prev /\ b[i].height \in Int
         /\ \A i, j \in DOMAIN b : i < j => b[i].height < b[j].height
         /\ \A i \in DOMAIN b : i = Len(b) \/ b[i].height < b[Len(b)].height
<1>1. \A i \in DOMAIN b : b[i].pre = b[i].prev /\ b[i].height \in Int
  BY ChainFacts DEF Chains, Block
<1>2. \A i, j \in DOMAIN b : i < j => b[i].height < b[j].height
  BY DEF Chains
<1>3. \A i \in DOMAIN b : Len(b) \in DOMAIN b /\ (i = Len(b) \/ i < Len(b))
  BY ChainFacts
<1> QED BY <1>1, <1>2, <1>3

LEMMA DirFacts ==
  ASSUME NEW d \in Dirs
  PROVE  d # NoDir /\ d.blocks \in Chains /\ Latest(d) \in Block
         /\ d.tip \in Int /\ d.core \in Int /\ d.hist \in Int
<1>1. d.blocks \in Chains
  BY DEF Dirs
<1>2. d.blocks # << >> /\ Latest(d) \in Block
  BY <1>1, ChainFacts DEF Latest
<1>3. NoDir.blocks = << >>
  BY DEF NoDir
<1> QED BY <1>1, <1>2, <1>3 DEF Dirs

(* A block that follows the latest one is appended to a chain.             *)
LEMMA AppendChain ==
  ASSUME NEW b \in Chains, NEW block \in Block,
         block.pre = block.prev, block.height > Last(b).height
  PROVE  Append(b, block) \in Chains /\ Last(Append(b, block)) = block
<1> DEFINE c == Append(b, block)
<1>1. /\ c \in Seq(Block) /\ Len(c) = Len(b) + 1 /\ c[Len(b) + 1] = block
      /\ \A i \in 1 .. Len(b) : c[i] = b[i]
  BY ChainFacts, AppendProperties
<1>2. DOMAIN c = 1 .. Len(b) + 1 /\ c # << >>
  BY <1>1, LenProperties, EmptySeq, ChainFacts
<1>3. Last(c) = block
  BY <1>1 DEF Last
<1>4. \A i \in DOMAIN c : c[i].pre = c[i].prev
  <2> SUFFICES ASSUME NEW i \in DOMAIN c PROVE c[i].pre = c[i].prev
    OBVIOUS
  <2>1. CASE i = Len(b) + 1
    BY <2>1, <1>1
  <2>2. CASE i # Len(b) + 1
    BY <2>2, <1>1, <1>2, ChainFacts, ChainOrder
  <2> QED BY <2>1, <2>2
<1>5. \A i, j \in DOMAIN c : i < j => c[i].height < c[j].height
  <2> SUFFICES ASSUME NEW i \in DOMAIN c, NEW j \in DOMAIN c, i < j
               PROVE  c[i].height < c[j].height
    OBVIOUS
  <2>1. i \in 1 .. Len(b) /\ c[i] = b[i] /\ Len(b) \in 1 .. Len(b)
    BY <1>1, <1>2, ChainFacts
  <2>2. CASE j # Len(b) + 1
    BY <2>1, <2>2, <1>1, <1>2, ChainFacts, ChainOrder
  <2>3. CASE j = Len(b) + 1
    <3>1. b[i].height <= b[Len(b)].height
      <4>1. b[i].height \in Int /\ b[Len(b)].height \in Int
        BY <2>1, ChainFacts, ChainOrder
      <4> QED BY <2>1, <4>1, ChainFacts, ChainOrder
    <3>2. b[i].height \in Int /\ b[Len(b)].height \in Int /\ block.height \in Int
      BY <2>1, ChainFacts DEF Block
    <3> QED BY <3>1, <3>2, <2>1, <2>3, <1>1, ChainFacts
  <2> QED BY <2>2, <2>3
<1> HIDE DEF c
<1>6. c \in Chains
  BY <1>1, <1>2, <1>4, <1>5 DEF Chains
<1> QED BY <1>3, <1>6 DEF c

(* What is left of a chain when one of its blocks is lost.                 *)
LEMMA RemoveChain ==
  ASSUME NEW b \in Chains, NEW i \in DOMAIN b, Len(b) > 1
  PROVE  RemoveAt(b, i) \in Chains
<1> DEFINE n == Len(b)
           l == SubSeq(b, 1, i - 1)
           r == SubSeq(b, i + 1, n)
           c == l \o r
<1>1. b \in Seq(Block) /\ n \in Nat /\ n > 1 /\ i \in 1 .. n /\ DOMAIN b = 1 .. n
  BY ChainFacts
<1>2. /\ l \in Seq(Block) /\ Len(l) = i - 1
      /\ \A j \in 1 .. i - 1 : l[j] = b[j]
  <2>1. 1 \in 1 .. n + 1 /\ i - 1 \in 0 .. n
    BY <1>1
  <2> QED BY <1>1, <2>1, SubSeqProperties
<1>3. /\ r \in Seq(Block) /\ Len(r) = n - i
      /\ \A j \in 1 .. n - i : r[j] = b[i + j]
  <2>1. i + 1 \in 1 .. n + 1 /\ n \in 0 .. n
    BY <1>1
  <2> QED BY <1>1, <2>1, SubSeqProperties
<1> HIDE DEF l, r
<1>4. /\ c \in Seq(Block) /\ Len(c) = n - 1
      /\ \A j \in 1 .. n - 1 : c[j] = IF j < i THEN b[j] ELSE b[j + 1]
  <2>1. /\ c \in Seq(Block) /\ Len(c) = Len(l) + Len(r)
        /\ \A j \in 1 .. Len(l) + Len(r) :
             c[j] = IF j <= Len(l) THEN l[j] ELSE r[j - Len(l)]
    BY <1>2, <1>3, ConcatProperties
  <2>2. ASSUME NEW j \in 1 .. n - 1
        PROVE  c[j] = IF j < i THEN b[j] ELSE b[j + 1]
    <3>1. CASE j < i
      BY <1>1, <1>2, <1>3, <2>1, <3>1
    <3>2. CASE ~(j < i)
      <4>1. j - (i - 1) \in 1 .. n - i /\ i + (j - (i - 1)) = j + 1
        BY <1>1, <3>2
      <4>2. c[j] = r[j - (i - 1)]
        BY <1>1, <1>2, <1>3, <2>1, <3>2
      <4> QED BY <4>1, <4>2, <1>3, <3>2
    <3> QED BY <3>1, <3>2
  <2> QED BY <1>1, <1>2, <1>3, <2>1, <2>2
<1> HIDE DEF c
<1>5. DOMAIN c = 1 .. n - 1 /\ c # << >>
  BY <1>1, <1>4, LenProperties, EmptySeq
<1>6. ASSUME NEW j \in DOMAIN c PROVE c[j].pre = c[j].prev
  <2>1. j \in DOMAIN b /\ j + 1 \in DOMAIN b
    BY <1>1, <1>5
  <2> QED BY <2>1, <1>4, <1>5, ChainOrder
<1>7. \A j, k \in DOMAIN c : j < k => c[j].height < c[k].height
  <2> SUFFICES ASSUME NEW j \in DOMAIN c, NEW k \in DOMAIN c, j < k
               PROVE  c[j].height < c[k].height
    OBVIOUS
  <2> DEFINE x(m) == IF m < i THEN m ELSE m + 1
  <2>1. x(j) \in 1 .. n /\ x(k) \in 1 .. n /\ x(j) < x(k)
    BY <1>1, <1>5
  <2>2. c[j] = b[x(j)] /\ c[k] = b[x(k)]
    BY <1>4, <1>5
  <2> QED BY <2>1, <2>2, <1>1 DEF Chains
<1>8. c \in Chains
  BY <1>4, <1>5, <1>6, <1>7 DEF Chains
<1> QED BY <1>8 DEF RemoveAt, c, l, r, n

(* A block that is damaged stays in its place.                             *)
LEMMA UnsoundChain ==
  ASSUME NEW b \in Chains, NEW i \in DOMAIN b
  PROVE  [b EXCEPT ![i].sound = FALSE] \in Chains
<1> DEFINE block == [b[i] EXCEPT !.sound = FALSE]
           c == [b EXCEPT ![i] = block]
<1>1. block \in Block /\ block.pre = b[i].pre /\ block.prev = b[i].prev
      /\ block.height = b[i].height
  BY ChainFacts DEF Block
<1> HIDE DEF block
<1>2. c \in Seq(Block) /\ Len(c) = Len(b)
      /\ \A j \in 1 .. Len(b) : c[j] = IF j = i THEN block ELSE b[j]
  BY <1>1, ChainFacts, ExceptSeq
<1> HIDE DEF c
<1>3. DOMAIN c = DOMAIN b /\ c # << >>
  BY <1>2, LenProperties, EmptySeq, ChainFacts
<1>4. \A j \in DOMAIN b : c[j].pre = b[j].pre /\ c[j].prev = b[j].prev
                           /\ c[j].height = b[j].height
  BY <1>1, <1>2, ChainFacts
<1>5. c \in Chains
  BY <1>2, <1>3, <1>4 DEF Chains
<1> QED BY <1>5 DEF c, block

(* The blocks of a chain up to the height of its latest are all of them.   *)
LEMMA UpToTip ==
  ASSUME NEW b \in Chains PROVE UpTo(b, Last(b).height) = b
<1> DEFINE n == CHOOSE i \in DOMAIN b : b[i].height = Last(b).height
<1>1. n \in DOMAIN b /\ b[n].height = b[Len(b)].height
  BY ChainFacts
<1> HIDE DEF n
<1>2. b[n].height \in Int /\ (n = Len(b) \/ b[n].height < b[Len(b)].height)
  BY <1>1, ChainOrder
<1>3. n = Len(b)
  BY <1>1, <1>2
<1>4. SubSeq(b, 1, n) = b
  BY <1>3, ChainFacts, SubSeqFull
<1> QED BY <1>4 DEF UpTo, n

(* Fields of a directory that are saved.                                   *)
LEMMA SavedDir ==
  ASSUME NEW d, NEW b, NEW tip, NEW core, NEW hist,
         d = [blocks |-> b, tip |-> tip, core |-> core, hist |-> hist]
  PROVE  /\ \A x : WithMeta(d, x) =
                 [blocks |-> b, tip |-> x, core |-> core, hist |-> hist]
         /\ \A x, y : WithLedger(d, x, y) =
                    [blocks |-> b, tip |-> tip, core |-> x, hist |-> y]
         /\ \A c : [d EXCEPT !.blocks = c] =
                 [blocks |-> c, tip |-> tip, core |-> core, hist |-> hist]
         /\ \A x : [d EXCEPT !.core = x] =
                 [blocks |-> b, tip |-> tip, core |-> x, hist |-> hist]
         /\ \A x : [d EXCEPT !.hist = x] =
                 [blocks |-> b, tip |-> tip, core |-> core, hist |-> x]
<1>1. \A x : WithMeta(d, x) = [blocks |-> b, tip |-> x, core |-> core, hist |-> hist]
  BY DEF WithMeta
<1>2. ASSUME NEW x, NEW y
      PROVE  WithLedger(d, x, y) = [blocks |-> b, tip |-> tip, core |-> x, hist |-> y]
  <2> DEFINE f == [d EXCEPT !.core = x]
  <2>1. f = [blocks |-> b, tip |-> tip, core |-> x, hist |-> hist]
    OBVIOUS
  <2>2. WithLedger(d, x, y) = [f EXCEPT !.hist = y]
    BY DEF WithLedger
  <2> HIDE DEF f
  <2> QED BY <2>1, <2>2
<1>3. \A c : [d EXCEPT !.blocks = c] =
          [blocks |-> c, tip |-> tip, core |-> core, hist |-> hist]
  OBVIOUS
<1>4. \A x : [d EXCEPT !.core = x] =
          [blocks |-> b, tip |-> tip, core |-> x, hist |-> hist]
  OBVIOUS
<1>5. \A x : [d EXCEPT !.hist = x] =
          [blocks |-> b, tip |-> tip, core |-> core, hist |-> x]
  OBVIOUS
<1> QED BY <1>1, <1>2, <1>3, <1>4, <1>5

LEMMA DirRecord ==
  /\ \A d \in Dirs :
       d = [blocks |-> d.blocks, tip |-> d.tip, core |-> d.core, hist |-> d.hist]
  /\ \A b \in Chains, tip \in Int, core \in Int, hist \in Int :
       [blocks |-> b, tip |-> tip, core |-> core, hist |-> hist] \in Dirs
BY DEF Dirs

LEMMA WholeType == Whole \in Puts
<1>1. << >> \in Seq(Block) /\ {} \in Lefts /\ Down \in Nodes
  BY DEF Lefts, Down, Nodes, None
<1>2. \A s \in Seq(Block), l \in Lefts, n \in Nodes :
        [block |-> s, left |-> l, after |-> n] \in Puts
  BY DEF Puts
<1> QED BY <1>1, <1>2 DEF Whole

LEMMA PutTypes ==
  ASSUME NEW block \in Block, NEW after \in Nodes
  PROVE  [block |-> <<block>>, left |-> {"meta", "ledger"}, after |-> after] \in Puts
<1>1. <<block>> \in Seq(Block)
  OBVIOUS
<1>2. {"meta", "ledger"} \in Lefts
  BY DEF Lefts
<1>3. \A s \in Seq(Block), l \in Lefts, n \in Nodes :
        [block |-> s, left |-> l, after |-> n] \in Puts
  BY DEF Puts
<1> QED BY <1>1, <1>2, <1>3

(* A block that is put: all of it, or in the JSON storage the block first. *)
LEMMA PutFacts ==
  ASSUME NEW d, NEW b, NEW tip \in Int, NEW core \in Int, NEW old \in Int,
         d = [blocks |-> b, tip |-> tip, core |-> core, hist |-> old],
         NEW block \in Block, NEW before \in Nodes, NEW after \in Nodes,
         Append(b, block) \in Chains, Last(Append(b, block)) = block,
         Put(d, block, before, after)
  PROVE  /\ dir' \in Dirs /\ Latest(dir') = block /\ put' \in Puts
         /\ \/ /\ backend = "sqlite" /\ put' = Whole /\ node' = after
               /\ dir'.tip = block.id /\ dir'.core = block.id
               /\ dir'.hist = after.hist
            \/ /\ backend = "json" /\ put' # Whole /\ node' = before
               /\ put'.block = <<block>> /\ put'.left = {"meta", "ledger"}
               /\ put'.after = after
<1> DEFINE c == Append(b, block)
           e == [d EXCEPT !.blocks = c]
<1>1. e = [blocks |-> c, tip |-> tip, core |-> core, hist |-> old]
  <2> HIDE DEF c
  <2> QED OBVIOUS
<1>2. [d EXCEPT !.blocks = Append(@, block)] = e
  OBVIOUS
<1>3. block.id \in Int /\ after.hist \in Int
  BY DEF Block, Nodes
<1> HIDE DEF c, e
<1>4. CASE backend = "sqlite" /\ PutSqlite(d, block, after)
  <2>1. WithMeta(e, block.id) =
          [blocks |-> c, tip |-> block.id, core |-> core, hist |-> old]
    BY <1>1, SavedDir
  <2>2. WithLedger(WithMeta(e, block.id), block.id, after.hist) =
          [blocks |-> c, tip |-> block.id, core |-> block.id, hist |-> after.hist]
    BY <2>1, SavedDir
  <2>3. dir' = [blocks |-> c, tip |-> block.id, core |-> block.id, hist |-> after.hist]
        /\ put' = Whole /\ node' = after
    BY <1>2, <1>4, <2>2 DEF PutSqlite
  <2>4. dir' \in Dirs
    BY <1>3, <2>3, DirRecord DEF c
  <2> QED BY <1>4, <2>3, <2>4, WholeType DEF Latest, c
<1>5. CASE backend = "json" /\ PutJson(d, block, before, after)
  <2>1. /\ dir' = e /\ node' = before
        /\ put' = [block |-> <<block>>, left |-> {"meta", "ledger"}, after |-> after]
    BY <1>2, <1>5 DEF PutJson
  <2>2. dir' \in Dirs /\ put' \in Puts
    BY <1>1, <2>1, DirRecord, PutTypes DEF c
  <2>3. put' # Whole
    BY <2>1 DEF Whole
  <2> QED BY <1>1, <1>5, <2>1, <2>2, <2>3 DEF Latest, c
<1> QED BY <1>4, <1>5 DEF Put

-----------------------------------------------------------------------------
(* The node.                                                               *)

LEMMA ChainInit == Init => ChainInv
<1> SUFFICES ASSUME Init PROVE ChainInv
  OBVIOUS
<1>1. /\ dir = NoDir /\ node = Down /\ put = Whole /\ mined = 0 /\ zips = {}
      /\ copy = NoDir
      /\ restore = [step |-> "idle", stage |-> NoDir, force |-> FALSE]
      /\ tool = [step |-> "idle", snap |-> NoDir, to |-> 0]
      /\ report = [kind |-> "none", ok |-> FALSE, snap |-> NoDir]
      /\ history = [started |-> FALSE, left |-> {}, failedLate |-> FALSE,
                    repaired |-> "no"]
  BY DEF Init
<1>2. NodeTypes
  BY <1>1, WholeType DEF NodeTypes, MaybeDirs, Nodes, Down, None
<1>3. ToolTypes
  BY <1>1 DEF ToolTypes, MaybeDirs
<1>4. Turns /\ WriteInv /\ MemoryInv
  BY <1>1 DEF Turns, WriteInv, MemoryInv, Down
<1>5. NothingIsLost /\ ReportsAreTrue /\ RepairHolds
  BY <1>1 DEF NothingIsLost, ReportsAreTrue, RepairHolds
<1> QED BY <1>2, <1>3, <1>4, <1>5 DEF ChainInv, FilesInv

LEMMA StartFreshKeeps == ASSUME ChainInv, StartFresh PROVE ChainInv'
<1> DEFINE d == [blocks |-> << >>, tip |-> None, core |-> 0, hist |-> 0]
           new == [up |-> TRUE, tip |-> 0, core |-> 0, hist |-> 0, paused |-> FALSE]
<1>1. /\ ~node.up /\ dir = NoDir /\ restore.step = "idle"
      /\ Put(d, Genesis, new, new)
      /\ history' = [history EXCEPT !.started = TRUE]
      /\ UNCHANGED <<backend, mode, mined, Tools, budget>>
  BY DEF StartFresh
<1>2. /\ Genesis \in Block /\ Genesis.id = 0 /\ Genesis.pre = Genesis.prev
      /\ Genesis.height = 0
  BY DEF Genesis, Block, None
<1>3. Append(<< >>, Genesis) \in Chains /\ Last(Append(<< >>, Genesis)) = Genesis
  <2>1. Append(<< >>, Genesis) = <<Genesis>>
    OBVIOUS
  <2>2. <<Genesis>> \in Seq(Block) /\ DOMAIN <<Genesis>> = {1} /\ Len(<<Genesis>>) = 1
        /\ <<Genesis>> # << >>
    BY <1>2
  <2>3. \A i \in DOMAIN <<Genesis>> : <<Genesis>>[i] = Genesis
    BY <2>2
  <2>4. \A i, j \in DOMAIN <<Genesis>> : ~(i < j)
    BY <2>2
  <2>5. <<Genesis>> \in Chains
    BY <1>2, <2>2, <2>3, <2>4 DEF Chains
  <2> QED BY <2>1, <2>2, <2>3, <2>5 DEF Last
<1>3a. new \in Nodes /\ new.up /\ Has(new, Genesis)
  BY <1>2 DEF Nodes, Has
<1>4. /\ dir' \in Dirs /\ Latest(dir') = Genesis /\ put' \in Puts /\ node' = new
      /\ \/ /\ backend = "sqlite" /\ put' = Whole /\ dir'.tip = 0 /\ dir'.core = 0
         \/ /\ backend = "json" /\ put' # Whole
            /\ put'.block = <<Genesis>> /\ put'.left = {"meta", "ledger"}
            /\ put'.after = new
  <2>1. None \in Int /\ 0 \in Int
    BY DEF None
  <2> HIDE DEF d, new
  <2> QED BY <1>1, <1>2, <1>3, <1>3a, <2>1, PutFacts DEF d
<1>4a. new.hist = new.core
  OBVIOUS
<1>4b. backend = "sqlite" => dir'.hist = dir'.core
  <2>1. WithLedger(WithMeta([d EXCEPT !.blocks = Append(@, Genesis)], Genesis.id),
                   Genesis.id, new.hist).hist = 0
    BY DEF WithLedger, WithMeta
  <2>2. ASSUME backend = "sqlite" PROVE dir'.hist = 0
    BY <1>1, <2>1, <2>2 DEF Put, PutSqlite
  <2> QED BY <1>4, <2>2
<1> HIDE DEF d, new
<1>5. dir' # NoDir
  BY <1>4, DirFacts
<1>6. NodeTypes'
  BY <1>1, <1>3a, <1>4 DEF NodeTypes, MaybeDirs, ChainInv, FilesInv
<1>7. history' = [started |-> TRUE, left |-> history.left,
                  failedLate |-> history.failedLate, repaired |-> history.repaired]
      /\ history'.left \in SUBSET MaybeDirs /\ history'.failedLate \in BOOLEAN
      /\ history'.repaired \in {"no", "alone", "beside a node"}
  BY <1>1 DEF ChainInv, FilesInv, ToolTypes
<1>8. ToolTypes'
  BY <1>1, <1>7 DEF ToolTypes, Tools, ChainInv, FilesInv
<1>9. Turns'
  BY <1>1, <1>5, <1>7 DEF Turns, Tools, ChainInv, FilesInv
<1>10. WriteInv' /\ MemoryInv'
  BY <1>1, <1>2, <1>3a, <1>4 DEF WriteInv, MemoryInv, Has
<1>11. NothingIsLost' /\ RepairHolds'
  BY <1>1, <1>4, <1>4a, <1>4b, <1>5, <1>7 DEF NothingIsLost, RepairHolds, ChainInv,
     FilesInv, Turns
<1>12. ReportsAreTrue'
  BY <1>1 DEF ReportsAreTrue, Tools, ChainInv
<1> QED BY <1>6, <1>8, <1>9, <1>10, <1>11, <1>12 DEF ChainInv, FilesInv

(* What a step of the node has to keep when the tools do nothing.          *)
LEMMA NodeStep ==
  ASSUME ChainInv, UNCHANGED <<backend, Tools, history>>,
         NodeTypes', node'.up => dir' # NoDir, dir # NoDir => dir' # NoDir,
         restore.step # "idle" => ~node'.up,
         WriteInv', MemoryInv', RepairHolds'
  PROVE  ChainInv'
<1>1. ToolTypes'
  BY DEF ToolTypes, Tools, ChainInv, FilesInv
<1>2. Turns'
  BY DEF Turns, Tools, ChainInv, FilesInv
<1>3. NothingIsLost' /\ ReportsAreTrue'
  BY DEF NothingIsLost, ReportsAreTrue, Tools, ChainInv
<1> QED BY <1>1, <1>2, <1>3 DEF ChainInv, FilesInv

LEMMA NodeFacts ==
  ASSUME ChainInv
  PROVE  /\ node.up \in BOOLEAN /\ node.paused \in BOOLEAN
         /\ node.tip \in Int /\ node.core \in Int /\ node.hist \in Int
         /\ put \in Puts /\ mined \in Int
         /\ dir # NoDir => dir \in Dirs
         /\ node.up => dir \in Dirs /\ restore.step = "idle"
BY DEF ChainInv, FilesInv, NodeTypes, Nodes, Turns, MaybeDirs

(* Only a node that runs has a write to go on with.                        *)
LEMMA DownIsWhole == ChainInv /\ ~node.up => put = Whole
BY DEF ChainInv, FilesInv, WriteInv

LEMMA AuditMeans ==
  ASSUME NEW b \in Chains, NEW tip, NEW core, AuditOk(b, tip, core)
  PROVE  Structure(b) /\ tip = Last(b).id /\ core = Last(b).id
BY ChainFacts DEF AuditOk

LEMMA StartKeeps == ASSUME ChainInv, Start PROVE ChainInv'
<1> DEFINE tip == LoadedTip(dir)
<1>1. /\ ~node.up /\ dir # NoDir /\ restore.step = "idle"
      /\ dir' = WithMeta(dir, tip)
      /\ node' = [up |-> TRUE, tip |-> tip, core |-> dir.core, hist |-> dir.hist,
                 paused |-> ~AuditOk(dir.blocks, tip, dir.core)]
      /\ UNCHANGED <<backend, mode, put, mined, Tools, budget, history>>
  BY DEF Start
<1>2. dir \in Dirs /\ put = Whole
  BY <1>1, NodeFacts, DownIsWhole
<1>3. tip \in Int
  BY <1>2, DirFacts DEF LoadedTip, Block
<1> HIDE DEF tip
<1>4. /\ dir' \in Dirs /\ dir'.blocks = dir.blocks /\ dir'.tip = tip
      /\ dir'.core = dir.core /\ dir'.hist = dir.hist
  <2>1. dir' = [blocks |-> dir.blocks, tip |-> tip, core |-> dir.core, hist |-> dir.hist]
    BY <1>1, <1>2, DirRecord, SavedDir
  <2> QED BY <1>2, <1>3, <2>1, DirFacts, DirRecord
<1>5. Latest(dir') = Latest(dir) /\ dir' # NoDir
  BY <1>4, DirFacts DEF Latest
<1>6. NodeTypes'
  BY <1>1, <1>2, <1>3, <1>4, DirFacts, NodeFacts DEF NodeTypes, Nodes, MaybeDirs
<1>7. WriteInv'
  BY <1>1, <1>2 DEF WriteInv
<1>8. MemoryInv'
  <2> SUFFICES ASSUME ~node'.paused
               PROVE  tip = Latest(dir).id /\ dir.core = Latest(dir).id
    BY <1>1, <1>4, <1>5 DEF MemoryInv, Has
  <2>1. AuditOk(dir.blocks, tip, dir.core)
    BY <1>1
  <2> QED BY <1>2, <2>1, AuditMeans, DirFacts DEF Latest
<1>9. RepairHolds'
  BY <1>1, <1>2, <1>4 DEF RepairHolds, ChainInv
<1> QED BY <1>1, <1>5, <1>6, <1>7, <1>8, <1>9, NodeStep

LEMMA CrashKeeps == ASSUME ChainInv, Crash PROVE ChainInv'
<1>1. /\ node.up /\ node' = Down /\ put' = Whole
      /\ UNCHANGED <<backend, mode, dir, mined, Tools, history>>
  BY DEF Crash
<1>2. Down \in Nodes /\ ~Down.up
  BY DEF Down, Nodes, None
<1>3. NodeTypes'
  BY <1>1, <1>2, WholeType DEF NodeTypes, ChainInv, FilesInv
<1>4. WriteInv' /\ MemoryInv'
  BY <1>1, <1>2 DEF WriteInv, MemoryInv
<1>5. RepairHolds'
  <2> SUFFICES ASSUME history.repaired = "alone", dir # NoDir PROVE dir.hist = dir.core
    BY <1>1, <1>2 DEF RepairHolds
  <2>1. put = Whole
    BY DEF ChainInv, FilesInv, Turns, WriteInv
  <2> QED BY <2>1 DEF RepairHolds, ChainInv
<1> QED BY <1>1, <1>2, <1>3, <1>4, <1>5, NodeStep

(* A block that follows the latest stored one, and is computed from the    *)
(* state after it, is put; the node has it in memory then or afterwards.   *)
LEMMA BlockKeeps ==
  ASSUME ChainInv, node.up, put = Whole, NEW block \in Block,
         NEW before \in Nodes, NEW after \in Nodes,
         block.pre = block.prev, block.height = Latest(dir).height + 1,
         before.up, after.up, Has(after, block), after.hist = HistAfter(block.id),
         mode = "producer" \/ Lags(before, block),
         Put(dir, block, before, after),
         mined' \in Int, UNCHANGED <<backend, mode, Tools, history>>
  PROVE  ChainInv'
<1>1. dir \in Dirs /\ restore.step = "idle"
  BY NodeFacts
<1>2. Append(dir.blocks, block) \in Chains /\ Last(Append(dir.blocks, block)) = block
  <2>1. dir.blocks \in Chains /\ Latest(dir) \in Block
    BY <1>1, DirFacts
  <2>2. block.height > Last(dir.blocks).height
    BY <2>1 DEF Latest, Block
  <2> QED BY <2>1, <2>2, AppendChain
<1>3. /\ dir' \in Dirs /\ Latest(dir') = block /\ put' \in Puts
      /\ \/ /\ backend = "sqlite" /\ put' = Whole /\ node' = after
            /\ dir'.tip = block.id /\ dir'.core = block.id
            /\ dir'.hist = after.hist
         \/ /\ backend = "json" /\ put' # Whole /\ node' = before
            /\ put'.block = <<block>> /\ put'.left = {"meta", "ledger"}
            /\ put'.after = after
  BY <1>1, <1>2, DirRecord, DirFacts, PutFacts
<1>4. dir' # NoDir
  BY <1>3, DirFacts
<1>5. NodeTypes'
  BY <1>3 DEF NodeTypes, MaybeDirs
<1>6. WriteInv'
  BY <1>3 DEF WriteInv
<1>7. MemoryInv'
  BY <1>3 DEF MemoryInv, Has
<1>8. RepairHolds'
  <2> SUFFICES ASSUME history.repaired = "alone"
               PROVE  dir'.hist = dir'.core /\ node'.hist = node'.core
    BY DEF RepairHolds
  <2>1. backend = "sqlite" /\ node.hist = node.core
    BY DEF ChainInv, FilesInv, Turns, RepairHolds
  <2>2. after.hist = block.id
    BY <2>1 DEF HistAfter
  <2> QED BY <2>1, <2>2, <1>3 DEF Has
<1> QED BY <1>1, <1>3, <1>4, <1>5, <1>6, <1>7, <1>8, NodeStep

(* The memory of a node with a block.                                      *)
LEMMA WithFacts ==
  ASSUME ChainInv, node.up, NEW id \in Int, NEW paused \in BOOLEAN
  PROVE  LET after == [With(id) EXCEPT !.paused = paused]
         IN  /\ With(id) \in Nodes /\ With(id).up
             /\ With(id).tip = id /\ With(id).core = id
             /\ With(id).hist = HistAfter(id)
             /\ after \in Nodes /\ after.up /\ after.tip = id /\ after.core = id
             /\ after.hist = HistAfter(id)
<1> DEFINE hist == HistAfter(id)
<1>1. node \in Nodes /\ hist \in Int
  BY NodeFacts DEF HistAfter, None, ChainInv, FilesInv, NodeTypes
<1> HIDE DEF hist
<1>2. With(id) = [node EXCEPT !.tip = id, !.core = id, !.hist = hist]
  BY DEF With, hist
<1>3. /\ With(id) \in Nodes /\ With(id).up
      /\ With(id).tip = id /\ With(id).core = id /\ With(id).hist = hist
  BY <1>1, <1>2 DEF Nodes
<1> QED BY <1>3 DEF Nodes, hist

LEMMA MineKeeps == ASSUME ChainInv, Mine PROVE ChainInv'
<1> DEFINE id == mined + 1
           block == [id |-> id, height |-> Latest(dir).height + 1,
                     prev |-> Latest(dir).id, pre |-> node.core, sound |-> TRUE]
<1>1. /\ node.up /\ ~node.paused /\ put = Whole /\ mode = "producer"
      /\ Put(dir, block, With(id), With(id))
      /\ mined' = id
      /\ UNCHANGED <<backend, mode, Tools, budget, history>>
  BY DEF Mine
<1>2. dir \in Dirs /\ mined \in Int /\ node.core \in Int
  BY <1>1, NodeFacts
<1>3. Latest(dir).height \in Int /\ Latest(dir).id \in Int
  BY <1>2, DirFacts DEF Block
<1>4. node.core = Latest(dir).id
  BY <1>1 DEF MemoryInv, Has, ChainInv, FilesInv
<1>5. /\ block \in Block /\ block.id = id /\ block.pre = block.prev
      /\ block.height = Latest(dir).height + 1
  BY <1>2, <1>3, <1>4 DEF Block
<1>6. /\ With(id) \in Nodes /\ With(id).up /\ With(id).hist = HistAfter(id)
      /\ With(id).tip = id /\ With(id).core = id
  <2>1. id \in Int /\ TRUE \in BOOLEAN
    BY <1>2
  <2> HIDE DEF id
  <2> QED BY <1>1, <2>1, WithFacts
<1>7. Has(With(id), block)
  BY <1>5, <1>6 DEF Has
<1>8. mined' \in Int
  BY <1>1, <1>2
<1> HIDE DEF block, id
<1> QED BY <1>1, <1>5, <1>6, <1>7, <1>8, BlockKeeps

(* The block an observer asks for.                                         *)
LEMMA AskedFacts ==
  ASSUME ChainInv, Offered
  PROVE  /\ node.up /\ put = Whole /\ mode = "observer"
         /\ dir \in Dirs /\ mined \in Int /\ node.tip \in Int
         /\ Asked \in Block /\ Asked.pre = Asked.prev /\ Asked.id = node.tip + 1
         /\ Asked.prev = node.tip /\ node.core = node.tip
<1>1. node.up /\ put = Whole /\ mode = "observer" /\ Asked.pre = node.core
  BY DEF Offered
<1>2. dir \in Dirs /\ mined \in Int /\ node.tip \in Int
  BY <1>1, NodeFacts
<1> QED BY <1>1, <1>2 DEF Asked, NodeHeight, Block

LEMMA ApplyKeeps == ASSUME ChainInv, Apply PROVE ChainInv'
<1> DEFINE id == Asked.id
           ok == AuditOk(Append(dir.blocks, Asked), id, id)
           before == [node EXCEPT !.paused = FALSE]
           after == [With(id) EXCEPT !.paused = ~ok]
<1>1. /\ Offered /\ Follows(Asked, Latest(dir))
      /\ Put(dir, Asked, before, after)
      /\ UNCHANGED <<backend, mode, mined, Tools, budget, history>>
  BY DEF Apply
<1>2. /\ node.up /\ put = Whole /\ id \in Int /\ node \in Nodes
      /\ node.tip # id /\ Asked \in Block /\ Asked.pre = Asked.prev /\ mined' \in Int
      /\ Asked.prev = node.tip /\ node.core = node.tip
  BY <1>1, AskedFacts DEF ChainInv, FilesInv, NodeTypes
<1>3. Asked.height = Latest(dir).height + 1
  BY <1>1 DEF Follows
<1>4. before \in Nodes /\ before.up /\ before.tip = node.tip /\ before.core = node.core
  BY <1>2 DEF Nodes
<1>5. Lags(before, Asked)
  BY <1>2, <1>4 DEF Lags
<1>6. PICK paused \in BOOLEAN : paused = ~ok
  OBVIOUS
<1>7. after = [With(id) EXCEPT !.paused = paused]
  BY <1>6
<1> HIDE DEF ok, before, after, id
<1>8. /\ after \in Nodes /\ after.up /\ after.tip = id /\ after.core = id
      /\ after.hist = HistAfter(id)
  BY <1>2, <1>7, WithFacts
<1>9. Has(after, Asked) /\ after.hist = HistAfter(Asked.id)
  BY <1>8 DEF Has, id
<1> QED BY <1>1, <1>2, <1>3, <1>4, <1>5, <1>8, <1>9, BlockKeeps

LEMMA RefuseKeeps == ASSUME ChainInv, Refuse PROVE ChainInv'
<1>1. /\ Offered /\ node' = [node EXCEPT !.paused = TRUE]
      /\ UNCHANGED <<backend, mode, dir, put, mined, Tools, budget, history>>
  BY DEF Refuse
<1>2. node.up /\ put = Whole /\ node \in Nodes /\ dir # NoDir /\ restore.step = "idle"
  BY <1>1, AskedFacts, NodeFacts, DirFacts DEF ChainInv, FilesInv, NodeTypes
<1>3. /\ node' \in Nodes /\ node'.up /\ node'.paused /\ node'.tip = node.tip
      /\ node'.core = node.core /\ node'.hist = node.hist
  BY <1>1, <1>2 DEF Nodes
<1>4. NodeTypes' /\ WriteInv'
  BY <1>1, <1>2, <1>3 DEF NodeTypes, WriteInv, ChainInv, FilesInv
<1>5. MemoryInv'
  BY <1>1, <1>2, <1>3 DEF MemoryInv, Has, ChainInv, FilesInv
<1>6. RepairHolds'
  BY <1>1, <1>2, <1>3 DEF RepairHolds, ChainInv
<1> QED BY <1>1, <1>2, <1>4, <1>5, <1>6, NodeStep

LEMMA PutThrowsKeeps == ASSUME ChainInv, PutThrows PROVE ChainInv'
<1>1. mode = "observer" /\ UNCHANGED <<backend, mode, dir, mined, Tools, history>>
  BY DEF PutThrows
<1>2. CASE /\ Offered /\ Follows(Asked, Latest(dir))
           /\ node' = [node EXCEPT !.paused = FALSE]
           /\ UNCHANGED put
  <2>1. /\ node.up /\ put = Whole /\ node \in Nodes /\ dir # NoDir
        /\ restore.step = "idle"
    BY <1>2, AskedFacts, NodeFacts, DirFacts DEF ChainInv, FilesInv, NodeTypes
  <2>2. /\ node' \in Nodes /\ node'.up /\ node'.tip = node.tip
        /\ node'.core = node.core /\ node'.hist = node.hist
    BY <1>2, <2>1 DEF Nodes
  <2>3. Has(node, Latest(dir))
    BY <1>2, AskedFacts DEF Follows, Has
  <2>4. NodeTypes' /\ WriteInv'
    BY <1>1, <1>2, <2>1, <2>2 DEF NodeTypes, WriteInv, ChainInv, FilesInv
  <2>5. MemoryInv'
    BY <1>1, <1>2, <2>1, <2>2, <2>3 DEF MemoryInv, Has, ChainInv, FilesInv
  <2>6. RepairHolds'
    BY <1>1, <1>2, <2>1, <2>2 DEF RepairHolds, ChainInv
  <2> QED BY <1>1, <2>1, <2>4, <2>5, <2>6, NodeStep
<1>3. CASE /\ put # Whole /\ put.block[1].height > 0
           /\ put' = Whole /\ UNCHANGED node
  <2>1. /\ node.up /\ backend = "json" /\ dir # NoDir /\ restore.step = "idle"
        /\ Lags(node, Latest(dir))
    BY <1>1, <1>3, NodeFacts, DirFacts DEF WriteInv, ChainInv, FilesInv
  <2>2. NodeTypes' /\ WriteInv'
    BY <1>1, <1>3, WholeType DEF NodeTypes, WriteInv, ChainInv, FilesInv
  <2>3. MemoryInv'
    BY <1>1, <1>3, <2>1 DEF MemoryInv, Has, Lags
  <2>4. RepairHolds'
    BY <1>1, <2>1 DEF RepairHolds, ChainInv, FilesInv, Turns
  <2> QED BY <1>1, <1>3, <2>1, <2>2, <2>3, <2>4, NodeStep
<1> QED BY <1>2, <1>3 DEF PutThrows

LEMMA PutMetaKeeps == ASSUME ChainInv, PutMeta PROVE ChainInv'
<1>1. /\ "meta" \in put.left
      /\ dir' = WithMeta(dir, put.block[1].id)
      /\ put' = [put EXCEPT !.left = {"ledger"}]
      /\ UNCHANGED <<backend, mode, node, mined, Tools, budget, history>>
  BY DEF PutMeta
<1>2. put # Whole
  BY <1>1 DEF Whole
<1>3. /\ node.up /\ backend = "json" /\ put.block = <<Latest(dir)>>
      /\ dir \in Dirs /\ put \in Puts /\ put.block[1] = Latest(dir)
  BY <1>2, NodeFacts DEF ChainInv, FilesInv, WriteInv
<1>4. Latest(dir) \in Block /\ Latest(dir).id \in Int
  BY <1>3, DirFacts DEF Block
<1>5. /\ dir' \in Dirs /\ dir'.blocks = dir.blocks /\ dir'.tip = Latest(dir).id
      /\ dir' # NoDir
  <2>1. dir' = [blocks |-> dir.blocks, tip |-> Latest(dir).id, core |-> dir.core,
                hist |-> dir.hist]
    BY <1>1, <1>3, DirRecord, SavedDir
  <2> QED BY <1>3, <1>4, <2>1, DirFacts, DirRecord
<1>6. Latest(dir') = Latest(dir)
  BY <1>5 DEF Latest
<1>7. /\ put' = [block |-> put.block, left |-> {"ledger"}, after |-> put.after]
      /\ put' \in Puts
  <2>1. {"ledger"} \in Lefts
    BY DEF Lefts
  <2> QED BY <1>1, <1>3, <2>1 DEF Puts
<1>8. put' # Whole
  BY <1>7 DEF Whole
<1>9. NodeTypes' /\ WriteInv' /\ MemoryInv' /\ RepairHolds'
  BY <1>1, <1>2, <1>3, <1>5, <1>6, <1>7, <1>8
     DEF NodeTypes, MaybeDirs, WriteInv, MemoryInv, RepairHolds, ChainInv, FilesInv
<1>10. restore.step # "idle" => ~node'.up
  BY <1>1 DEF ChainInv, FilesInv, Turns
<1> QED BY <1>1, <1>5, <1>9, <1>10, NodeStep

LEMMA PutLedgerKeeps == ASSUME ChainInv, PutLedger PROVE ChainInv'
<1> DEFINE id == Latest(dir).id
           hist == put.after.hist
<1>1. /\ put.left = {"ledger"}
      /\ dir' = WithLedger(dir, put.block[1].id, hist)
      /\ node' = put.after /\ put' = Whole
      /\ UNCHANGED <<backend, mode, mined, Tools, budget, history>>
  BY DEF PutLedger
<1>2. put # Whole
  BY <1>1 DEF Whole
<1>3. /\ node.up /\ backend = "json" /\ put.block[1] = Latest(dir)
      /\ put.after \in Nodes /\ put.after.up /\ Has(put.after, Latest(dir))
      /\ dir.tip = id /\ dir \in Dirs /\ hist \in Int /\ restore.step = "idle"
  <2>1. put.left # {"meta", "ledger"}
    BY <1>1
  <2>2. put \in Puts
    BY NodeFacts
  <2> QED BY <1>2, <2>1, <2>2, NodeFacts DEF ChainInv, FilesInv, WriteInv, Puts, Nodes
<1>4. id \in Int
  BY <1>3, DirFacts DEF Block
<1>5. /\ dir' \in Dirs /\ dir'.blocks = dir.blocks /\ dir'.tip = id /\ dir'.core = id
      /\ dir' # NoDir
  <2> HIDE DEF id, hist
  <2>1. dir' = [blocks |-> dir.blocks, tip |-> dir.tip, core |-> id, hist |-> hist]
    BY <1>1, <1>3, DirRecord, SavedDir DEF id
  <2> QED BY <1>3, <1>4, <2>1, DirFacts, DirRecord
<1>6. Latest(dir') = Latest(dir)
  BY <1>5 DEF Latest
<1> HIDE DEF hist
<1>7. NodeTypes' /\ WriteInv' /\ MemoryInv'
  BY <1>1, <1>3, <1>5, <1>6, WholeType
     DEF NodeTypes, MaybeDirs, WriteInv, MemoryInv, Has, ChainInv, FilesInv
<1>8. RepairHolds'
  BY <1>1, <1>3 DEF RepairHolds, ChainInv, FilesInv, Turns
<1> QED BY <1>1, <1>3, <1>5, <1>7, <1>8, NodeStep

-----------------------------------------------------------------------------
(* Damage, and the tools.                                                  *)

(* What a step has to keep that leaves the node and its writes alone.      *)
LEMMA ToolStep ==
  ASSUME ChainInv, UNCHANGED <<Core>>, dir' \in MaybeDirs, node.up => dir' = dir,
         ToolTypes', Turns',
         NothingIsLost', ReportsAreTrue', RepairHolds'
  PROVE  ChainInv'
<1>1. NodeTypes'
  BY DEF NodeTypes, Core, ChainInv, FilesInv
<1>2. WriteInv' /\ MemoryInv'
  BY DEF WriteInv, MemoryInv, Core, ChainInv, FilesInv
<1> QED BY <1>1, <1>2 DEF ChainInv, FilesInv

LEMMA ToolFacts ==
  ASSUME ChainInv
  PROVE  /\ dir \in MaybeDirs /\ copy \in MaybeDirs
         /\ restore.step \in {"idle", "staged", "verified", "removed"}
         /\ restore.stage \in MaybeDirs /\ restore.force \in BOOLEAN
         /\ restore = [step |-> restore.step, stage |-> restore.stage,
                       force |-> restore.force]
         /\ tool.step \in {"idle", "full", "tip", "repair"}
         /\ tool.snap \in MaybeDirs /\ tool.to \in Int
         /\ tool = [step |-> tool.step, snap |-> tool.snap, to |-> tool.to]
         /\ history.left \in SUBSET MaybeDirs
         /\ history.started \in BOOLEAN /\ history.failedLate \in BOOLEAN
         /\ history.repaired \in {"no", "alone", "beside a node"}
         /\ history = [started |-> history.started, left |-> history.left,
                       failedLate |-> history.failedLate, repaired |-> history.repaired]
         /\ restore.step # "idle" => restore.stage \in Dirs /\ ~node.up /\ tool.step = "idle"
         /\ tool.step # "idle" => tool.snap \in Dirs /\ dir \in Dirs /\ restore.step = "idle"
BY DEF ChainInv, FilesInv, NodeTypes, ToolTypes, Turns, MaybeDirs

LEMMA DamageKeeps == ASSUME ChainInv, Damage PROVE ChainInv'
<1>1. /\ ~node.up /\ dir # NoDir /\ restore.step = "idle"
      /\ history' = [history EXCEPT !.repaired = "no"]
      /\ UNCHANGED <<backend, mode, node, put, mined, Tools>>
  BY DEF Damage
<1>2. dir \in Dirs /\ dir.blocks \in Chains
  BY <1>1, NodeFacts, DirFacts
<1>3. dir' \in Dirs
  <2>1. \A c \in Chains : [dir EXCEPT !.blocks = c] \in Dirs
    BY <1>2 DEF Dirs
  <2>2. CASE dir' = [dir EXCEPT !.hist = None] \/ dir' = [dir EXCEPT !.core = None]
    <3>1. None \in Int
      BY DEF None
    <3> QED BY <1>2, <2>2, <3>1 DEF Dirs
  <2>3. ASSUME NEW i \in DOMAIN dir.blocks, dir' = [dir EXCEPT !.blocks[i].sound = FALSE]
        PROVE  dir' \in Dirs
    <3> DEFINE c == [dir.blocks EXCEPT ![i].sound = FALSE]
    <3>1. dir' = [dir EXCEPT !.blocks = c] /\ c \in Chains
      BY <1>2, <2>3, UnsoundChain
    <3> QED BY <2>1, <3>1
  <2>4. ASSUME NEW i \in DOMAIN dir.blocks, Len(dir.blocks) > 1,
               dir' = [dir EXCEPT !.blocks = RemoveAt(@, i)]
        PROVE  dir' \in Dirs
    <3> DEFINE c == RemoveAt(dir.blocks, i)
    <3>1. dir' = [dir EXCEPT !.blocks = c] /\ c \in Chains
      BY <1>2, <2>4, RemoveChain
    <3> QED BY <2>1, <3>1
  <2> QED BY <2>2, <2>3, <2>4 DEF Damage
<1>4. dir' # NoDir /\ dir' \in MaybeDirs
  BY <1>3, DirFacts DEF MaybeDirs
<1>5. history' = [started |-> history.started, left |-> history.left,
                  failedLate |-> history.failedLate, repaired |-> "no"]
  BY <1>1, ToolFacts
<1>6. ToolTypes' /\ Turns'
  BY <1>1, <1>4, <1>5, ToolFacts DEF ToolTypes, Turns, Tools, ChainInv, FilesInv
<1>7. NothingIsLost' /\ ReportsAreTrue' /\ RepairHolds'
  BY <1>1, <1>4, <1>5 DEF NothingIsLost, ReportsAreTrue, RepairHolds, Tools, ChainInv
<1> QED BY <1>1, <1>4, <1>6, <1>7, ToolStep DEF Core, Tools

LEMMA BackupKeeps == ASSUME ChainInv, BackupSnapshot \/ BackupWrite PROVE ChainInv'
<1>1. UNCHANGED <<Core, dir, restore, tool, report, history>>
  BY DEF BackupSnapshot, BackupWrite
<1>2. copy' \in MaybeDirs /\ \A zip \in zips' : zip.content \in Dirs
  <2>1. CASE BackupSnapshot
    BY <2>1, ToolFacts DEF BackupSnapshot, ChainInv, FilesInv, ToolTypes
  <2>2. CASE BackupWrite
    <3>1. copy \in Dirs /\ copy' = NoDir
      BY <2>2, ToolFacts DEF BackupWrite, MaybeDirs
    <3>2. PICK complete \in BOOLEAN : zips' = zips \union {Archive(copy, complete)}
      BY <2>2 DEF BackupWrite
    <3>3. Archive(copy, complete).content = copy
      BY DEF Archive
    <3> QED BY <3>1, <3>2, <3>3 DEF ChainInv, FilesInv, ToolTypes, MaybeDirs
  <2> QED BY <2>1, <2>2
<1>3. ToolTypes' /\ Turns'
  BY <1>1, <1>2 DEF ToolTypes, Turns, Core, ChainInv, FilesInv
<1>4. NothingIsLost' /\ ReportsAreTrue' /\ RepairHolds'
  BY <1>1 DEF NothingIsLost, ReportsAreTrue, RepairHolds, Core, ChainInv
<1> QED BY <1>1, <1>3, <1>4, ToolFacts, ToolStep

(* Fields of the history that are set.                                     *)
LEMMA SetHistory ==
  ASSUME ChainInv
  PROVE  /\ \A x : [history EXCEPT !.repaired = x] =
                 [started |-> history.started, left |-> history.left,
                  failedLate |-> history.failedLate, repaired |-> x]
         /\ \A x : [history EXCEPT !.failedLate = x] =
                 [started |-> history.started, left |-> history.left,
                  failedLate |-> x, repaired |-> history.repaired]
         /\ \A x : [history EXCEPT !.left = x] =
                 [started |-> history.started, left |-> x,
                  failedLate |-> history.failedLate, repaired |-> history.repaired]
<1> DEFINE a == history.started
           b == history.left
           c == history.failedLate
           d == history.repaired
<1>1. history = [started |-> a, left |-> b, failedLate |-> c, repaired |-> d]
  BY ToolFacts
<1> HIDE DEF a, b, c, d
<1>2. \A x : [history EXCEPT !.repaired = x] =
          [started |-> a, left |-> b, failedLate |-> c, repaired |-> x]
  BY <1>1
<1>3. \A x : [history EXCEPT !.failedLate = x] =
          [started |-> a, left |-> b, failedLate |-> x, repaired |-> d]
  BY <1>1
<1>4. \A x : [history EXCEPT !.left = x] =
          [started |-> a, left |-> x, failedLate |-> c, repaired |-> d]
  BY <1>1
<1> QED BY <1>2, <1>3, <1>4 DEF a, b, c, d

(* What a step of a restore has to keep.                                   *)
LEMMA RestoreStep ==
  ASSUME ChainInv, UNCHANGED <<Core, zips, copy, tool, report>>,
         ~node.up, tool.step = "idle", dir' \in MaybeDirs,
         restore' \in [step : {"idle", "staged", "verified", "removed"},
                      stage : MaybeDirs, force : BOOLEAN],
         restore'.step # "idle" => restore'.stage # NoDir,
         NEW remains \in SUBSET MaybeDirs, NEW late \in BOOLEAN, NEW repaired,
         history' = [started |-> history.started, left |-> remains,
                     failedLate |-> late, repaired |-> repaired],
         \/ repaired = "no"
         \/ repaired = history.repaired /\ dir' \in {dir, NoDir},
         dir' = NoDir => \/ restore'.step = "removed" \/ remains # {} \/ late
                         \/ ~history.started
  PROVE  ChainInv'
<1>1. history' \in [started : BOOLEAN, left : SUBSET MaybeDirs, failedLate : BOOLEAN,
                   repaired : {"no", "alone", "beside a node"}]
  BY ToolFacts
<1>2. /\ history'.started = history.started /\ history'.left = remains
      /\ history'.failedLate = late /\ history'.repaired = repaired
  OBVIOUS
<1>3. ToolTypes'
  BY <1>1 DEF ToolTypes, ChainInv, FilesInv
<1>4. Turns'
  BY <1>2 DEF Turns, Core, ChainInv, FilesInv
<1>5. NothingIsLost' /\ ReportsAreTrue'
  BY <1>2 DEF NothingIsLost, ReportsAreTrue, ChainInv
<1>6. RepairHolds'
  BY <1>2 DEF RepairHolds, Core, ChainInv
<1> QED BY <1>3, <1>4, <1>5, <1>6, ToolStep DEF Core

LEMMA RestoreStageKeeps == ASSUME ChainInv, RestoreStage PROVE ChainInv'
<1>1. /\ restore.step = "idle" /\ ~node.up /\ tool.step = "idle"
      /\ UNCHANGED <<Core, dir, zips, copy, tool, report, history>>
  BY DEF RestoreStage
<1>2. PICK zip \in zips, force \in BOOLEAN :
        restore' = [step |-> "staged", stage |-> zip.content, force |-> force]
  BY DEF RestoreStage
<1>3. zip.content \in Dirs /\ zip.content # NoDir
  BY DirFacts DEF ChainInv, FilesInv, ToolTypes
<1>4. restore' \in [step : {"idle", "staged", "verified", "removed"},
                   stage : MaybeDirs, force : BOOLEAN]
      /\ restore'.stage # NoDir
  BY <1>2, <1>3 DEF MaybeDirs
<1>5. dir = NoDir => history.left # {} \/ history.failedLate \/ ~history.started
  BY <1>1 DEF NothingIsLost, ChainInv
<1> QED BY <1>1, <1>4, <1>5, RestoreStep, ToolFacts

LEMMA RestoreVerifyKeeps == ASSUME ChainInv, RestoreVerify PROVE ChainInv'
<1>1. /\ restore.step = "staged"
      /\ \/ restore' = [restore EXCEPT !.step = "verified"]
         \/ restore' = [restore EXCEPT !.step = "idle", !.stage = NoDir]
      /\ UNCHANGED <<Core, dir, zips, copy, tool, report, history>>
  BY DEF RestoreVerify
<1>2. restore.stage \in Dirs /\ restore.stage # NoDir /\ ~node.up /\ tool.step = "idle"
  BY <1>1, ToolFacts, DirFacts
<1>3. /\ restore' \in [step : {"idle", "staged", "verified", "removed"},
                       stage : MaybeDirs, force : BOOLEAN]
      /\ restore'.step # "idle" => restore'.stage # NoDir
  BY <1>1, <1>2 DEF MaybeDirs, ChainInv, FilesInv, ToolTypes
<1>4. dir = NoDir => history.left # {} \/ history.failedLate \/ ~history.started
  BY <1>1 DEF NothingIsLost, ChainInv
<1> QED BY <1>1, <1>2, <1>3, <1>4, RestoreStep, ToolFacts

LEMMA RestoreRemoveKeeps == ASSUME ChainInv, RestoreRemove PROVE ChainInv'
<1>1. /\ restore.step = "verified" /\ dir' = NoDir
      /\ restore' = [restore EXCEPT !.step = "removed"]
      /\ UNCHANGED <<Core, zips, copy, tool, report, history>>
  BY DEF RestoreRemove
<1>2. restore.stage \in Dirs /\ restore.stage # NoDir /\ ~node.up /\ tool.step = "idle"
  BY <1>1, ToolFacts, DirFacts
<1>3. /\ restore' \in [step : {"idle", "staged", "verified", "removed"},
                       stage : MaybeDirs, force : BOOLEAN]
      /\ restore'.step = "removed" /\ restore'.stage # NoDir
  BY <1>1, <1>2 DEF MaybeDirs, ChainInv, FilesInv, ToolTypes
<1>4. dir' \in MaybeDirs
  BY <1>1 DEF MaybeDirs
<1> QED BY <1>1, <1>2, <1>3, <1>4, RestoreStep, ToolFacts

(* The ways a restore ends.                                                *)
LEMMA RestoreEnds ==
  ASSUME ChainInv, restore' = [restore EXCEPT !.step = "idle", !.stage = NoDir]
  PROVE  /\ restore' \in [step : {"idle", "staged", "verified", "removed"},
                          stage : MaybeDirs, force : BOOLEAN]
         /\ restore'.step = "idle"
BY DEF MaybeDirs, ChainInv, FilesInv, ToolTypes

LEMMA RestoreRenameKeeps == ASSUME ChainInv, RestoreRename PROVE ChainInv'
<1>1. /\ restore.step # "idle" /\ dir' = restore.stage
      /\ restore' = [restore EXCEPT !.step = "idle", !.stage = NoDir]
      /\ history' = [history EXCEPT !.repaired = "no"]
      /\ UNCHANGED <<Core, zips, copy, tool, report>>
  BY DEF RestoreRename
<1>2. dir' \in MaybeDirs /\ dir' # NoDir /\ ~node.up /\ tool.step = "idle"
  BY <1>1, ToolFacts, DirFacts
<1>3. history' = [started |-> history.started, left |-> history.left,
                  failedLate |-> history.failedLate, repaired |-> "no"]
  BY <1>1, SetHistory
<1> QED BY <1>1, <1>2, <1>3, RestoreEnds, RestoreStep, ToolFacts

LEMMA RestoreThrowsKeeps == ASSUME ChainInv, RestoreThrows PROVE ChainInv'
<1> DEFINE late == history.failedLate \/ dir' = NoDir
<1>1. /\ restore.step # "idle" /\ dir' \in {dir, NoDir}
      /\ restore' = [restore EXCEPT !.step = "idle", !.stage = NoDir]
      /\ history' = [history EXCEPT !.failedLate = late]
      /\ UNCHANGED <<Core, zips, copy, tool, report>>
  BY DEF RestoreThrows
<1>2. dir' \in MaybeDirs /\ ~node.up /\ tool.step = "idle"
  BY <1>1, ToolFacts DEF MaybeDirs
<1>3. PICK x \in BOOLEAN : x = late
  BY ToolFacts
<1>4. history' = [history EXCEPT !.failedLate = x]
  BY <1>1, <1>3
<1>5. dir' = NoDir => x
  BY <1>3
<1> HIDE DEF late
<1>6. history' = [started |-> history.started, left |-> history.left,
                  failedLate |-> x, repaired |-> history.repaired]
  BY <1>4, SetHistory
<1> QED BY <1>1, <1>2, <1>5, <1>6, RestoreEnds, RestoreStep, ToolFacts

LEMMA RestoreCrashKeeps == ASSUME ChainInv, RestoreCrash PROVE ChainInv'
<1> DEFINE remains == IF restore.step = "staged" THEN history.left
                   ELSE history.left \union {restore.stage}
<1>1. /\ restore.step # "idle" /\ dir' = dir
      /\ restore' = [restore EXCEPT !.step = "idle", !.stage = NoDir]
      /\ history' = [history EXCEPT !.left = remains]
      /\ UNCHANGED <<Core, zips, copy, tool, report>>
  BY DEF RestoreCrash
<1>2. ~node.up /\ tool.step = "idle" /\ remains \in SUBSET MaybeDirs
  BY <1>1, ToolFacts
<1>3. dir = NoDir => remains # {} \/ history.failedLate \/ ~history.started
  BY DEF NothingIsLost, ChainInv
<1> HIDE DEF remains
<1>4. history' = [started |-> history.started, left |-> remains,
                  failedLate |-> history.failedLate, repaired |-> history.repaired]
  BY <1>1, SetHistory
<1> QED BY <1>1, <1>2, <1>3, <1>4, RestoreEnds, RestoreStep, ToolFacts

LEMMA PinKeeps ==
  ASSUME ChainInv, NEW kind \in {"full", "tip", "repair"}, Pin(kind) PROVE ChainInv'
<1>1. /\ backend = "sqlite" /\ dir # NoDir
      /\ tool.step = "idle" /\ restore.step = "idle"
      /\ history' = IF kind # "repair" THEN history
                    ELSE [history EXCEPT !.repaired = "no"]
      /\ UNCHANGED <<Core, dir, zips, copy, restore, report>>
  BY DEF Pin
<1>2. PICK to \in {dir.blocks[i].height : i \in DOMAIN dir.blocks} :
        tool' = [step |-> kind, snap |-> dir, to |-> to]
  BY DEF Pin
<1>3. dir \in Dirs /\ dir.blocks \in Chains
  BY <1>1, ToolFacts, DirFacts DEF MaybeDirs
<1>4. PICK i \in DOMAIN dir.blocks : to = dir.blocks[i].height
  OBVIOUS
<1>5. to \in Int
  BY <1>3, <1>4, ChainOrder
<1>6. tool' \in [step : {"idle", "full", "tip", "repair"}, snap : MaybeDirs, to : Int]
  BY <1>2, <1>3, <1>5 DEF MaybeDirs
<1>7. /\ history' = [started |-> history.started, left |-> history.left,
                     failedLate |-> history.failedLate, repaired |-> history'.repaired]
      /\ history'.repaired = history.repaired \/ history'.repaired = "no"
  BY <1>1, ToolFacts, SetHistory
<1>8. ToolTypes'
  BY <1>1, <1>6, <1>7, ToolFacts DEF ToolTypes, ChainInv, FilesInv
<1>9. Turns'
  BY <1>1, <1>2, <1>4, <1>7 DEF Turns, Core, ChainInv, FilesInv
<1>10. NothingIsLost' /\ ReportsAreTrue' /\ RepairHolds'
  BY <1>1, <1>7 DEF NothingIsLost, ReportsAreTrue, RepairHolds, Core, ChainInv
<1> QED BY <1>1, <1>8, <1>9, <1>10, ToolFacts, ToolStep

(* A tool that has ended leaves the rest as it was.                        *)
LEMMA ToolEnds ==
  ASSUME ChainInv, UNCHANGED <<Core, dir, zips, copy, restore, history>>,
         tool' = [tool EXCEPT !.step = "idle", !.snap = NoDir], ReportsAreTrue'
  PROVE  ChainInv'
<1>1. tool' = [step |-> "idle", snap |-> NoDir, to |-> tool.to] /\ tool.to \in Int
  BY DEF ToolTypes, ChainInv, FilesInv
<1>2. ToolTypes' /\ Turns'
  BY <1>1 DEF ToolTypes, Turns, MaybeDirs, Core, ChainInv, FilesInv
<1>3. NothingIsLost' /\ RepairHolds'
  BY DEF NothingIsLost, RepairHolds, Core, ChainInv
<1> QED BY <1>2, <1>3, ToolFacts, ToolStep

(* What a replay of a pinned directory says is so.                         *)
LEMMA FullReport ==
  ASSUME NEW d \in Dirs, NEW to \in Int,
         \E i \in DOMAIN d.blocks : d.blocks[i].height = to
  PROVE  LET upTo == UpTo(d.blocks, to)
             snap == [d EXCEPT !.blocks = upTo]
             ok == HasGenesis(upTo) /\ Applies(upTo)
                     /\ (to = Latest(d).height => TipMatches(d))
         IN  /\ to = Latest(d).height =>
                  (ok <=> /\ Applies(snap.blocks)
                          /\ {snap.tip, snap.core, snap.hist} = {Latest(snap).id})
             /\ ok => \A i \in DOMAIN snap.blocks : snap.blocks[i].sound
<1> DEFINE upTo == UpTo(d.blocks, to)
           snap == [d EXCEPT !.blocks = upTo]
           ok == HasGenesis(upTo) /\ Applies(upTo)
                   /\ (to = Latest(d).height => TipMatches(d))
<1>1. d.blocks \in Chains
  BY DirFacts
<1>2. /\ snap.blocks = upTo /\ snap.tip = d.tip /\ snap.core = d.core
      /\ snap.hist = d.hist
  <2> HIDE DEF upTo
  <2> QED BY DirRecord
<1>3. ASSUME to = Latest(d).height
      PROVE  ok <=> /\ Applies(snap.blocks)
                    /\ {snap.tip, snap.core, snap.hist} = {Latest(snap).id}
  <2>1. upTo = d.blocks
    BY <1>1, <1>3, UpToTip DEF Latest
  <2>2. Latest(snap) = Latest(d)
    BY <1>2, <2>1 DEF Latest
  <2>3. Applies(upTo) => HasGenesis(upTo)
    <3>1. 1 \in DOMAIN upTo /\ upTo # << >>
      BY <1>1, <2>1, ChainFacts
    <3> QED BY <3>1 DEF Applies, Structure, HasGenesis
  <2>4. TipMatches(d) <=> {snap.tip, snap.core, snap.hist} = {Latest(snap).id}
    BY <1>2, <2>2 DEF TipMatches
  <2> QED BY <1>2, <1>3, <2>3, <2>4
<1>4. ok => \A i \in DOMAIN snap.blocks : snap.blocks[i].sound
  BY <1>2 DEF Applies, Structure
<1> QED BY <1>3, <1>4

LEMMA ReplayFullKeeps == ASSUME ChainInv, ReplayFull PROVE ChainInv'
<1> DEFINE d == tool.snap
           upTo == UpTo(d.blocks, tool.to)
           snap == [d EXCEPT !.blocks = upTo]
           tip == tool.to = Latest(d).height
           ok == HasGenesis(upTo) /\ Applies(upTo) /\ (tip => TipMatches(d))
<1>1. /\ tool.step = "full"
      /\ report' = [kind |-> IF tip THEN "full" ELSE "partial", ok |-> ok, snap |-> snap]
      /\ tool' = [tool EXCEPT !.step = "idle", !.snap = NoDir]
      /\ UNCHANGED <<Core, dir, zips, copy, restore, history>>
  BY DEF ReplayFull
<1>2. d \in Dirs /\ tool.to \in Int /\ \E i \in DOMAIN d.blocks : d.blocks[i].height = tool.to
  BY <1>1, ToolFacts DEF Turns, ChainInv, FilesInv
<1>3. /\ tip => (ok <=> /\ Applies(snap.blocks)
                       /\ {snap.tip, snap.core, snap.hist} = {Latest(snap).id})
      /\ ok => \A i \in DOMAIN snap.blocks : snap.blocks[i].sound
  BY <1>2, FullReport
<1> HIDE DEF tip, ok, snap
<1>4. /\ report'.kind = IF tip THEN "full" ELSE "partial"
      /\ report'.ok = ok /\ report'.snap = snap
  BY <1>1
<1>5. ReportsAreTrue'
  BY <1>3, <1>4 DEF ReportsAreTrue
<1> QED BY <1>1, <1>5, ToolEnds

LEMMA ReplayTipKeeps == ASSUME ChainInv, ReplayTip PROVE ChainInv'
<1>1. /\ report'.kind = "tip"
      /\ tool' = [tool EXCEPT !.step = "idle", !.snap = NoDir]
      /\ UNCHANGED <<Core, dir, zips, copy, restore, history>>
  BY DEF ReplayTip
<1>2. ReportsAreTrue'
  BY <1>1 DEF ReportsAreTrue
<1> QED BY <1>1, <1>2, ToolEnds

LEMMA RepairKeeps == ASSUME ChainInv, Repair PROVE ChainInv'
<1> DEFINE snap == tool.snap
           id == Latest(snap).id
           ok == Applies(snap.blocks) /\ snap.core = id
           how == IF node.up \/ dir.core # snap.core THEN "beside a node" ELSE "alone"
<1>1. /\ tool.step = "repair"
      /\ dir' = IF ok THEN [dir EXCEPT !.hist = id] ELSE dir
      /\ history' = IF ~ok THEN history ELSE [history EXCEPT !.repaired = how]
      /\ tool' = [tool EXCEPT !.step = "idle", !.snap = NoDir]
      /\ UNCHANGED <<Core, zips, copy, restore, report>>
  BY DEF Repair
<1>2. snap \in Dirs /\ dir \in Dirs /\ backend = "sqlite"
  BY <1>1, ToolFacts DEF Turns, ChainInv, FilesInv
<1>3. CASE ~ok
  <2>1. dir' = dir /\ history' = history
    BY <1>1, <1>3
  <2>2. ReportsAreTrue'
    BY <1>1 DEF ReportsAreTrue, ChainInv
  <2> QED BY <1>1, <2>1, <2>2, ToolEnds
<1>4. CASE ok
  <2>1. id \in Int /\ put = Whole
    BY <1>2, DirFacts DEF Block, Turns, WriteInv, ChainInv, FilesInv
  <2>2. /\ dir' = [blocks |-> dir.blocks, tip |-> dir.tip, core |-> dir.core, hist |-> id]
        /\ dir' \in Dirs /\ dir' # NoDir
    <3>0. dir' = [dir EXCEPT !.hist = id]
      BY <1>1, <1>4
    <3> HIDE DEF id, ok
    <3>1. dir' = [blocks |-> dir.blocks, tip |-> dir.tip, core |-> dir.core, hist |-> id]
      BY <3>0, <1>2, DirRecord, SavedDir
    <3> QED BY <1>2, <2>1, <3>1, DirFacts, DirRecord
  <2>3. history' = [started |-> history.started, left |-> history.left,
                    failedLate |-> history.failedLate, repaired |-> how]
    BY <1>1, <1>4, SetHistory
  <2>4. tool' = [step |-> "idle", snap |-> NoDir, to |-> tool.to] /\ tool.to \in Int
    BY <1>1 DEF ToolTypes, ChainInv, FilesInv
  <2>5. NodeTypes'
    BY <1>1, <2>2 DEF NodeTypes, MaybeDirs, Core, ChainInv, FilesInv
  <2>6. how \in {"no", "alone", "beside a node"}
    OBVIOUS
  <2>7. ToolTypes'
    BY <1>1, <2>3, <2>4, <2>6, ToolFacts DEF ToolTypes, MaybeDirs, ChainInv, FilesInv
  <2>8. Turns'
    BY <1>1, <1>2, <2>2, <2>4 DEF Turns, Core, ChainInv, FilesInv
  <2>9. WriteInv'
    BY <1>1, <2>1 DEF WriteInv, Core
  <2>10. MemoryInv'
    <3>1. Latest(dir') = Latest(dir) /\ dir'.tip = dir.tip /\ dir'.core = dir.core
      BY <2>2 DEF Latest
    <3> QED BY <1>1, <3>1 DEF MemoryInv, Has, Lags, Core, ChainInv, FilesInv
  <2>11. NothingIsLost' /\ ReportsAreTrue'
    BY <1>1, <2>2 DEF NothingIsLost, ReportsAreTrue, ChainInv
  <2>12. RepairHolds'
    <3> SUFFICES ASSUME history'.repaired = "alone"
                 PROVE  dir'.hist = dir'.core /\ ~node'.up
      BY DEF RepairHolds
    <3>1. how = "alone"
      BY <2>3
    <3>2. ~node.up /\ dir.core = snap.core
      BY <3>1
    <3> QED BY <1>1, <1>4, <2>2, <3>2 DEF Core
  <2> QED BY <2>5, <2>7, <2>8, <2>9, <2>10, <2>11, <2>12 DEF ChainInv, FilesInv
<1> QED BY <1>3, <1>4

-----------------------------------------------------------------------------
(* The node with its log.                                                  *)

LEMMA ChainStays == ChainInv /\ UNCHANGED vars => ChainInv'
<1> SUFFICES ASSUME ChainInv, UNCHANGED vars PROVE ChainInv'
  OBVIOUS
<1>1. UNCHANGED <<backend, mode, dir, node, put, mined, zips, copy, restore, tool,
          report, budget, history>>
  BY DEF vars
<1>2. NodeTypes'
  BY <1>1 DEF ChainInv, FilesInv, NodeTypes
<1>3. ToolTypes'
  BY <1>1 DEF ChainInv, FilesInv, ToolTypes
<1>4. Turns'
  BY <1>1 DEF ChainInv, FilesInv, Turns
<1>5. WriteInv'
  BY <1>1 DEF ChainInv, FilesInv, WriteInv
<1>6. MemoryInv'
  BY <1>1 DEF ChainInv, FilesInv, MemoryInv
<1>7. NothingIsLost' /\ ReportsAreTrue' /\ RepairHolds'
  BY <1>1 DEF ChainInv, NothingIsLost, ReportsAreTrue, RepairHolds
<1> QED BY <1>2, <1>3, <1>4, <1>5, <1>6, <1>7 DEF ChainInv, FilesInv

LEMMA OthersKeep == ASSUME ChainInv, Others PROVE ChainInv'
<1>1. CASE Crash \/ Mine \/ Apply \/ Refuse \/ PutThrows \/ PutMeta \/ PutLedger
  BY <1>1, CrashKeeps, MineKeeps, ApplyKeeps, RefuseKeeps, PutThrowsKeeps,
     PutMetaKeeps, PutLedgerKeeps
<1>2. CASE Damage \/ BackupSnapshot \/ BackupWrite
  BY <1>2, DamageKeeps, BackupKeeps
<1>3. CASE \/ RestoreStage \/ RestoreVerify \/ RestoreRemove \/ RestoreRename
           \/ RestoreThrows \/ RestoreCrash
  BY <1>3, RestoreStageKeeps, RestoreVerifyKeeps, RestoreRemoveKeeps,
     RestoreRenameKeeps, RestoreThrowsKeeps, RestoreCrashKeeps
<1>4. CASE \E kind \in {"full", "tip", "repair"} : Pin(kind)
  BY <1>4, PinKeeps
<1>5. CASE ReplayFull \/ ReplayTip \/ Repair
  BY <1>5, ReplayFullKeeps, ReplayTipKeeps, RepairKeeps
<1> QED BY <1>1, <1>2, <1>3, <1>4, <1>5 DEF Others

LEMMA ChainStep == ChainInv /\ [NodeNext]_allVars => ChainInv'
<1> SUFFICES ASSUME ChainInv, [NodeNext]_allVars PROVE ChainInv'
  OBVIOUS
<1>1. CASE StartNode
  BY <1>1, StartFreshKeeps, StartKeeps DEF StartNode
<1>2. CASE Logs
  BY <1>2, ChainStays DEF Logs
<1>3. CASE Others
  BY <1>3, OthersKeep
<1>4. CASE UNCHANGED allVars
  BY <1>4, ChainStays DEF allVars
<1> QED BY <1>1, <1>2, <1>3, <1>4 DEF NodeNext

(* The files of a node keep together: what is stored, what a node has in   *)
(* memory and what the tools hold.                                         *)
THEOREM FilesKeepTogether == NodeSpec => []ChainInv
<1>1. NodeInit => ChainInv
  BY ChainInit DEF NodeInit
<1> QED BY <1>1, ChainStep, PTL DEF NodeSpec

LEMMA NotTorn == ChainInv => NothingIsBuiltOnTorn
<1> SUFFICES ASSUME ChainInv PROVE NothingIsBuiltOnTorn
  OBVIOUS
<1>1. \A i \in DOMAIN dir.blocks : dir.blocks[i].pre = dir.blocks[i].prev
  <2>1. CASE dir = NoDir
    <3>1. DOMAIN dir.blocks = {}
      BY <2>1 DEF NoDir
    <3> QED BY <3>1
  <2>2. CASE dir \in Dirs
    BY <2>2, DirFacts, ChainOrder
  <2> QED BY <2>1, <2>2, ToolFacts DEF MaybeDirs
<1>2. ASSUME MayBuild
      PROVE  /\ node.tip = Latest(dir).id /\ node.core = Latest(dir).id
             /\ dir.tip = node.tip /\ dir.core = node.core
  <2>1. Has(node, Latest(dir))
    <3>1. CASE mode = "producer" /\ ~node.paused
      BY <1>2, <3>1 DEF MayBuild, MemoryInv, ChainInv, FilesInv
    <3>2. CASE Offered /\ Follows(Asked, Latest(dir))
      BY <3>2, AskedFacts DEF Follows, Has
    <3> QED BY <1>2, <3>1, <3>2 DEF MayBuild
  <2> QED BY <1>2, <2>1 DEF MayBuild, MemoryInv, Has, ChainInv, FilesInv
<1>3. ASSUME node.up, ~node.paused, put = Whole
      PROVE  /\ node.core = node.tip
             /\ \/ node.tip = Latest(dir).id
                \/ mode = "observer" /\ node.tip = Latest(dir).prev
  BY <1>3 DEF MemoryInv, Has, Lags, ChainInv, FilesInv
<1> QED BY <1>1, <1>2, <1>3 DEF NothingIsBuiltOnTorn

(* Whatever a crash or a failed write left half written, no stored block   *)
(* was computed from another state than that of the block before it, a     *)
(* node that may go on with a block has in memory what is stored, and an   *)
(* observer that lags behind its files stores no other block               *)
(* (blockchain.js and its storages).                                       *)
THEOREM NothingIsEverBuiltOnTorn == NodeSpec => []NothingIsBuiltOnTorn
BY FilesKeepTogether, NotTorn, PTL

(* A directory that held a chain is gone only while a restore replaces it  *)
(* or after that failed, and a crash leaves the stage (backup.js).         *)
THEOREM NothingIsEverLost == NodeSpec => []NothingIsLost
<1>1. ChainInv => NothingIsLost
  BY DEF ChainInv
<1> QED BY <1>1, FilesKeepTogether, PTL

LEMMA ToolsFit == ChainInv => ToolsAreTrue
<1> SUFFICES ASSUME ChainInv PROVE ToolsAreTrue
  OBVIOUS
<1>1. StorageTypeOK
  BY ToolFacts, DirFacts DEF StorageTypeOK, ChainInv, FilesInv, Turns, WriteInv, ToolTypes
<1> QED BY <1>1 DEF ToolsAreTrue, ChainInv

(* The reports of replays are exact for what was pinned, and a history     *)
(* that was repaired alone stays exact (replay.js,                         *)
(* balanceHistoryRepair.js).                                               *)
THEOREM ToolsAreAlwaysTrue == NodeSpec => []ToolsAreTrue
BY FilesKeepTogether, ToolsFit, PTL

(***************************************************************************)
(* The file of the inventory application: what the application has         *)
(* answered for is in it, for any requests, failures and crashes.          *)
(***************************************************************************)
StoreFiles == [kind : {"absent", "torn", "whole"}, doc : SUBSET Requests]

(* The queue holds each waiting request once.                              *)
QueueInv ==
  /\ queue \in Seq(Requests)
  /\ \A i, j \in 1 .. Len(queue) : queue[i] = queue[j] => i = j
  /\ ToSet(queue) = {r \in Requests : request[r] = "waiting"}
  /\ process # "up" => Idle

TypeInv ==
  /\ process \in {"down", "starting", "up"} /\ rejected \in BOOLEAN /\ cut \in BOOLEAN
  /\ memory \subseteq Requests /\ writing \subseteq memory
  /\ file \in StoreFiles
  /\ request \in [Requests -> {"new", "waiting", "acked", "failed", "lost"}]

(* What waits is in memory, and the write that runs holds its request.     *)
QueuedInv ==
  /\ ToSet(queue) \subseteq memory
  /\ ~Idle => Head(queue) \in writing

(* As long as no write was cut, what was answered is in the file, in the   *)
(* memory of a process that runs, and in what a write will put in the      *)
(* place of the file.                                                      *)
SavedInv ==
  ~cut => /\ Acked \subseteq file.doc
          /\ process # "down" => Acked \subseteq memory
          /\ process = "starting" \/ ~Idle => Acked \subseteq writing

StoreInv == TypeInv /\ QueueInv /\ QueuedInv /\ SavedInv

-----------------------------------------------------------------------------
(* A request that is appended is in the queue besides those that were.     *)
LEMMA AppendedToQueue ==
  ASSUME NEW S, NEW s \in Seq(S), NEW x \in S
  PROVE  /\ ToSet(Append(s, x)) = ToSet(s) \cup {x}
         /\ Append(s, x) \in Seq(S) /\ Append(s, x) # <<>>
         /\ Head(Append(s, x)) = IF s = <<>> THEN x ELSE Head(s)
         /\ (/\ \A i, j \in 1 .. Len(s) : s[i] = s[j] => i = j
             /\ x \notin ToSet(s))
            => \A i, j \in 1 .. Len(Append(s, x)) :
                 Append(s, x)[i] = Append(s, x)[j] => i = j
<1> DEFINE t == Append(s, x)
<1>1. /\ t \in Seq(S) /\ Len(t) = Len(s) + 1
      /\ t[Len(s) + 1] = x
      /\ \A i \in 1 .. Len(s) : t[i] = s[i]
  BY AppendProperties
<1>2. DOMAIN s = 1 .. Len(s) /\ DOMAIN t = 1 .. Len(s) + 1 /\ Len(s) \in Nat
  BY <1>1, LenProperties
<1>3. ToSet(t) = ToSet(s) \cup {x}
  BY <1>1, <1>2 DEF ToSet
<1>4. Head(t) = IF s = <<>> THEN x ELSE Head(s)
  BY <1>1, <1>2
<1> QED BY <1>1, <1>2, <1>3, <1>4, SMTT(30) DEF ToSet

(* The head of a queue without repetition is not in its tail.              *)
LEMMA HeadLeavesQueue ==
  ASSUME NEW S, NEW s \in Seq(S), s # <<>>,
         \A i, j \in 1 .. Len(s) : s[i] = s[j] => i = j
  PROVE  /\ Tail(s) \in Seq(S) /\ Head(s) \in S
         /\ ToSet(Tail(s)) = ToSet(s) \ {Head(s)}
         /\ Head(s) \in ToSet(s)
         /\ Len(s) > 1 <=> Tail(s) # <<>>
         /\ Tail(s) # <<>> => Head(Tail(s)) \in ToSet(Tail(s))
         /\ \A i, j \in 1 .. Len(Tail(s)) : Tail(s)[i] = Tail(s)[j] => i = j
<1> DEFINE t == Tail(s)
<1>1. /\ t \in Seq(S) /\ Len(t) = Len(s) - 1 /\ Len(s) \in Nat \ {0}
      /\ \A i \in 1 .. Len(t) : t[i] = s[i + 1]
      /\ Head(s) = s[1] /\ Head(s) \in S
  BY HeadTailProperties
<1>2. DOMAIN s = 1 .. Len(s) /\ DOMAIN t = 1 .. Len(t)
  BY <1>1
<1> HIDE DEF t
<1>3. ToSet(t) = {s[i] : i \in 2 .. Len(s)}
  <2>1. \A i \in 2 .. Len(s) : i - 1 \in 1 .. Len(t) /\ t[i - 1] = s[i]
    <3> TAKE i \in 2 .. Len(s)
    <3>1. i - 1 \in 1 .. Len(t) /\ (i - 1) + 1 = i
      BY <1>1
    <3> QED BY <1>1, <3>1
  <2>2. \A i \in 1 .. Len(t) : i + 1 \in 2 .. Len(s) /\ t[i] = s[i + 1]
    BY <1>1
  <2>3. ToSet(t) = {t[i] : i \in 1 .. Len(t)}
    BY <1>2 DEF ToSet
  <2>4. \A y \in ToSet(t) : \E i \in 2 .. Len(s) : y = s[i]
    BY <2>2, <2>3
  <2>5. \A i \in 2 .. Len(s) : s[i] \in ToSet(t)
    BY <2>1, <2>3
  <2> QED BY <2>4, <2>5
<1>4. ToSet(t) = ToSet(s) \ {Head(s)} /\ Head(s) \in ToSet(s)
  <2>1. ToSet(s) = {s[i] : i \in 1 .. Len(s)}
    BY <1>2 DEF ToSet
  <2>2. \A i \in 2 .. Len(s) : s[i] \in ToSet(s) /\ s[i] # s[1]
    BY <1>1, <2>1
  <2>3. \A y \in ToSet(s) : y = s[1] \/ \E i \in 2 .. Len(s) : y = s[i]
    <3> TAKE y \in ToSet(s)
    <3>1. PICK i \in 1 .. Len(s) : y = s[i]
      BY <2>1
    <3>2. i = 1 \/ i \in 2 .. Len(s)
      BY <1>1
    <3> QED BY <3>1, <3>2
  <2>4. s[1] \in ToSet(s)
    BY <1>1, <2>1
  <2> QED BY <1>1, <1>3, <2>2, <2>3, <2>4
<1>5. Len(s) > 1 <=> t # <<>>
  BY <1>1
<1>6. t # <<>> => Head(t) \in ToSet(t)
  BY <1>1, <1>2 DEF ToSet
<1>7. \A i, j \in 1 .. Len(t) : t[i] = t[j] => i = j
  <2> TAKE i, j \in 1 .. Len(t)
  <2>1. i + 1 \in 1 .. Len(s) /\ j + 1 \in 1 .. Len(s)
    BY <1>1
  <2>2. t[i] = t[j] => i + 1 = j + 1
    BY <1>1, <2>1
  <2> QED BY <2>2
<1> QED BY <1>1, <1>4, <1>5, <1>6, <1>7 DEF t

LEMMA EmptyQueue == ToSet(<<>>) = {}
<1>1. DOMAIN <<>> = {}
  OBVIOUS
<1> QED BY <1>1 DEF ToSet

-----------------------------------------------------------------------------
LEMMA StoreBegins == StoreInit => StoreInv
<1> SUFFICES ASSUME StoreInit PROVE StoreInv
  OBVIOUS
<1>1. TypeInv
  BY DEF StoreInit, TypeInv, StoreFiles, Absent
<1>2. QueueInv /\ QueuedInv
  BY EmptyQueue DEF StoreInit, QueueInv, QueuedInv, Idle
<1>3. SavedInv
  BY DEF StoreInit, SavedInv, Acked, Idle
<1> QED BY <1>1, <1>2, <1>3 DEF StoreInv

(* One lemma for each step of the store.                                   *)
LEMMA LoadKeeps == StoreInv /\ Load => StoreInv'
BY EmptyQueue DEF StoreInv, TypeInv, QueueInv, QueuedInv, SavedInv, StoreFiles, Load, Acked, Idle

LEMMA ListenKeeps == StoreInv /\ Listen => StoreInv'
BY EmptyQueue DEF StoreInv, TypeInv, QueueInv, QueuedInv, SavedInv, StoreFiles, Listen, Acked,
   Idle, Holding

LEMMA UpdateKeeps ==
  ASSUME StoreInv, NEW r \in Requests, Update(r)
  PROVE  StoreInv'
<1> USE DEF StoreInv
<1>1. r \in memory' /\ memory' = memory \cup {r}
  BY DEF Update
<1>2. CASE rejected
  BY <1>1, <1>2 DEF Update, TypeInv, QueueInv, QueuedInv, SavedInv, Acked, Idle
<1>3. CASE ~rejected
  <2>1. r \notin ToSet(queue)
    BY DEF Update, QueueInv
  <2>2. /\ queue' = Append(queue, r)
        /\ request' = [request EXCEPT ![r] = "waiting"]
        /\ writing' = IF Idle THEN memory' ELSE writing
    BY <1>3 DEF Update
  <2>3. /\ queue' \in Seq(Requests) /\ ToSet(queue') = ToSet(queue) \cup {r} /\ ~Idle'
        /\ Head(queue') = IF Idle THEN r ELSE Head(queue)
        /\ \A i, j \in 1 .. Len(queue') : queue'[i] = queue'[j] => i = j
    BY <2>1, <2>2, AppendedToQueue DEF QueueInv, Idle
  <2>4. TypeInv'
    BY <1>1, <2>2 DEF Update, TypeInv
  <2>5. QueueInv'
    BY <2>2, <2>3 DEF Update, QueueInv, TypeInv
  <2>6. QueuedInv'
    BY <1>1, <2>2, <2>3 DEF QueuedInv
  <2>7. Acked' = Acked
    BY <2>2 DEF Update, Acked, TypeInv
  <2>8. SavedInv'
    BY <1>1, <2>2, <2>3, <2>7 DEF SavedInv, Update
  <2> QED BY <2>4, <2>5, <2>6, <2>8
<1> QED BY <1>2, <1>3

LEMMA ThrowKeeps ==
  ASSUME StoreInv, NEW r \in Requests, Throw(r)
  PROVE  StoreInv'
BY DEF StoreInv, Throw, TypeInv, QueueInv, QueuedInv, SavedInv, Acked, Idle

LEMMA EndWriteKeeps == ASSUME StoreInv, EndWrite PROVE StoreInv'
<1> USE DEF StoreInv
<1> DEFINE h == Head(queue)
<1>1. /\ queue # <<>> /\ queue' = Tail(queue) /\ process = "up"
      /\ request' = [request EXCEPT ![h] = "acked"]
      /\ writing' = IF Len(queue) > 1 THEN memory ELSE {}
      /\ file' = Holding(writing) /\ UNCHANGED <<process, memory, rejected, cut>>
  BY DEF EndWrite, QueueInv, TypeInv, Idle
<1>2. /\ queue' \in Seq(Requests) /\ h \in Requests
      /\ ToSet(queue') = ToSet(queue) \ {h} /\ h \in ToSet(queue)
      /\ Len(queue) > 1 <=> queue' # <<>>
      /\ queue' # <<>> => Head(queue') \in ToSet(queue')
      /\ \A i, j \in 1 .. Len(queue') : queue'[i] = queue'[j] => i = j
  BY <1>1, HeadLeavesQueue DEF QueueInv
<1>3. h \in writing
  BY <1>1 DEF QueuedInv, Idle
<1>4. TypeInv'
  BY <1>1, <1>2 DEF TypeInv, StoreFiles, Holding
<1>5. QueueInv'
  BY <1>1, <1>2 DEF QueueInv, TypeInv, Idle
<1>6. QueuedInv'
  BY <1>1, <1>2 DEF QueuedInv, Idle
<1>7. Acked' = Acked \cup {h}
  BY <1>1, <1>2 DEF Acked, TypeInv
<1>8. SavedInv'
  BY <1>1, <1>2, <1>3, <1>7 DEF SavedInv, TypeInv, Holding, Idle
<1> QED BY <1>4, <1>5, <1>6, <1>8

(* A write that fails answers no request with success.                     *)
LEMMA FailWriteKeeps == ASSUME StoreInv, FailWrite PROVE StoreInv'
<1> USE DEF StoreInv
<1>1. Acked' = Acked
  BY DEF FailWrite, Acked, QueueInv, TypeInv
<1>2. TypeInv'
  BY DEF FailWrite, TypeInv, Cut, Absent, Torn, StoreFiles
<1>3. QueueInv' /\ QueuedInv'
  BY EmptyQueue DEF FailWrite, QueueInv, QueuedInv, TypeInv, Idle
<1>4. SavedInv'
  BY <1>1 DEF FailWrite, SavedInv, TypeInv, QueueInv, Idle
<1> QED BY <1>2, <1>3, <1>4

(* A crash leaves the file as it was, or as the write would have, or marks *)
(* it as cut.                                                              *)
LEMMA ProcessEndsKeeps == ASSUME StoreInv, ProcessEnds PROVE StoreInv'
<1> USE DEF StoreInv
<1>1. Acked' = Acked
  BY DEF ProcessEnds, Acked, QueueInv, TypeInv
<1>2. TypeInv'
  <2>1. file' \in {file, Absent, Torn, Holding(writing)}
    BY DEF ProcessEnds, Cut
  <2>2. file' \in StoreFiles
    BY <2>1 DEF TypeInv, Absent, Torn, Holding, StoreFiles
  <2>3. request' \in [Requests -> {"new", "waiting", "acked", "failed", "lost"}]
    BY DEF ProcessEnds, TypeInv
  <2>4. cut' \in BOOLEAN
    BY DEF ProcessEnds
  <2> QED BY <2>2, <2>3, <2>4 DEF ProcessEnds, TypeInv
<1>3. QueueInv' /\ QueuedInv'
  BY EmptyQueue DEF ProcessEnds, QueueInv, QueuedInv, TypeInv, Idle
<1>4. SavedInv'
  <2>1. CASE Idle /\ process = "up"
    BY <1>1, <2>1 DEF ProcessEnds, SavedInv, Idle
  <2>2. CASE process = "starting" \/ ~Idle
    <3> SUFFICES ASSUME ~cut' PROVE Acked' \subseteq file'.doc
      BY DEF SavedInv, ProcessEnds, Idle
    <3>1. ~cut /\ file' \in {file, Holding(writing)}
      BY DEF ProcessEnds
    <3>2. Acked \subseteq file.doc /\ Acked \subseteq writing
      BY <2>2, <3>1 DEF SavedInv
    <3> QED BY <1>1, <3>1, <3>2 DEF Holding
  <2> QED BY <2>1, <2>2 DEF ProcessEnds, TypeInv
<1> QED BY <1>2, <1>3, <1>4

LEMMA StoreStep == StoreInv /\ [StoreNext]_storeVars => StoreInv'
<1> SUFFICES ASSUME StoreInv, [StoreNext]_storeVars PROVE StoreInv'
  OBVIOUS
<1>1. CASE UNCHANGED storeVars
  BY <1>1 DEF StoreInv, TypeInv, QueueInv, QueuedInv, SavedInv, Acked, Idle, storeVars
<1> QED BY <1>1, LoadKeeps, ListenKeeps, UpdateKeeps, ThrowKeeps, EndWriteKeeps,
           FailWriteKeeps, ProcessEndsKeeps DEF StoreNext

LEMMA InvGivesSound == StoreInv => StoreIsSound
BY DEF StoreInv, TypeInv, QueueInv, QueuedInv, SavedInv, StoreIsSound, StoreTypeOK,
   AckedIsSaved, StoreFiles

(* store.ts, updateData: the store keeps its types, and what it answered   *)
(* with success is in the file as long as no write was cut, however many   *)
(* requests, failed writes, crashes and restarts there were.               *)
THEOREM StoreSound == StoreSpec => []StoreIsSound
<1>1. StoreSpec => []StoreInv
  BY StoreBegins, StoreStep, PTL DEF StoreSpec
<1> QED BY <1>1, InvGivesSound, PTL

-----------------------------------------------------------------------------
(* The batches of d are batches of e, which posted the same for them.      *)
Keeps(d, e) ==
  /\ d.batches \subseteq e.batches
  /\ \A b \in d.batches : PostedFor(e, b) = PostedFor(d, b)

(* The documents in memory and in the file are sound, and what is in the   *)
(* file of a batch is in memory too.                                       *)
InventoryInv ==
  /\ Sound(data) /\ Sound(saved)
  /\ Keeps(saved, data)
  /\ quota \in [Areas -> Nat]

-----------------------------------------------------------------------------

LEMMA ImageLemma ==
  ASSUME NEW S, IsFiniteSet(S), NEW f, DOMAIN f = S
  PROVE  /\ IsFiniteSet({f[x] : x \in S})
         /\ Cardinality({f[x] : x \in S}) <= Cardinality(S)
<1> DEFINE T == {f[x] : x \in S}
           g == [x \in S |-> f[x]]
<1>1. g \in Surjection(S, T)
  BY DEF Surjection
<1> HIDE DEF g, T
<1>2. IsFiniteSet(T) /\ Cardinality(T) <= Cardinality(S)
  BY <1>1, FS_Surjection
<1> QED BY <1>2 DEF T

LEMMA MaxLemma ==
  ASSUME NEW S \in SUBSET Nat, IsFiniteSet(S), S # {}
  PROVE  Max(S) \in S /\ \A y \in S : y <= Max(S)
<1> DEFINE C == {T \in SUBSET S : T = {} \/ \E x \in T : \A y \in T : x >= y}
<1>1. {} \in C
  OBVIOUS
<1>2. ASSUME NEW T \in SUBSET S, T # {}, \A x \in T : T \ {x} \in C PROVE T \in C
  <2>1. PICK x \in T : TRUE
    BY <1>2
  <2>2. CASE T \ {x} = {}
    <3>1. \A y \in T : x >= y
      BY <2>1, <2>2
    <3> QED BY <2>1, <3>1
  <2>3. CASE T \ {x} # {}
    <3>1. PICK z \in T \ {x} : \A y \in T \ {x} : z >= y
      BY <1>2, <2>1, <2>3
    <3>2. x \in Nat /\ z \in Nat /\ T \subseteq Nat
      BY <2>1, <3>1
    <3>3. \E m \in T : \A y \in T : m >= y
      <4>1. CASE z >= x
        BY <3>1, <3>2, <4>1
      <4>2. CASE ~(z >= x)
        <5>1. \A y \in T : x >= y
          BY <3>1, <3>2, <4>2
        <5> QED BY <2>1, <5>1
      <4> QED BY <4>1, <4>2
    <3> QED BY <3>3
  <2> QED BY <2>2, <2>3
<1>3. SUBSET S \subseteq C
  <2> HIDE DEF C
  <2> QED BY <1>1, <1>2, SubsetInduction
<1>4. \E x \in S : \A y \in S : x >= y
  BY <1>3
<1>5. Max(S) \in S /\ \A y \in S : Max(S) >= y
  BY <1>4 DEF Max
<1> QED BY <1>5

(* A new id is greater than those of the list.                             *)
LEMMA NextIdLemma ==
  ASSUME NEW list, IsFiniteSet(list), \A x \in list : x.id \in Nat
  PROVE  NextId(list) \in Nat /\ \A x \in list : x.id < NextId(list)
<1> DEFINE f == [x \in list |-> x.id]
           S == {0} \cup Ids(list)
<1>1. IsFiniteSet(Ids(list))
  <2>1. DOMAIN f = list /\ {f[x] : x \in list} = Ids(list)
    BY DEF Ids
  <2> HIDE DEF f
  <2> QED BY <2>1, ImageLemma
<1>2. S \in SUBSET Nat /\ S # {}
  BY DEF Ids
<1>3. IsFiniteSet(S)
  <2>1. S = Ids(list) \cup {0}
    OBVIOUS
  <2> HIDE DEF S
  <2> QED BY <1>1, <2>1, FS_AddElement
<1>4. Max(S) \in Nat /\ \A y \in S : y <= Max(S)
  <2> HIDE DEF S
  <2> QED BY <1>2, <1>3, MaxLemma
<1>5. \A x \in list : x.id \in S
  BY DEF Ids
<1>6. NextId(list) = Max(S) + 1
  BY DEF NextId
<1> HIDE DEF S
<1> QED BY <1>4, <1>5, <1>6

(* A document stays sound when what changes in it stays as it must be.     *)
LEMMA ChangeLemma ==
  ASSUME NEW d, Sound(d), NEW e \in Documents, FiniteLists(e),
         e.items = d.items \/ DistinctSkus(e.items),
         OrdersInv(e) \/ (e.orders = d.orders /\ e.orderLines = d.orderLines
                            /\ e.receipts = d.receipts),
         StockInv(e) \/ (e.receipts = d.receipts /\ e.orderLines = d.orderLines
                           /\ e.moves = d.moves),
         BatchInv(e) \/ (e.bomLines = d.bomLines /\ e.batches = d.batches /\ e.moves = d.moves)
  PROVE  Sound(e)
<1>1. DistinctSkus(e.items)
  BY DEF Sound
<1>2. OrdersInv(e)
  BY DEF Sound, OrdersInv, OrderLines
<1>3. StockInv(e)
  BY DEF Sound, StockInv, OrderLines, StockOf
<1>4. BatchInv(e)
  BY DEF Sound, BatchInv
<1> QED BY <1>1, <1>2, <1>3, <1>4 DEF Sound

(* No batch is added, and what was posted for those that stay is as it    *)
(* was.                                                                    *)
NoNewBatch == Keeps(data', data)

Likewise(d, e) == Keeps(d, e) /\ Keeps(e, d)

LEMMA LikewiseLemma ==
  /\ \A d : Likewise(d, d)
  /\ \A d, e, f : Likewise(d, e) /\ Likewise(e, f) => Likewise(d, f)
  /\ \A d, e : e.batches = d.batches /\ e.moves = d.moves => Likewise(d, e)
<1>1. \A d, e, f : Keeps(d, e) /\ Keeps(e, f) => Keeps(d, f)
  BY DEF Keeps
<1>2. \A d, e : e.batches = d.batches /\ e.moves = d.moves => Likewise(d, e)
  BY DEF Likewise, Keeps, PostedFor
<1>3. \A d : Likewise(d, d)
  BY DEF Likewise, Keeps
<1> QED BY <1>1, <1>2, <1>3 DEF Likewise

LEMMA EndLemma ==
  ASSUME InventoryInv, NEW e, Sound(e), NEW area \in Areas, Asks(area),
         Saved(e) \/ (Refused(e) /\ Keeps(data, e))
  PROVE  InventoryInv' /\ (Keeps(e, data) => NoNewBatch)
<1>1. quota' \in [Areas -> Nat]
  <2>1. quota \in [Areas -> Nat] /\ quota[area] > 0
    BY DEF InventoryInv, Asks
  <2> QED BY <2>1 DEF Asks
<1>2. data' = e /\ (saved' = e \/ (saved' = saved /\ Keeps(data, e)))
  BY DEF Saved, Refused
<1>3. Keeps(e, e) /\ (Keeps(data, e) => Keeps(saved, e))
  BY DEF InventoryInv, Keeps
<1>4. Sound(data') /\ Sound(saved') /\ Keeps(saved', data')
  BY <1>2, <1>3 DEF InventoryInv
<1> QED BY <1>1, <1>2, <1>4 DEF InventoryInv, NoNewBatch

(* The batches are as they were, in a document that is sound.              *)
LEMMA SameEndLemma ==
  ASSUME InventoryInv, NEW e, Sound(e), NEW area \in Areas, Asks(area),
         Saved(e) \/ Refused(e), e = data \/ Likewise(data, e)
  PROVE  InventoryInv' /\ NoNewBatch
BY EndLemma, LikewiseLemma DEF Likewise

(* The process ends: what is in the file was sound.                        *)
LEMMA CrashLemma ==
  ASSUME InventoryInv, Crashed, quota' \in [Areas -> Nat]
  PROVE  InventoryInv' /\ NoNewBatch
BY DEF InventoryInv, Crashed, NoNewBatch, Keeps

LEMMA AsksLemma ==
  ASSUME InventoryInv, NEW area \in Areas, Asks(area)
  PROVE  quota' \in [Areas -> Nat]
<1>1. quota \in [Areas -> Nat] /\ quota[area] > 0
  BY DEF InventoryInv, Asks
<1> QED BY <1>1 DEF Asks

-----------------------------------------------------------------------------
(* The catalogue.                                                          *)

(* There is a number that no other item has.                               *)
LEMMA GroupSkuLemma ==
  ASSUME Sound(data), NEW id
  PROVE  GroupSku(id) \in Nat
<1> DEFINE others == {y \in data.items : y.id # id}
           taken == {x.sku : x \in others}
           first == Max({0} \cup Skus) + 1
           n == Cardinality(data.items)
           room == {k \in first .. (first + n) : k \notin taken}
<1>1. IsFiniteSet(data.items) /\ n \in Nat
  BY FS_CardinalityType DEF Sound, FiniteLists
<1>2. first \in Nat
  <2>1. {0} \cup Skus \in SUBSET Nat /\ IsFiniteSet(Skus \cup {0})
    BY InventoryAssumption, FS_AddElement DEF InventoryAssumption
  <2>2. Max({0} \cup Skus) \in Nat
    <3>1. {0} \cup Skus = Skus \cup {0}
      OBVIOUS
    <3> QED BY <2>1, <3>1, MaxLemma
  <2> QED BY <2>2
<1>3. IsFiniteSet(taken) /\ Cardinality(taken) \in Nat /\ Cardinality(taken) <= n
  <2> DEFINE f == [x \in others |-> x.sku]
  <2>1. IsFiniteSet(others) /\ Cardinality(others) <= n /\ Cardinality(others) \in Nat
    BY <1>1, FS_Subset, FS_CardinalityType
  <2>2. DOMAIN f = others /\ {f[x] : x \in others} = taken
    OBVIOUS
  <2> HIDE DEF f, taken, others
  <2>3. IsFiniteSet(taken) /\ Cardinality(taken) <= Cardinality(others)
    BY <2>1, <2>2, ImageLemma
  <2>4. Cardinality(taken) \in Nat
    BY <2>3, FS_CardinalityType
  <2> HIDE DEF n
  <2> QED BY <1>1, <2>1, <2>3, <2>4
<1> HIDE DEF first, n, taken
<1>4. room # {}
  <2> SUFFICES ASSUME room = {} PROVE FALSE
    OBVIOUS
  <2>1. first .. (first + n) \in SUBSET taken
    OBVIOUS
  <2>2. Cardinality(first .. (first + n)) = n + 1
    <3>1. PICK last \in Int : last = first + n
      BY <1>1, <1>2
    <3>2. first \in Int /\ ~(first > last) /\ last - first + 1 = n + 1
      BY <1>1, <1>2, <3>1
    <3>3. Cardinality(first .. last) = IF first > last THEN 0 ELSE last - first + 1
      BY <3>2, FS_Interval
    <3> QED BY <3>1, <3>2, <3>3
  <2>3. Cardinality(first .. (first + n)) <= Cardinality(taken)
    BY <1>3, <2>1, FS_Subset
  <2> QED BY <1>1, <1>3, <2>2, <2>3
<1>5. room \in SUBSET Nat
  BY <1>1, <1>2
<1>6. GroupSku(id) = Min(room)
  BY DEF GroupSku, first, n, taken
<1> HIDE DEF room
<1>7. PICK m \in room : \A k \in room : m <= k
  BY <1>4, <1>5, LeastLemma
<1>8. Min(room) \in room
  BY <1>7 DEF Min
<1> QED BY <1>5, <1>6, <1>8

LEMMA FinalSkuLemma ==
  ASSUME Sound(data), NEW id, NEW parent, NEW sku \in Nat
  PROVE  FinalSku(id, parent, sku) \in Nat
BY GroupSkuLemma DEF FinalSku

LEMMA ItemIds ==
  ASSUME Sound(data)
  PROVE  /\ NextId(data.items) \in Nat /\ \A x \in data.items : x.id < NextId(data.items)
         /\ NextId(data.convs) \in Nat
<1>1. /\ \A x \in data.items : x.id \in Nat
      /\ \A x \in data.convs : x.id \in Nat
  BY DEF Sound, Documents
<1>2. IsFiniteSet(data.items) /\ IsFiniteSet(data.convs)
  BY DEF Sound, FiniteLists
<1> QED BY <1>1, <1>2, NextIdLemma

(* The items and the conversions change, and nothing else.                 *)
LEMMA CatalogueLemma ==
  ASSUME Sound(data),
         NEW items \in SUBSET [id : Nat, sku : Nat, parent : Nat, unit : Units],
         NEW convs \in SUBSET [id : Nat, item : Nat, unit : Units, factor : Int],
         IsFiniteSet(items), IsFiniteSet(convs), DistinctSkus(items),
         NEW e, e = [data EXCEPT !.items = items, !.convs = convs]
  PROVE  Sound(e) /\ Likewise(data, e)
<1>1. data \in Documents /\ FiniteLists(data)
  BY DEF Sound
<1>2. e \in Documents
  BY <1>1 DEF Documents
<1>3. /\ e.items = items /\ e.convs = convs /\ e.suppliers = data.suppliers
      /\ e.orders = data.orders /\ e.orderLines = data.orderLines
      /\ e.receipts = data.receipts /\ e.receiptLines = data.receiptLines
      /\ e.moves = data.moves /\ e.boms = data.boms /\ e.bomLines = data.bomLines
      /\ e.batches = data.batches
  BY <1>1 DEF Documents
<1>4. FiniteLists(e)
  BY <1>1, <1>3 DEF FiniteLists
<1>5. Sound(e)
  BY <1>2, <1>3, <1>4, ChangeLemma
<1> QED BY <1>3, <1>5 DEF Likewise, Keeps, PostedFor

LEMMA CreateItemLemma ==
  ASSUME InventoryInv, NEW sku \in Skus \cup {Blank}, NEW parent \in Nat, NEW unit \in Units,
         CreateItem(sku, parent, unit)
  PROVE  InventoryInv' /\ NoNewBatch
<1> DEFINE id == NextId(data.items)
           final == FinalSku(id, parent, sku)
           item == [id |-> id, sku |-> final, parent |-> parent, unit |-> unit]
           items == data.items \cup {item}
           e == [data EXCEPT !.items = items]
<1>1. Sound(data)
  BY DEF InventoryInv
<1>2. sku \in Nat
  BY InventoryAssumption DEF InventoryAssumption, Blank
<1>3. item \in [id : Nat, sku : Nat, parent : Nat, unit : Units]
      /\ item.id = id /\ item.sku = final
  BY <1>1, <1>2, FinalSkuLemma, ItemIds
<1>4. /\ Asks("items")
      /\ Refused(data) \/ (SkuFits(id, final) /\ Saved(e))
  BY DEF CreateItem
<1>5. CASE Refused(data)
  BY <1>1, <1>4, <1>5, SameEndLemma DEF Areas
<1>6. CASE SkuFits(id, final) /\ Saved(e)
  <2>1. \A x \in data.items : x.sku # final
    <3>1. \A x \in data.items : x.id < id /\ x.id \in Nat /\ id \in Nat
      BY <1>1, ItemIds DEF Sound, Documents
    <3> QED BY <1>6, <3>1 DEF SkuFits
  <2> HIDE DEF item, final, id
  <2>2. DistinctSkus(items)
    BY <1>1, <1>3, <2>1 DEF Sound, DistinctSkus
  <2>3. /\ items \in SUBSET [id : Nat, sku : Nat, parent : Nat, unit : Units]
        /\ data.convs \in SUBSET [id : Nat, item : Nat, unit : Units, factor : Int]
        /\ IsFiniteSet(items) /\ IsFiniteSet(data.convs)
    BY <1>1, <1>3, FS_AddElement DEF Sound, Documents, FiniteLists
  <2>4. e = [data EXCEPT !.items = items, !.convs = data.convs]
    BY <1>1 DEF Sound, Documents
  <2> HIDE DEF items, e
  <2>5. Sound(e) /\ Likewise(data, e)
    BY <1>1, <2>2, <2>3, <2>4, CatalogueLemma
  <2> QED BY <1>4, <1>6, <2>5, SameEndLemma DEF Areas
<1> QED BY <1>4, <1>5, <1>6

LEMMA EditItemLemma ==
  ASSUME InventoryInv, NEW id \in Nat, NEW sku \in Skus \cup {Blank}, NEW parent \in Nat,
         NEW unit \in Units, EditItem(id, sku, parent, unit)
  PROVE  InventoryInv' /\ NoNewBatch
<1> DEFINE final == FinalSku(id, parent, sku)
           item == [id |-> id, sku |-> final, parent |-> parent, unit |-> unit]
           items == (data.items \ Find(data.items, id)) \cup {item}
           e == [data EXCEPT !.items = items]
<1>1. Sound(data)
  BY DEF InventoryInv
<1>2. sku \in Nat
  BY InventoryAssumption DEF InventoryAssumption, Blank
<1>3. item \in [id : Nat, sku : Nat, parent : Nat, unit : Units]
      /\ item.id = id /\ item.sku = final
  BY <1>1, <1>2, FinalSkuLemma
<1>4. /\ Asks("items")
      /\ Refused(data) \/ Saved(data) \/ (SkuFits(id, final) /\ Saved(e))
  BY DEF EditItem
<1>5. CASE Refused(data) \/ Saved(data)
  BY <1>1, <1>4, <1>5, SameEndLemma DEF Areas
<1>6. CASE SkuFits(id, final) /\ Saved(e)
  <2> DEFINE others == data.items \ Find(data.items, id)
  <2>1. \A x \in others : x.sku # final
    BY <1>6 DEF SkuFits, Find
  <2>2. others \subseteq data.items
    OBVIOUS
  <2> HIDE DEF item, final, others
  <2>3. DistinctSkus(others \cup {item})
    BY <1>1, <1>3, <2>1, <2>2 DEF Sound, DistinctSkus
  <2>4. /\ IsFiniteSet(data.items) /\ IsFiniteSet(data.convs)
        /\ data.items \in SUBSET [id : Nat, sku : Nat, parent : Nat, unit : Units]
        /\ data.convs \in SUBSET [id : Nat, item : Nat, unit : Units, factor : Int]
    BY <1>1 DEF Sound, Documents, FiniteLists
  <2>5. IsFiniteSet(others)
    BY <2>2, <2>4, FS_Subset
  <2>6. IsFiniteSet(others \cup {item})
    BY <2>5, FS_AddElement
  <2>7. e = [data EXCEPT !.items = others \cup {item}, !.convs = data.convs]
    BY <1>1 DEF Sound, Documents, others
  <2>8. others \cup {item} \in SUBSET [id : Nat, sku : Nat, parent : Nat, unit : Units]
    BY <1>3, <2>2, <2>4
  <2> HIDE DEF items, e
  <2>9. Sound(e) /\ Likewise(data, e)
    BY <1>1, <2>3, <2>4, <2>6, <2>7, <2>8, CatalogueLemma
  <2> QED BY <1>4, <1>6, <2>9, SameEndLemma DEF Areas
<1> QED BY <1>4, <1>5, <1>6

LEMMA DeleteItemLemma ==
  ASSUME InventoryInv, NEW id \in Nat, DeleteItem(id)
  PROVE  InventoryInv' /\ NoNewBatch
<1> DEFINE items == data.items \ Find(data.items, id)
           convs == {c \in data.convs : c.item # id}
           e == [data EXCEPT !.items = items, !.convs = convs]
<1>1. Sound(data)
  BY DEF InventoryInv
<1>2. Asks("items") /\ Saved(e)
  BY DEF DeleteItem
<1>3. items \subseteq data.items /\ convs \subseteq data.convs
  OBVIOUS
<1> HIDE DEF items, convs
<1>4. /\ items \in SUBSET [id : Nat, sku : Nat, parent : Nat, unit : Units]
      /\ convs \in SUBSET [id : Nat, item : Nat, unit : Units, factor : Int]
      /\ IsFiniteSet(items) /\ IsFiniteSet(convs)
  BY <1>1, <1>3, FS_Subset DEF Sound, Documents, FiniteLists
<1>5. DistinctSkus(items)
  BY <1>1, <1>3 DEF Sound, DistinctSkus
<1> HIDE DEF e
<1>6. Sound(e) /\ Likewise(data, e)
  BY <1>1, <1>4, <1>5, CatalogueLemma DEF e
<1> QED BY <1>2, <1>6, SameEndLemma DEF Areas

(* The conversions of a unit.                                              *)
LEMMA ConversionLemma ==
  ASSUME InventoryInv, NEW id \in Nat,
         \/ DeleteConversion(id)
         \/ \E unit \in Units, f \in Factors :
              CreateConversion(id, unit, f) \/ EditConversion(id, unit, f)
  PROVE  InventoryInv' /\ NoNewBatch
<1> DEFINE ConvRecords == [id : Nat, item : Nat, unit : Units, factor : Int]
<1>1. Sound(data) /\ Factors \subseteq Int
  BY InventoryAssumption DEF InventoryInv, InventoryAssumption
<1>2. IsFiniteSet(data.convs) /\ data.convs \in SUBSET ConvRecords
  BY <1>1 DEF Sound, Documents, FiniteLists
<1>3. PICK convs \in SUBSET ConvRecords :
        IsFiniteSet(convs) /\ Saved([data EXCEPT !.convs = convs])
  <2>1. ASSUME NEW unit \in Units, NEW f \in Factors, CreateConversion(id, unit, f)
        PROVE  \E convs \in SUBSET ConvRecords :
                 IsFiniteSet(convs) /\ Saved([data EXCEPT !.convs = convs])
    <3> DEFINE conv == [id |-> NextId(data.convs), item |-> id, unit |-> unit, factor |-> f]
    <3>1. Saved([data EXCEPT !.convs = data.convs \cup {conv}])
      BY <2>1 DEF CreateConversion
    <3>2. conv \in ConvRecords
      BY <1>1, ItemIds
    <3> HIDE DEF conv
    <3>3. data.convs \cup {conv} \in SUBSET ConvRecords /\ IsFiniteSet(data.convs \cup {conv})
      BY <1>2, <3>2, FS_AddElement
    <3> QED BY <3>1, <3>3
  <2>2. ASSUME NEW unit \in Units, NEW f \in Factors, EditConversion(id, unit, f)
        PROVE  \E convs \in SUBSET ConvRecords :
                 IsFiniteSet(convs) /\ Saved([data EXCEPT !.convs = convs])
    <3> DEFINE change == [c \in data.convs |->
                 IF c.id = id THEN [c EXCEPT !.unit = unit, !.factor = f] ELSE c]
               convs == {change[c] : c \in data.convs}
    <3>1. Saved([data EXCEPT !.convs = convs])
      <4>1. convs = {IF c.id = id THEN [c EXCEPT !.unit = unit, !.factor = f] ELSE c
                     : c \in data.convs}
        OBVIOUS
      <4> HIDE DEF convs
      <4> QED BY <2>2, <4>1 DEF EditConversion
    <3>2. \A c \in data.convs : change[c] \in ConvRecords
      BY <1>1, <1>2
    <3>3. DOMAIN change = data.convs
      OBVIOUS
    <3> HIDE DEF change
    <3>4. convs \in SUBSET ConvRecords /\ IsFiniteSet(convs)
      BY <1>2, <3>2, <3>3, ImageLemma
    <3> QED BY <3>1, <3>4
  <2>3. CASE DeleteConversion(id)
    <3>1. Saved([data EXCEPT !.convs = data.convs \ Find(data.convs, id)])
      BY <2>3 DEF DeleteConversion
    <3>2. data.convs \ Find(data.convs, id) \in SUBSET data.convs
      OBVIOUS
    <3>3. IsFiniteSet(data.convs \ Find(data.convs, id))
      BY <1>2, <3>2, FS_Subset
    <3> QED BY <1>2, <3>1, <3>2, <3>3
  <2> QED BY <2>1, <2>2, <2>3
<1> DEFINE e == [data EXCEPT !.convs = convs]
<1>4. Asks("units") /\ Saved(e)
  BY <1>3 DEF CreateConversion, EditConversion, DeleteConversion
<1>5. e = [data EXCEPT !.items = data.items, !.convs = convs]
  BY <1>1 DEF Sound, Documents
<1> HIDE DEF e
<1>6. /\ data.items \in SUBSET [id : Nat, sku : Nat, parent : Nat, unit : Units]
      /\ IsFiniteSet(data.items) /\ DistinctSkus(data.items)
  BY <1>1 DEF Sound, Documents, FiniteLists
<1>7. Sound(e) /\ Likewise(data, e)
  BY <1>1, <1>3, <1>5, <1>6, CatalogueLemma
<1> QED BY <1>4, <1>7, SameEndLemma DEF Areas

(* The suppliers, of which nothing depends.                                *)
LEMMA SupplierLemma ==
  ASSUME InventoryInv, NEW id \in Nat, CreateSupplier \/ EditSupplier \/ DeleteSupplier(id)
  PROVE  InventoryInv' /\ NoNewBatch
<1>1. Sound(data)
  BY DEF InventoryInv
<1>2. IsFiniteSet(data.suppliers) /\ data.suppliers \in SUBSET Nat
  BY <1>1 DEF Sound, Documents, FiniteLists
<1>3. PICK suppliers \in SUBSET Nat :
        IsFiniteSet(suppliers) /\ Saved([data EXCEPT !.suppliers = suppliers])
  <2>1. CASE CreateSupplier
    <3> DEFINE S == {0} \cup data.suppliers
               new == Max(S) + 1
    <3>1. Saved([data EXCEPT !.suppliers = data.suppliers \cup {new}])
      BY <2>1 DEF CreateSupplier
    <3>2. new \in Nat
      <4>1. S = data.suppliers \cup {0}
        OBVIOUS
      <4>2. S \in SUBSET Nat /\ IsFiniteSet(S) /\ S # {}
        <5> HIDE DEF S
        <5> QED BY <1>2, <4>1, FS_AddElement
      <4> HIDE DEF S
      <4>3. Max(S) \in S
        BY <4>2, MaxLemma
      <4>4. Max(S) \in Nat
        BY <4>2, <4>3
      <4> QED BY <4>4
    <3> HIDE DEF new
    <3> QED BY <1>2, <3>1, <3>2, FS_AddElement
  <2>2. CASE EditSupplier
    <3>1. data = [data EXCEPT !.suppliers = data.suppliers]
      BY <1>1 DEF Sound, Documents
    <3> QED BY <1>2, <2>2, <3>1 DEF EditSupplier
  <2>3. CASE DeleteSupplier(id)
    <3>1. data.suppliers \ {id} \in SUBSET Nat /\ IsFiniteSet(data.suppliers \ {id})
      BY <1>2, FS_RemoveElement
    <3> QED BY <2>3, <3>1 DEF DeleteSupplier
  <2> QED BY <2>1, <2>2, <2>3
<1> DEFINE e == [data EXCEPT !.suppliers = suppliers]
<1>4. Asks("orders") /\ Saved(e)
  BY <1>3 DEF CreateSupplier, EditSupplier, DeleteSupplier
<1>5. data \in Documents /\ FiniteLists(data)
  BY <1>1 DEF Sound
<1>6. e \in Documents
  BY <1>5 DEF Documents
<1>7. /\ e.items = data.items /\ e.convs = data.convs /\ e.suppliers = suppliers
      /\ e.orders = data.orders /\ e.orderLines = data.orderLines
      /\ e.receipts = data.receipts /\ e.receiptLines = data.receiptLines
      /\ e.moves = data.moves /\ e.boms = data.boms /\ e.bomLines = data.bomLines
      /\ e.batches = data.batches
  BY <1>5 DEF Documents
<1> HIDE DEF e
<1>8. FiniteLists(e)
  BY <1>3, <1>5, <1>7 DEF FiniteLists
<1>9. Sound(e) /\ Likewise(data, e)
  BY <1>1, <1>6, <1>7, <1>8, ChangeLemma, LikewiseLemma
<1> QED BY <1>4, <1>9, SameEndLemma DEF Areas

-----------------------------------------------------------------------------
(* Purchase orders.                                                        *)

OrderRecords == [id : Nat, no : Nat, supplier : Nat, status : Statuses]
LineRecords == [id : Nat, order : Nat, item : Nat, qty : Int, unit : Units]

(* What was received against an order can still be held against its lines. *)
LinesKept(d, e) == \A r \in d.receipts : OrderLines(e, r.order) = OrderLines(d, r.order)

(* Orders and their lines change, and nothing else.                        *)
Placed(d, e, orders, lines) == e = [d EXCEPT !.orders = orders, !.orderLines = lines]

LEMMA PlacedLemma ==
  ASSUME NEW d, Sound(d), NEW orders \in SUBSET OrderRecords,
         NEW lines \in SUBSET LineRecords, IsFiniteSet(orders), IsFiniteSet(lines),
         NEW e, Placed(d, e, orders, lines), OrdersInv(e),
         LinesKept(d, e)
  PROVE  /\ Sound(e) /\ Likewise(d, e) /\ e.receipts = d.receipts
         /\ e.orders = orders /\ e.orderLines = lines /\ e.moves = d.moves
<1>1. d \in Documents /\ FiniteLists(d)
  BY DEF Sound
<1>2. e \in Documents
  BY <1>1 DEF Documents, OrderRecords, LineRecords, Placed
<1>3. /\ e.items = d.items /\ e.convs = d.convs /\ e.suppliers = d.suppliers
      /\ e.orders = orders /\ e.orderLines = lines
      /\ e.receipts = d.receipts /\ e.receiptLines = d.receiptLines
      /\ e.moves = d.moves /\ e.boms = d.boms /\ e.bomLines = d.bomLines
      /\ e.batches = d.batches
  BY <1>1 DEF Documents, Placed
<1>4. FiniteLists(e)
  BY <1>1, <1>3 DEF FiniteLists
<1>5. StockInv(e)
  BY <1>3 DEF Sound, StockInv, StockOf, LinesKept
<1> QED BY <1>2, <1>3, <1>4, <1>5, ChangeLemma, LikewiseLemma

(* Only orders change.                                                     *)
Reordered(d, e, orders) == e = [d EXCEPT !.orders = orders]

LEMMA OrdersLemma ==
  ASSUME NEW d, Sound(d), NEW orders \in SUBSET OrderRecords, IsFiniteSet(orders),
         NEW e, Reordered(d, e, orders), OrdersInv(e)
  PROVE  Sound(e) /\ Likewise(d, e)
<1>0. Sound(d) /\ orders \in SUBSET OrderRecords /\ IsFiniteSet(orders) /\ OrdersInv(e)
  OBVIOUS
<1>1. d \in Documents /\ FiniteLists(d)
  BY DEF Sound
<1>2. d.orderLines \in SUBSET LineRecords /\ IsFiniteSet(d.orderLines)
  BY <1>1 DEF Documents, FiniteLists, LineRecords
<1>3. Placed(d, e, orders, d.orderLines)
  BY <1>1 DEF Documents, Placed, Reordered
<1>4. LinesKept(d, e)
  BY <1>1 DEF LinesKept, OrderLines, Documents, Reordered
<1> QED BY <1>0, <1>2, <1>3, <1>4, PlacedLemma

(* The orders are changed one by one: none goes back to a concept, and one *)
(* that moves on has lines.                                                *)
OrdersMoveOn(d, change) ==
  \A x \in d.orders :
    /\ change[x].id = x.id
    /\ x.status # "CONCEPT" => change[x].status # "CONCEPT"
    /\ change[x].status # "CONCEPT" => OrderLines(d, x.id) # {}

Mapped(d, e, change) == e = [d EXCEPT !.orders = {change[x] : x \in d.orders}]

LEMMA OrderMapLemma ==
  ASSUME NEW d, Sound(d), NEW change \in [d.orders -> OrderRecords],
         OrdersMoveOn(d, change), NEW e, Mapped(d, e, change)
  PROVE  Sound(e) /\ Likewise(d, e)
<1> DEFINE orders == {change[x] : x \in d.orders}
<1>1. d \in Documents /\ FiniteLists(d) /\ OrdersInv(d)
  BY DEF Sound
<1>2. IsFiniteSet(orders)
  <2>1. IsFiniteSet(d.orders) /\ DOMAIN change = d.orders
    BY <1>1 DEF FiniteLists
  <2> QED BY <2>1, ImageLemma
<1>3. orders \in SUBSET OrderRecords /\ Reordered(d, e, orders)
  BY DEF Mapped, Reordered
<1>4. e.orders = orders /\ e.orderLines = d.orderLines /\ e.receipts = d.receipts
  BY <1>1, <1>3 DEF Documents, Reordered
<1>5. \A o : OrderLines(e, o) = OrderLines(d, o)
  BY <1>4 DEF OrderLines
<1>6. OrdersInv(e)
  <2>1. DistinctIds(e.orders)
    BY <1>1, <1>4 DEF OrdersInv, DistinctIds, OrdersMoveOn
  <2>2. \A o \in e.orders : o.status # "CONCEPT" => OrderLines(e, o.id) # {}
    <3> SUFFICES ASSUME NEW o \in e.orders, o.status # "CONCEPT"
                 PROVE  OrderLines(e, o.id) # {}
      OBVIOUS
    <3>1. PICK x \in d.orders : o = change[x]
      BY <1>4
    <3>2. o.id = x.id /\ OrderLines(d, x.id) # {}
      BY <3>1 DEF OrdersMoveOn
    <3> QED BY <1>5, <3>2
  <2>3. \A l \in e.orderLines : \E o \in e.orders : o.id = l.order
    BY <1>1, <1>4 DEF OrdersInv, OrdersMoveOn
  <2>4. \A r \in e.receipts : \E o \in e.orders : o.id = r.order /\ o.status # "CONCEPT"
    BY <1>1, <1>4 DEF OrdersInv, OrdersMoveOn
  <2> QED BY <2>1, <2>2, <2>3, <2>4 DEF OrdersInv
<1> HIDE DEF orders
<1> QED BY <1>2, <1>3, <1>6, OrdersLemma

(* updatePOStatus.                                                         *)
LEMMA StatusLemma ==
  ASSUME NEW d, Sound(d), NEW o
  PROVE  Sound(WithStatus(d, o)) /\ Likewise(d, WithStatus(d, o))
<1> DEFINE status == ComputedStatus(d, o)
           change == [x \in d.orders |-> IF x.id = o /\ x.status # "CONCEPT"
                                           THEN [x EXCEPT !.status = status] ELSE x]
           orders == {change[x] : x \in d.orders}
<1>1. status \in Statuses /\ status # "CONCEPT"
  <2> HIDE DEF status
  <2> QED BY DEF status, ComputedStatus, Statuses
<1>2. d.orders \in SUBSET OrderRecords /\ OrdersInv(d)
  BY DEF Sound, Documents, OrderRecords
<1>3. orders = {IF x.id = o /\ x.status # "CONCEPT"
                  THEN [x EXCEPT !.status = ComputedStatus(d, o)] ELSE x : x \in d.orders}
  OBVIOUS
<1> HIDE DEF status
<1>4. change \in [d.orders -> OrderRecords]
  BY <1>1, <1>2 DEF OrderRecords
<1>5. OrdersMoveOn(d, change)
  BY <1>1, <1>2 DEF OrdersInv, OrderRecords, OrdersMoveOn
<1>6. PICK e : e = WithStatus(d, o)
  OBVIOUS
<1>7. Mapped(d, e, change)
  <2> HIDE DEF orders
  <2>1. e = [d EXCEPT !.orders = orders]
    BY <1>3, <1>6 DEF WithStatus
  <2> QED BY <2>1 DEF Mapped, orders
<1> HIDE DEF change
<1>8. Sound(e) /\ Likewise(d, e)
  BY <1>4, <1>5, <1>7, OrderMapLemma
<1> QED BY <1>6, <1>8

LEMMA OnConceptLemma ==
  ASSUME InventoryInv, NEW o, NEW e, OnConcept(o, e),
         IsConcept(o) => Sound(e) /\ Likewise(data, e)
  PROVE  InventoryInv' /\ NoNewBatch
<1>1. Sound(data)
  BY DEF InventoryInv
<1> QED BY <1>1, SameEndLemma DEF OnConcept, Areas

LEMMA FinalNumberLemma ==
  ASSUME Sound(data), NEW no \in Nat
  PROVE  FinalNumber(no) \in Nat
<1> DEFINE f == [x \in data.orders |-> x.no]
           N == {x.no : x \in data.orders}
           S == {0} \cup N
<1>1. IsFiniteSet(data.orders) /\ data.orders \in SUBSET OrderRecords
  BY DEF Sound, FiniteLists, Documents, OrderRecords
<1>2. IsFiniteSet(N) /\ N \in SUBSET Nat
  <2>1. N \in SUBSET Nat
    BY <1>1 DEF OrderRecords
  <2>2. DOMAIN f = data.orders /\ {f[x] : x \in data.orders} = N
    OBVIOUS
  <2> HIDE DEF f, N
  <2> QED BY <1>1, <2>1, <2>2, ImageLemma
<1> HIDE DEF N
<1>3. S = N \cup {0}
  OBVIOUS
<1>4. S \in SUBSET Nat /\ IsFiniteSet(S) /\ S # {}
  <2> HIDE DEF S
  <2> QED BY <1>2, <1>3, FS_AddElement
<1>5. FinalNumber(no) = IF no = NoRef THEN Max(S) + 1 ELSE no
  BY DEF FinalNumber, N
<1> HIDE DEF S
<1>6. Max(S) \in S
  BY <1>4, MaxLemma
<1>7. Max(S) \in Nat
  BY <1>4, <1>6
<1> QED BY <1>5, <1>7

LEMMA OrderIds ==
  ASSUME Sound(data)
  PROVE  /\ NextId(data.orders) \in Nat /\ \A x \in data.orders : x.id < NextId(data.orders)
         /\ NextId(data.orderLines) \in Nat
<1>1. /\ \A x \in data.orders : x.id \in Nat
      /\ \A x \in data.orderLines : x.id \in Nat
  BY DEF Sound, Documents
<1>2. IsFiniteSet(data.orders) /\ IsFiniteSet(data.orderLines)
  BY DEF Sound, FiniteLists
<1> QED BY <1>1, <1>2, NextIdLemma

LEMMA CreateOrderLemma ==
  ASSUME InventoryInv, NEW no \in Nat, NEW supplier \in data.suppliers,
         CreateOrder(no, supplier)
  PROVE  InventoryInv' /\ NoNewBatch
<1> DEFINE id == NextId(data.orders)
           final == FinalNumber(no)
           order == [id |-> id, no |-> final, supplier |-> supplier, status |-> "CONCEPT"]
           orders == data.orders \cup {order}
           e == [data EXCEPT !.orders = orders]
<1>1. Sound(data) /\ data \in Documents /\ FiniteLists(data) /\ OrdersInv(data)
  BY DEF InventoryInv, Sound
<1>2. Asks("orders") /\ (Crashed \/ Saved(e))
  BY DEF CreateOrder
<1>3. CASE Crashed
  BY <1>2, <1>3, AsksLemma, CrashLemma DEF Areas
<1>4. CASE Saved(e)
  <2>1. order \in OrderRecords /\ order.id = id /\ order.status = "CONCEPT"
    <3>1. supplier \in Nat
      BY <1>1 DEF Documents
    <3> QED BY <1>1, <3>1, OrderIds, FinalNumberLemma DEF OrderRecords, Statuses
  <2>2. \A x \in data.orders : x.id # id
    <3>1. \A x \in data.orders : x.id < id /\ x.id \in Nat /\ id \in Nat
      BY <1>1, OrderIds DEF Documents
    <3> QED BY <3>1
  <2> HIDE DEF order, id
  <2>3. /\ orders \in SUBSET OrderRecords /\ IsFiniteSet(orders)
        /\ data.orderLines \in SUBSET LineRecords /\ IsFiniteSet(data.orderLines)
    BY <1>1, <2>1, FS_AddElement DEF Documents, FiniteLists, OrderRecords, LineRecords
  <2>4. Placed(data, e, orders, data.orderLines)
    BY <1>1 DEF Documents, Placed
  <2>5. e.orders = orders /\ e.orderLines = data.orderLines /\ e.receipts = data.receipts
    BY <1>1 DEF Documents
  <2> HIDE DEF e
  <2>6. \A o : OrderLines(e, o) = OrderLines(data, o)
    BY <2>5 DEF OrderLines
  <2>7. OrdersInv(e)
    BY <1>1, <2>1, <2>2, <2>5, <2>6 DEF OrdersInv, DistinctIds
  <2>8. LinesKept(data, e)
    BY <2>6 DEF LinesKept
  <2> HIDE DEF orders
  <2>9. Sound(e) /\ Likewise(data, e)
    BY <1>1, <2>3, <2>4, <2>7, <2>8, PlacedLemma
  <2> QED BY <1>2, <1>4, <2>9, SameEndLemma DEF Areas
<1> QED BY <1>2, <1>3, <1>4

LEMMA UpdateOrderLemma ==
  ASSUME InventoryInv, NEW o, NEW no \in Nat, NEW supplier \in data.suppliers,
         UpdateOrder(o, no, supplier)
  PROVE  InventoryInv' /\ NoNewBatch
<1> DEFINE final == FinalNumber(no)
           change == [x \in data.orders |->
                        IF x.id = o THEN [x EXCEPT !.no = final, !.supplier = supplier] ELSE x]
           orders == {change[x] : x \in data.orders}
           e == [data EXCEPT !.orders = orders]
<1>1. Sound(data) /\ data.orders \in SUBSET OrderRecords /\ OrdersInv(data)
  BY DEF InventoryInv, Sound, Documents, OrderRecords
<1>2. supplier \in Nat /\ final \in Nat
  BY <1>1, FinalNumberLemma DEF Sound, Documents
<1>3. \/ Asks("orders") /\ Refused(data)
      \/ OnConcept(o, e)
  <2>1. orders = {IF x.id = o THEN [x EXCEPT !.no = final, !.supplier = supplier] ELSE x
                  : x \in data.orders}
    OBVIOUS
  <2> HIDE DEF orders
  <2> QED BY <2>1 DEF UpdateOrder
<1> HIDE DEF final
<1>4. change \in [data.orders -> OrderRecords]
  BY <1>1, <1>2 DEF OrderRecords
<1>5. OrdersMoveOn(data, change)
  BY <1>1 DEF OrdersInv, OrderRecords, OrdersMoveOn
<1>6. Mapped(data, e, change)
  BY DEF Mapped
<1> HIDE DEF change, e
<1>7. Sound(e) /\ Likewise(data, e)
  BY <1>1, <1>4, <1>5, <1>6, OrderMapLemma
<1> HIDE DEF e
<1>8. CASE Asks("orders") /\ Refused(data)
  BY <1>1, <1>8, SameEndLemma DEF Areas
<1>9. CASE OnConcept(o, e)
  BY <1>7, <1>9, OnConceptLemma
<1> QED BY <1>3, <1>8, <1>9

LEMMA ConfirmOrderLemma ==
  ASSUME InventoryInv, NEW o, ConfirmOrder(o)
  PROVE  InventoryInv' /\ NoNewBatch
<1> DEFINE change == [x \in data.orders |->
                        IF x.id = o THEN [x EXCEPT !.status = "OPEN"] ELSE x]
           orders == {change[x] : x \in data.orders}
           e == [data EXCEPT !.orders = orders]
<1>1. Sound(data) /\ data.orders \in SUBSET OrderRecords /\ OrdersInv(data)
  BY DEF InventoryInv, Sound, Documents, OrderRecords
<1>2. \/ Asks("orders") /\ Refused(data)
      \/ (IsConcept(o) => ReadyToConfirm(o)) /\ OnConcept(o, e)
  <2>1. orders = {IF x.id = o THEN [x EXCEPT !.status = "OPEN"] ELSE x : x \in data.orders}
    OBVIOUS
  <2> HIDE DEF orders
  <2> QED BY <2>1 DEF ConfirmOrder
<1>3. change \in [data.orders -> OrderRecords]
  BY <1>1 DEF OrderRecords, Statuses
<1>4. ASSUME ReadyToConfirm(o)
      PROVE  OrdersMoveOn(data, change)
  BY <1>1, <1>4 DEF OrdersInv, OrderRecords, ReadyToConfirm,
                     OrdersMoveOn
<1>5. Mapped(data, e, change)
  BY DEF Mapped
<1> HIDE DEF change, e
<1>6. ASSUME ReadyToConfirm(o) PROVE Sound(e) /\ Likewise(data, e)
  BY <1>1, <1>3, <1>4, <1>6, <1>5, OrderMapLemma
<1>7. CASE Asks("orders") /\ Refused(data)
  BY <1>1, <1>7, SameEndLemma DEF Areas
<1>8. CASE (IsConcept(o) => ReadyToConfirm(o)) /\ OnConcept(o, e)
  BY <1>6, <1>8, OnConceptLemma
<1> QED BY <1>2, <1>7, <1>8

(* No receipt belongs to a concept.                                        *)
LEMMA ConceptLemma ==
  ASSUME Sound(data), NEW o, IsConcept(o)
  PROVE  /\ \A r \in data.receipts : r.order # o
         /\ \A x \in data.orders : x.id = o => x.status = "CONCEPT"
         /\ \E x \in data.orders : x.id = o
BY DEF Sound, OrdersInv, DistinctIds, IsConcept, Find

LEMMA AddOrderLineLemma ==
  ASSUME InventoryInv, NEW o \in Nat, NEW item \in Ids(data.items), NEW qty \in Quantities,
         NEW unit \in Units, AddOrderLine(o, item, qty, unit)
  PROVE  InventoryInv' /\ NoNewBatch
<1> DEFINE line == [id |-> NextId(data.orderLines), order |-> o, item |-> item, qty |-> qty,
                    unit |-> unit]
           lines == data.orderLines \cup {line}
           e == [data EXCEPT !.orderLines = lines]
<1>1. Sound(data) /\ data \in Documents /\ FiniteLists(data) /\ OrdersInv(data)
  BY DEF InventoryInv, Sound
<1>2. OnConcept(o, e)
  BY DEF AddOrderLine
<1>3. line \in LineRecords /\ line.order = o
  <2>1. item \in Nat /\ qty \in Int
    BY <1>1, InventoryAssumption DEF Documents, Ids, InventoryAssumption
  <2> QED BY <1>1, <2>1, OrderIds DEF LineRecords
<1> HIDE DEF line
<1>4. /\ data.orders \in SUBSET OrderRecords /\ IsFiniteSet(data.orders)
      /\ lines \in SUBSET LineRecords /\ IsFiniteSet(lines)
  BY <1>1, <1>3, FS_AddElement DEF Documents, FiniteLists, OrderRecords, LineRecords
<1>5. Placed(data, e, data.orders, lines)
  BY <1>1 DEF Documents, Placed
<1>6. e.orders = data.orders /\ e.orderLines = lines /\ e.receipts = data.receipts
  BY <1>1 DEF Documents
<1> HIDE DEF e
<1>7. \A x : x # o => OrderLines(e, x) = OrderLines(data, x)
  BY <1>3, <1>6 DEF OrderLines
<1>8. ASSUME IsConcept(o) PROVE OrdersInv(e) /\ LinesKept(data, e)
  <2>1. /\ \A r \in data.receipts : r.order # o
        /\ \A x \in data.orders : x.id = o => x.status = "CONCEPT"
        /\ \E x \in data.orders : x.id = o
    BY <1>1, <1>8, ConceptLemma
  <2>2. \A x \in e.orders : x.status # "CONCEPT" => OrderLines(e, x.id) # {}
    BY <1>1, <1>6, <1>7, <2>1 DEF OrdersInv
  <2>3. \A l \in e.orderLines : \E x \in e.orders : x.id = l.order
    BY <1>1, <1>3, <1>6, <2>1 DEF OrdersInv
  <2>4. OrdersInv(e)
    BY <1>1, <1>6, <2>1, <2>2, <2>3 DEF OrdersInv
  <2> QED BY <1>7, <2>1, <2>4 DEF LinesKept
<1> HIDE DEF lines
<1>9. ASSUME IsConcept(o) PROVE Sound(e) /\ Likewise(data, e)
  BY <1>1, <1>4, <1>5, <1>8, <1>9, PlacedLemma
<1> QED BY <1>2, <1>9, OnConceptLemma

LEMMA DeleteOrderLineLemma ==
  ASSUME InventoryInv, NEW id, DeleteOrderLine(id)
  PROVE  InventoryInv' /\ NoNewBatch
<1>1. Sound(data) /\ data \in Documents /\ FiniteLists(data) /\ OrdersInv(data)
  BY DEF InventoryInv, Sound
<1>2. CASE Asks("orders") /\ Saved(data)
  BY <1>1, <1>2, SameEndLemma DEF Areas
<1>3. ASSUME NEW l \in Find(data.orderLines, id),
             OnConcept(l.order, [data EXCEPT !.orderLines = @ \ {l}])
      PROVE  InventoryInv' /\ NoNewBatch
  <2> DEFINE lines == data.orderLines \ {l}
             e == [data EXCEPT !.orderLines = lines]
             o == l.order
  <2>1. OnConcept(o, e) /\ l \in data.orderLines
    BY <1>3 DEF Find
  <2>2. /\ data.orders \in SUBSET OrderRecords /\ IsFiniteSet(data.orders)
        /\ lines \in SUBSET LineRecords /\ IsFiniteSet(lines)
    BY <1>1, FS_RemoveElement DEF Documents, FiniteLists, OrderRecords, LineRecords
  <2>3. Placed(data, e, data.orders, lines)
    BY <1>1 DEF Documents, Placed
  <2>4. e.orders = data.orders /\ e.orderLines = lines /\ e.receipts = data.receipts
    BY <1>1 DEF Documents
  <2> HIDE DEF e
  <2>5. \A x : x # o => OrderLines(e, x) = OrderLines(data, x)
    BY <2>4 DEF OrderLines
  <2>6. ASSUME IsConcept(o) PROVE OrdersInv(e) /\ LinesKept(data, e)
    <3>1. /\ \A r \in data.receipts : r.order # o
          /\ \A x \in data.orders : x.id = o => x.status = "CONCEPT"
      BY <1>1, <2>6, ConceptLemma
    <3>2. \A x \in e.orders : x.status # "CONCEPT" => OrderLines(e, x.id) # {}
      BY <1>1, <2>4, <2>5, <3>1 DEF OrdersInv
    <3>3. OrdersInv(e)
      BY <1>1, <2>4, <3>1, <3>2 DEF OrdersInv
    <3> QED BY <2>5, <3>1, <3>3 DEF LinesKept
  <2> HIDE DEF lines, o
  <2>7. ASSUME IsConcept(o) PROVE Sound(e) /\ Likewise(data, e)
    BY <1>1, <2>2, <2>3, <2>6, <2>7, PlacedLemma
  <2> QED BY <2>1, <2>7, OnConceptLemma
<1> QED BY <1>2, <1>3 DEF DeleteOrderLine

LEMMA DeleteOrderLemma ==
  ASSUME InventoryInv, NEW o, DeleteOrder(o)
  PROVE  InventoryInv' /\ NoNewBatch
<1> DEFINE gone == Ids(ReceiptsOf(data, o))
           moves == {m \in data.moves : ~(m.of = "receipt" /\ m.ref \in gone)}
           receiptLines == {l \in data.receiptLines : l.receipt \notin gone}
           receipts == {r \in data.receipts : r.order # o}
           lines == {l \in data.orderLines : l.order # o}
           orders == {x \in data.orders : x.id # o}
           e == [data EXCEPT !.moves = moves, !.receiptLines = receiptLines,
                             !.receipts = receipts, !.orderLines = lines, !.orders = orders]
<1>1. Sound(data) /\ data \in Documents /\ FiniteLists(data) /\ OrdersInv(data)
  BY DEF InventoryInv, Sound
<1>2. OnConcept(o, e)
  BY DEF DeleteOrder
<1>3. ASSUME IsConcept(o) PROVE Sound(e) /\ Likewise(data, e)
  <2>1. \A r \in data.receipts : r.order # o
    BY <1>1, <1>3, ConceptLemma
  <2>2. gone = {}
    BY <2>1 DEF Ids, ReceiptsOf
  <2>3. moves = data.moves /\ receiptLines = data.receiptLines /\ receipts = data.receipts
    BY <2>1, <2>2
  <2>4. Placed(data, e, orders, lines)
    <3>1. e = [data EXCEPT !.moves = data.moves, !.receiptLines = data.receiptLines,
                           !.receipts = data.receipts, !.orderLines = lines,
                           !.orders = orders]
      BY <2>3
    <3> HIDE DEF e, orders, lines
    <3> QED BY <1>1, <3>1 DEF Documents, Placed
  <2>5. lines \subseteq data.orderLines /\ orders \subseteq data.orders
    OBVIOUS
  <2>6. /\ orders \in SUBSET OrderRecords /\ IsFiniteSet(orders)
        /\ lines \in SUBSET LineRecords /\ IsFiniteSet(lines)
    <3> HIDE DEF orders, lines
    <3> QED BY <1>1, <2>5, FS_Subset DEF Documents, FiniteLists, OrderRecords, LineRecords
  <2> HIDE DEF e
  <2>7. e.orders = orders /\ e.orderLines = lines /\ e.receipts = data.receipts
    <3> HIDE DEF orders, lines
    <3> QED BY <1>1, <2>4 DEF Documents, Placed
  <2>8. \A x : x # o => OrderLines(e, x) = OrderLines(data, x)
    BY <2>7 DEF OrderLines
  <2>9. OrdersInv(e)
    <3>1. \A x \in e.orders : x.status # "CONCEPT" => OrderLines(e, x.id) # {}
      BY <1>1, <2>7, <2>8 DEF OrdersInv
    <3>2. \A r \in e.receipts : \E x \in e.orders : x.id = r.order /\ x.status # "CONCEPT"
      BY <1>1, <2>1, <2>7 DEF OrdersInv
    <3>3. \A l \in e.orderLines : \E x \in e.orders : x.id = l.order
      BY <1>1, <2>7 DEF OrdersInv
    <3>4. DistinctIds(e.orders)
      BY <1>1, <2>7 DEF OrdersInv, DistinctIds
    <3> QED BY <3>1, <3>2, <3>3, <3>4 DEF OrdersInv
  <2>10. LinesKept(data, e)
    BY <2>1, <2>8 DEF LinesKept
  <2> HIDE DEF orders, lines
  <2> QED BY <1>1, <2>4, <2>6, <2>9, <2>10, PlacedLemma
<1> HIDE DEF e
<1> QED BY <1>2, <1>3, OnConceptLemma

LEMMA OrdersGoOn ==
  ASSUME InventoryInv, Orders
  PROVE  InventoryInv' /\ NoNewBatch
<1>1. Some \subseteq Nat /\ Some \cup {NoRef} \subseteq Nat
  BY InventoryAssumption DEF Some, NoRef, InventoryAssumption
<1>2. Sound(data)
  BY DEF InventoryInv
<1>3. ASSUME NEW no \in Some \cup {NoRef}, NEW supplier \in data.suppliers,
             \/ CreateOrder(no, supplier)
             \/ \E o \in Some : UpdateOrder(o, no, supplier)
      PROVE  InventoryInv' /\ NoNewBatch
  BY <1>1, <1>3, CreateOrderLemma, UpdateOrderLemma
<1>4. ASSUME NEW o \in Some,
             \/ ConfirmOrder(o) \/ DeleteOrderLine(o) \/ DeleteOrder(o)
             \/ SetVat(o) \/ ClearLineVat(o)
      PROVE  InventoryInv' /\ NoNewBatch
  <2>1. Likewise(data, data)
    BY LikewiseLemma
  <2> QED BY <1>2, <1>4, <2>1, ConfirmOrderLemma, DeleteOrderLineLemma, DeleteOrderLemma,
             OnConceptLemma DEF SetVat, ClearLineVat
<1>5. ASSUME NEW o \in Some, NEW item \in Ids(data.items), NEW qty \in Quantities,
             NEW unit \in Units, AddOrderLine(o, item, qty, unit)
      PROVE  InventoryInv' /\ NoNewBatch
  BY <1>1, <1>5, AddOrderLineLemma
<1> QED BY <1>3, <1>4, <1>5 DEF Orders

LEMMA CatalogueGoesOn ==
  ASSUME InventoryInv, Catalogue
  PROVE  InventoryInv' /\ NoNewBatch
<1>1. Some \subseteq Nat /\ Some \cup {NoRef} \subseteq Nat
  BY InventoryAssumption DEF Some, NoRef, InventoryAssumption
<1>2. ASSUME NEW sku \in Skus \cup {Blank}, NEW parent \in Some \cup {NoRef},
             NEW unit \in Units,
             \/ CreateItem(sku, parent, unit)
             \/ \E id \in Some : EditItem(id, sku, parent, unit)
      PROVE  InventoryInv' /\ NoNewBatch
  BY <1>1, <1>2, CreateItemLemma, EditItemLemma
<1>3. ASSUME NEW id \in Some, DeleteItem(id) \/ DeleteConversion(id) \/ DeleteSupplier(id)
      PROVE  InventoryInv' /\ NoNewBatch
  BY <1>1, <1>3, DeleteItemLemma, ConversionLemma, SupplierLemma
<1>4. ASSUME NEW id \in Some, NEW unit \in Units, NEW f \in Factors,
             CreateConversion(id, unit, f) \/ EditConversion(id, unit, f)
      PROVE  InventoryInv' /\ NoNewBatch
  BY <1>1, <1>4, ConversionLemma
<1>5. CASE CreateSupplier \/ EditSupplier
  <2>1. 0 \in Nat
    OBVIOUS
  <2> QED BY <1>5, <2>1, SupplierLemma
<1> QED BY <1>2, <1>3, <1>4, <1>5 DEF Catalogue

-----------------------------------------------------------------------------
(* Goods receipts.                                                         *)

ReceiptRecords == [id : Nat, order : Nat, received : BOOLEAN, cut : BOOLEAN]
ReceiptLineRecords ==
  [id : Nat, receipt : Nat, item : Nat, poLine : Nat, qty : Int, unit : Units,
   expired : BOOLEAN]
MoveRecords ==
  [id : Nat, item : Nat, qty : Int, per : Int \ {0}, of : {"receipt", "batch"}, ref : Nat]

(* A quantity in the base unit is one.                                     *)
LEMMA InBaseLemma ==
  ASSUME NEW d \in Documents, NEW l, l.qty \in Int
  PROVE  InBase(d, l) \in Int
<1> DEFINE F == UnitFactor(d, l.item, l.unit)
<1>1. F \subseteq Int
  <2>1. d.convs \subseteq [id : Nat, item : Nat, unit : Units, factor : Int]
    BY DEF Documents
  <2> QED BY <2>1 DEF UnitFactor, First
<1>2. InBase(d, l) = IF F # {} THEN l.qty * (CHOOSE f \in F : TRUE) ELSE 0
  BY DEF InBase, Known
<1> HIDE DEF F
<1>3. CASE F # {}
  <2>1. PICK f : f = CHOOSE g \in F : TRUE
    OBVIOUS
  <2>2. f \in Int
    BY <1>1, <1>3, <2>1
  <2> QED BY <1>2, <1>3, <2>1, <2>2
<1> QED BY <1>2, <1>3

LEMMA RankLemma ==
  ASSUME NEW list, IsFiniteSet(list), NEW x
  PROVE  Rank(list, x) \in Nat
<1>1. IsFiniteSet({y \in list : y.id < x.id})
  <2>1. {y \in list : y.id < x.id} \in SUBSET list
    OBVIOUS
  <2> QED BY <2>1, FS_Subset
<1> QED BY <1>1, FS_CardinalityType DEF Rank

(* Receipts, their lines and their stock change, and nothing else.         *)
Stocked(d, e, receipts, lines, moves) ==
  e = [d EXCEPT !.receipts = receipts, !.receiptLines = lines, !.moves = moves]

ReceiptsPlaced(d, receipts) ==
  \A r \in receipts : \E o \in d.orders : o.id = r.order /\ o.status # "CONCEPT"

BatchMovesKept(d, moves) ==
  \A m : m.of = "batch" => (m \in moves <=> m \in d.moves)

LEMMA StockedLemma ==
  ASSUME NEW d, Sound(d), NEW receipts \in SUBSET ReceiptRecords,
         NEW lines \in SUBSET ReceiptLineRecords, NEW moves \in SUBSET MoveRecords,
         IsFiniteSet(receipts), IsFiniteSet(lines), IsFiniteSet(moves),
         NEW e, Stocked(d, e, receipts, lines, moves),
         StockInv(e), ReceiptsPlaced(d, receipts), BatchMovesKept(d, moves)
  PROVE  Sound(e) /\ Likewise(d, e)
<1>1. d \in Documents /\ FiniteLists(d)
  BY DEF Sound
<1>2. e \in Documents
  BY <1>1 DEF Documents, ReceiptRecords, ReceiptLineRecords, MoveRecords, Stocked
<1>3. /\ e.items = d.items /\ e.convs = d.convs /\ e.suppliers = d.suppliers
      /\ e.orders = d.orders /\ e.orderLines = d.orderLines
      /\ e.receipts = receipts /\ e.receiptLines = lines
      /\ e.moves = moves /\ e.boms = d.boms /\ e.bomLines = d.bomLines
      /\ e.batches = d.batches
  BY <1>1 DEF Documents, Stocked
<1>4. FiniteLists(e)
  BY <1>1, <1>3 DEF FiniteLists
<1>5. OrdersInv(e)
  BY <1>3 DEF Sound, OrdersInv, OrderLines, ReceiptsPlaced
<1>6. BatchInv(e)
  BY <1>3 DEF Sound, BatchInv, BatchMovesKept
<1>7. Likewise(d, e)
  BY <1>3 DEF Likewise, Keeps, PostedFor, BatchMovesKept
<1> QED BY <1>2, <1>3, <1>4, <1>5, <1>6, <1>7, ChangeLemma

LEMMA ReceiptTypes ==
  ASSUME NEW d, Sound(d)
  PROVE  /\ d.receipts \in SUBSET ReceiptRecords /\ IsFiniteSet(d.receipts)
         /\ d.receiptLines \in SUBSET ReceiptLineRecords /\ IsFiniteSet(d.receiptLines)
         /\ d.moves \in SUBSET MoveRecords /\ IsFiniteSet(d.moves)
         /\ NextId(d.receipts) \in Nat /\ \A x \in d.receipts : x.id < NextId(d.receipts)
         /\ NextId(d.receiptLines) \in Nat /\ NextId(d.moves) \in Nat
         /\ ReceiptsPlaced(d, d.receipts) /\ BatchMovesKept(d, d.moves)
<1>1. /\ d.receipts \in SUBSET ReceiptRecords /\ IsFiniteSet(d.receipts)
      /\ d.receiptLines \in SUBSET ReceiptLineRecords /\ IsFiniteSet(d.receiptLines)
      /\ d.moves \in SUBSET MoveRecords /\ IsFiniteSet(d.moves)
  BY DEF Sound, Documents, FiniteLists, ReceiptRecords, ReceiptLineRecords, MoveRecords
<1>2. /\ \A x \in d.receipts : x.id \in Nat
      /\ \A x \in d.receiptLines : x.id \in Nat
      /\ \A x \in d.moves : x.id \in Nat
  BY <1>1 DEF ReceiptRecords, ReceiptLineRecords, MoveRecords
<1>3. ReceiptsPlaced(d, d.receipts) /\ BatchMovesKept(d, d.moves)
  BY DEF Sound, OrdersInv, ReceiptsPlaced, BatchMovesKept
<1> QED BY <1>1, <1>2, <1>3, NextIdLemma

(* A receipt that is neither confirmed nor cut has no stock.               *)
LEMMA NoStock ==
  ASSUME NEW d, Sound(d), NEW id, \A x \in d.receipts : x.id = id => ~(x.received \/ x.cut)
  PROVE  StockOf(d, id) = {}
BY DEF Sound, StockInv, StockOf

LEMMA StockSize ==
  ASSUME NEW d, Sound(d), NEW id, NEW o
  PROVE  /\ IsFiniteSet(StockOf(d, id)) /\ Cardinality(StockOf(d, id)) \in Nat
         /\ IsFiniteSet(OrderLines(d, o)) /\ Cardinality(OrderLines(d, o)) \in Nat
<1>1. IsFiniteSet(d.moves) /\ IsFiniteSet(d.orderLines)
  BY DEF Sound, FiniteLists
<1>2. StockOf(d, id) \in SUBSET d.moves /\ OrderLines(d, o) \in SUBSET d.orderLines
  BY DEF StockOf, OrderLines
<1>3. IsFiniteSet(StockOf(d, id)) /\ IsFiniteSet(OrderLines(d, o))
  BY <1>1, <1>2, FS_Subset
<1> QED BY <1>3, FS_CardinalityType

LEMMA CreateReceiptLemma ==
  ASSUME InventoryInv, NEW o \in Nat, CreateReceipt(o)
  PROVE  InventoryInv' /\ NoNewBatch
<1> DEFINE n == NextId(data.receipts)
           draft == Draft(n, o)
           receipts == data.receipts \cup {draft}
           e == [data EXCEPT !.receipts = receipts]
<1>1. Sound(data) /\ data \in Documents /\ StockInv(data)
  BY DEF InventoryInv, Sound
<1>2. /\ Asks("receipts")
      /\ Crashed \/ (Find(data.orders, o) # {} /\ ~IsConcept(o) /\ Saved(e))
  BY DEF CreateReceipt
<1>3. CASE Crashed
  BY <1>2, <1>3, AsksLemma, CrashLemma DEF Areas
<1>4. CASE Find(data.orders, o) # {} /\ ~IsConcept(o) /\ Saved(e)
  <2>1. n \in Nat /\ (\A x \in data.receipts : x.id < n /\ x.id \in Nat)
    BY <1>1, ReceiptTypes DEF ReceiptRecords
  <2>2. /\ draft \in ReceiptRecords /\ draft.id = n /\ draft.order = o
        /\ ~draft.received /\ ~draft.cut
    BY <2>1 DEF Draft, ReceiptRecords
  <2>3. \A x \in data.receipts : x.id # n
    BY <2>1
  <2> HIDE DEF n, draft
  <2>4. receipts \in SUBSET ReceiptRecords /\ IsFiniteSet(receipts)
    BY <1>1, <2>2, ReceiptTypes, FS_AddElement
  <2>5. ReceiptsPlaced(data, receipts)
    <3>1. \E x \in data.orders : x.id = o /\ x.status # "CONCEPT"
      BY <1>4 DEF Find, IsConcept
    <3> QED BY <1>1, <2>2, <3>1, ReceiptTypes DEF ReceiptsPlaced
  <2>6. Stocked(data, e, receipts, data.receiptLines, data.moves)
    BY <1>1 DEF Documents, Stocked
  <2>7. e.receipts = receipts /\ e.moves = data.moves /\ e.orderLines = data.orderLines
    BY <1>1 DEF Documents
  <2> HIDE DEF e
  <2>8. StockInv(e)
    <3>1. DistinctIds(e.receipts)
      BY <1>1, <2>2, <2>3, <2>7 DEF StockInv, DistinctIds
    <3>2. \A m \in e.moves : m.of = "receipt" =>
            \E r \in e.receipts : r.id = m.ref /\ (r.received \/ r.cut)
      BY <1>1, <2>7 DEF StockInv
    <3>3. ASSUME NEW r \in e.receipts, ~r.cut
          PROVE  Cardinality(StockOf(e, r.id)) <= Cardinality(OrderLines(e, r.order))
      <4>1. /\ StockOf(e, r.id) = StockOf(data, r.id)
            /\ OrderLines(e, r.order) = OrderLines(data, r.order)
        BY <2>7 DEF StockOf, OrderLines
      <4>2. CASE r \in data.receipts
        BY <1>1, <3>3, <4>1, <4>2 DEF StockInv
      <4>3. CASE r = draft
        <5>1. StockOf(data, r.id) = {}
          BY <1>1, <2>2, <2>3, <4>3, NoStock
        <5>2. Cardinality(StockOf(e, r.id)) = 0
          BY <4>1, <5>1, FS_EmptySet
        <5> QED BY <1>1, <4>1, <5>2, StockSize
      <4> QED BY <2>7, <4>2, <4>3
    <3> QED BY <3>1, <3>2, <3>3 DEF StockInv
  <2> HIDE DEF receipts
  <2>9. Sound(e) /\ Likewise(data, e)
    BY <1>1, <2>4, <2>5, <2>6, <2>8, ReceiptTypes, StockedLemma
  <2> QED BY <1>2, <1>4, <2>9, SameEndLemma DEF Areas
<1> QED BY <1>2, <1>3, <1>4

(* What confirming a receipt posts: at most one movement for each line of  *)
(* its order.                                                              *)
LEMMA PostedLemma ==
  ASSUME Sound(data), NEW r \in data.receipts,
         NEW q \in [Ids(OrderLines(data, r.order)) -> Deliveries]
  PROVE  \E lines \in SUBSET ReceiptLineRecords, new \in SUBSET MoveRecords :
           /\ IsFiniteSet(lines) /\ IsFiniteSet(new)
           /\ Cardinality(new) <= Cardinality(OrderLines(data, r.order))
           /\ \A m \in new : m.of = "receipt" /\ m.ref = r.id
           /\ WithPosted(r, q) =
                [data EXCEPT !.receiptLines = lines, !.moves = data.moves \cup new]
<1> DEFINE posted == Posted(r.order, q)
           line == [l \in posted |->
                      [id |-> NextId(data.receiptLines) + Rank(posted, l), receipt |-> r.id,
                       item |-> l.item, poLine |-> l.id, qty |-> q[l.id], unit |-> l.unit,
                       expired |-> FALSE]]
           move == [l \in posted |->
                      [id |-> NextId(data.moves) + Rank(posted, l), item |-> l.item,
                       qty |-> InBase(data, [l EXCEPT !.qty = q[l.id]]), per |-> 1,
                       of |-> "receipt", ref |-> r.id]]
           newLines == {line[l] : l \in posted}
           lines == data.receiptLines \cup newLines
           new == {move[l] : l \in posted}
<1>1. posted \subseteq OrderLines(data, r.order)
  BY DEF Posted, Taken
<1>2. IsFiniteSet(posted) /\ Cardinality(posted) <= Cardinality(OrderLines(data, r.order))
  BY <1>1, StockSize, FS_Subset
<1>3. r.id \in Nat
  BY ReceiptTypes DEF ReceiptRecords
<1>4. \A l \in posted : l \in LineRecords /\ q[l.id] \in Int
  <2>1. OrderLines(data, r.order) \subseteq LineRecords
    BY DEF Sound, Documents, OrderLines, LineRecords
  <2>2. \A l \in posted : q[l.id] \in Deliveries
    BY <1>1 DEF Ids
  <2> QED BY <1>1, <2>1, <2>2, InventoryAssumption DEF InventoryAssumption
<1>5. WithPosted(r, q) = [data EXCEPT !.receiptLines = lines, !.moves = data.moves \cup new]
  <2>1. newLines = {[id |-> NextId(data.receiptLines) + Rank(posted, l), receipt |-> r.id,
                     item |-> l.item, poLine |-> l.id, qty |-> q[l.id], unit |-> l.unit,
                     expired |-> FALSE] : l \in posted}
    OBVIOUS
  <2>2. new = {[id |-> NextId(data.moves) + Rank(posted, l), item |-> l.item,
                qty |-> InBase(data, [l EXCEPT !.qty = q[l.id]]), per |-> 1,
                of |-> "receipt", ref |-> r.id] : l \in posted}
    OBVIOUS
  <2> HIDE DEF newLines, new
  <2> QED BY <2>1, <2>2 DEF WithPosted
<1> HIDE DEF posted
<1>6. \A l \in posted : line[l] \in ReceiptLineRecords
  <2> SUFFICES ASSUME NEW l \in posted PROVE line[l] \in ReceiptLineRecords
    OBVIOUS
  <2>1. NextId(data.receiptLines) + Rank(posted, l) \in Nat
    <3>1. NextId(data.receiptLines) \in Nat /\ Rank(posted, l) \in Nat
      BY <1>2, ReceiptTypes, RankLemma
    <3> QED BY <3>1
  <2> QED BY <1>3, <1>4, <2>1 DEF ReceiptLineRecords, LineRecords
<1>7. \A l \in posted : move[l] \in MoveRecords /\ move[l].of = "receipt" /\ move[l].ref = r.id
  <2> SUFFICES ASSUME NEW l \in posted
               PROVE  /\ move[l] \in MoveRecords
                      /\ move[l].of = "receipt" /\ move[l].ref = r.id
    OBVIOUS
  <2>1. NextId(data.moves) + Rank(posted, l) \in Nat
    <3>1. NextId(data.moves) \in Nat /\ Rank(posted, l) \in Nat
      BY <1>2, ReceiptTypes, RankLemma
    <3> QED BY <3>1
  <2>2. InBase(data, [l EXCEPT !.qty = q[l.id]]) \in Int
    <3>1. [l EXCEPT !.qty = q[l.id]].qty \in Int /\ data \in Documents
      BY <1>4 DEF LineRecords, Sound
    <3> QED BY <3>1, InBaseLemma
  <2>3. l.item \in Nat
    BY <1>4 DEF LineRecords
  <2> QED BY <1>3, <2>1, <2>2, <2>3 DEF MoveRecords
<1>8. DOMAIN line = posted /\ DOMAIN move = posted
  OBVIOUS
<1> HIDE DEF line, move
<1>9. /\ IsFiniteSet(newLines) /\ IsFiniteSet(new) /\ Cardinality(new) <= Cardinality(posted)
  BY <1>2, <1>8, ImageLemma
<1>10. Cardinality(new) <= Cardinality(OrderLines(data, r.order))
  <2>1. /\ Cardinality(new) \in Nat /\ Cardinality(posted) \in Nat
        /\ Cardinality(OrderLines(data, r.order)) \in Nat
    BY <1>2, <1>9, StockSize, FS_CardinalityType
  <2> HIDE DEF new
  <2> QED BY <1>2, <1>9, <2>1
<1>11. lines \in SUBSET ReceiptLineRecords /\ IsFiniteSet(lines)
  <2>1. newLines \in SUBSET ReceiptLineRecords
    BY <1>6
  <2> HIDE DEF newLines
  <2> QED BY <1>9, <2>1, ReceiptTypes, FS_Union
<1>12. new \in SUBSET MoveRecords /\ \A m \in new : m.of = "receipt" /\ m.ref = r.id
  BY <1>7
<1> HIDE DEF lines, new
<1> QED BY <1>5, <1>9, <1>10, <1>11, <1>12

(* A receipt takes the place of another that had no stock unless it was    *)
(* cut; a new draft may be added.                                          *)
Succeeds(r, s) == s \in ReceiptRecords /\ s.id = r.id /\ s.order = r.order

LEMMA ConfirmedLemma ==
  ASSUME Sound(data), NEW r \in data.receipts, ~r.received,
         NEW s, Succeeds(r, s), s.received \/ s.cut, s.cut \/ ~r.cut,
         NEW drafts \in SUBSET {Draft(NextId(data.receipts), r.order)},
         NEW receipts, receipts = ((data.receipts \ {r}) \cup {s}) \cup drafts,
         NEW lines \in SUBSET ReceiptLineRecords, IsFiniteSet(lines),
         NEW new \in SUBSET MoveRecords, IsFiniteSet(new),
         Cardinality(new) <= Cardinality(OrderLines(data, r.order)),
         \A m \in new : m.of = "receipt" /\ m.ref = r.id,
         NEW e, Stocked(data, e, receipts, lines, data.moves \cup new)
  PROVE  Sound(e) /\ Likewise(data, e)
<1> DEFINE n == NextId(data.receipts)
           draft == Draft(n, r.order)
<1>1. data \in Documents /\ StockInv(data) /\ ReceiptsPlaced(data, data.receipts)
  BY ReceiptTypes DEF Sound
<1>2. n \in Nat /\ (\A x \in data.receipts : x.id < n /\ x.id \in Nat)
  BY ReceiptTypes DEF ReceiptRecords
<1>3. /\ draft \in ReceiptRecords /\ draft.id = n /\ draft.order = r.order
      /\ ~draft.received /\ ~draft.cut
  BY <1>2, ReceiptTypes DEF Draft, ReceiptRecords
<1>4. (\A x \in data.receipts : x.id # n) /\ r.id # n
  BY <1>2
<1>5. drafts \in SUBSET {draft}
  OBVIOUS
<1> HIDE DEF draft, n
<1>6. s \in ReceiptRecords /\ s.id = r.id /\ s.order = r.order
  BY DEF Succeeds
<1>7. receipts \in SUBSET ReceiptRecords
  BY <1>3, <1>5, <1>6, ReceiptTypes
<1>8. IsFiniteSet(receipts)
  <2>1. IsFiniteSet(data.receipts \ {r})
    BY ReceiptTypes, FS_RemoveElement
  <2>2. IsFiniteSet((data.receipts \ {r}) \cup {s})
    BY <2>1, FS_AddElement
  <2>3. drafts = {} \/ drafts = {draft}
    BY <1>5
  <2>4. CASE drafts = {}
    BY <2>2, <2>4
  <2>5. CASE drafts = {draft}
    BY <2>2, <2>5, FS_AddElement
  <2> QED BY <2>3, <2>4, <2>5
<1>9. ReceiptsPlaced(data, receipts)
  BY <1>1, <1>3, <1>5, <1>6 DEF ReceiptsPlaced
<1>10. BatchMovesKept(data, data.moves \cup new)
  BY ReceiptTypes DEF BatchMovesKept
<1>11. e.receipts = receipts /\ e.moves = data.moves \cup new /\ e.orderLines = data.orderLines
  BY <1>1 DEF Documents, Stocked
<1>12. StockInv(e)
  <2>1. DistinctIds(e.receipts)
    BY <1>1, <1>3, <1>4, <1>5, <1>6, <1>11 DEF StockInv, DistinctIds
  <2>2. \A m \in e.moves : m.of = "receipt" =>
          \E x \in e.receipts : x.id = m.ref /\ (x.received \/ x.cut)
    BY <1>1, <1>6, <1>11 DEF StockInv
  <2>3. ASSUME NEW x \in e.receipts, ~x.cut
        PROVE  Cardinality(StockOf(e, x.id)) <= Cardinality(OrderLines(e, x.order))
    <3>1. OrderLines(e, x.order) = OrderLines(data, x.order)
      BY <1>11 DEF OrderLines
    <3>2. CASE x \in data.receipts \ {r}
      <4>1. x.id # r.id
        BY <1>1, <3>2 DEF StockInv, DistinctIds
      <4>2. StockOf(e, x.id) = StockOf(data, x.id)
        BY <1>11, <4>1 DEF StockOf
      <4> QED BY <1>1, <2>3, <3>1, <3>2, <4>2 DEF StockInv
    <3>3. CASE x = s
      <4>1. StockOf(data, r.id) = {}
        <5>1. \A y \in data.receipts : y.id = r.id => y = r
          BY <1>1 DEF StockInv, DistinctIds
        <5>2. ~(r.received \/ r.cut)
          BY <2>3, <3>3
        <5> QED BY <5>1, <5>2, NoStock
      <4>2. StockOf(e, x.id) = new
        BY <1>6, <1>11, <3>3, <4>1 DEF StockOf
      <4> QED BY <1>6, <3>1, <3>3, <4>2
    <3>4. CASE x = draft
      <4>1. StockOf(data, x.id) = {}
        BY <1>3, <1>4, <3>4, NoStock
      <4>2. StockOf(e, x.id) = {}
        BY <1>3, <1>4, <1>11, <3>4, <4>1 DEF StockOf
      <4>3. Cardinality(StockOf(e, x.id)) = 0
        BY <4>2, FS_EmptySet
      <4> QED BY <3>1, <4>3, StockSize
    <3> QED BY <1>5, <1>11, <3>2, <3>3, <3>4
  <2> QED BY <2>1, <2>2, <2>3 DEF StockInv
<1>13. data.moves \cup new \in SUBSET MoveRecords /\ IsFiniteSet(data.moves \cup new)
  BY ReceiptTypes, FS_Union
<1>14. Sound(data)
  OBVIOUS
<1> QED BY <1>7, <1>8, <1>9, <1>10, <1>12, <1>13, <1>14, StockedLemma

LEMMA ConfirmReceiptLemma ==
  ASSUME InventoryInv, NEW r \in data.receipts,
         NEW q \in [Ids(OrderLines(data, r.order)) -> Deliveries], ConfirmReceipt(r, q)
  PROVE  InventoryInv' /\ NoNewBatch
<1> DEFINE posted == WithPosted(r, q)
           done == WithReceived(posted, r, q)
           halfway == WithCut(posted, r)
           after == WithStatus(done, r.order)
<1>1. Sound(data) /\ data \in Documents /\ r \in ReceiptRecords
  BY ReceiptTypes DEF InventoryInv, Sound
<1>2. /\ Asks("receipts")
      /\ \/ Refused(data)
         \/ ~r.received /\ Refused(halfway)
         \/ ~r.received /\ (Refused(after) \/ Saved(after))
  BY DEF ConfirmReceipt
<1>3. PICK lines \in SUBSET ReceiptLineRecords, new \in SUBSET MoveRecords :
        /\ IsFiniteSet(lines) /\ IsFiniteSet(new)
        /\ Cardinality(new) <= Cardinality(OrderLines(data, r.order))
        /\ \A m \in new : m.of = "receipt" /\ m.ref = r.id
        /\ posted = [data EXCEPT !.receiptLines = lines, !.moves = data.moves \cup new]
  BY <1>1, PostedLemma
<1>4. CASE Refused(data)
  BY <1>1, <1>2, <1>4, SameEndLemma DEF Areas
<1>5. CASE ~r.received /\ Refused(halfway)
  <2>1. PICK s : s = [r EXCEPT !.cut = TRUE]
    OBVIOUS
  <2>2. Succeeds(r, s) /\ s.cut
    BY <1>1, <2>1 DEF Succeeds, ReceiptRecords
  <2>3. PICK receipts : receipts = ((data.receipts \ {r}) \cup {s}) \cup {}
    OBVIOUS
  <2>4. PICK e : e = halfway
    OBVIOUS
  <2>5. Stocked(data, e, receipts, lines, data.moves \cup new)
    BY <1>1, <1>3, <2>1, <2>3, <2>4 DEF WithCut, Stocked, Documents
  <2>6. {} \in SUBSET {Draft(NextId(data.receipts), r.order)}
    OBVIOUS
  <2>7. Sound(e) /\ Likewise(data, e)
    BY <1>1, <1>3, <1>5, <2>2, <2>3, <2>5, <2>6, ConfirmedLemma
  <2> HIDE DEF halfway
  <2> QED BY <1>2, <1>5, <2>4, <2>7, SameEndLemma DEF Areas
<1>6. CASE ~r.received /\ (Refused(after) \/ Saved(after))
  <2>1. PICK s : s = [r EXCEPT !.received = TRUE]
    OBVIOUS
  <2>2. Succeeds(r, s) /\ s.received
    BY <1>1, <2>1 DEF Succeeds, ReceiptRecords
  <2>3. (s.received \/ s.cut) /\ (s.cut \/ ~r.cut)
    BY <1>1, <2>1 DEF ReceiptRecords
  <2>4. PICK drafts \in SUBSET {Draft(NextId(data.receipts), r.order)} :
          done.receipts = ((data.receipts \ {r}) \cup {s}) \cup drafts
          /\ done = [posted EXCEPT !.receipts = done.receipts]
    <3>1. posted.receipts = data.receipts /\ DOMAIN posted = DOMAIN data
          /\ "receipts" \in DOMAIN posted
      BY <1>1, <1>3 DEF Documents
    <3> HIDE DEF posted
    <3>2. CASE Shortage(r.order, q)
      <4>1. done.receipts = ((data.receipts \ {r}) \cup {s})
                              \cup {Draft(NextId(data.receipts), r.order)}
            /\ done = [posted EXCEPT !.receipts = done.receipts]
        BY <2>1, <3>1, <3>2 DEF WithReceived
      <4> QED BY <4>1
    <3>3. CASE ~Shortage(r.order, q)
      <4>1. done.receipts = ((data.receipts \ {r}) \cup {s}) \cup {}
            /\ done = [posted EXCEPT !.receipts = done.receipts]
        BY <2>1, <3>1, <3>3 DEF WithReceived
      <4>2. {} \in SUBSET {Draft(NextId(data.receipts), r.order)}
        OBVIOUS
      <4> HIDE DEF done
      <4> QED BY <4>1, <4>2
    <3> QED BY <3>2, <3>3
  <2>5. PICK receipts : receipts = ((data.receipts \ {r}) \cup {s}) \cup drafts
    OBVIOUS
  <2>6. PICK e : e = done
    OBVIOUS
  <2>7. Stocked(data, e, receipts, lines, data.moves \cup new)
    <3>1. e = [posted EXCEPT !.receipts = receipts]
      BY <2>4, <2>5, <2>6
    <3> HIDE DEF done
    <3> QED BY <1>1, <1>3, <3>1 DEF Stocked, Documents
  <2>8. Sound(e) /\ Likewise(data, e)
    BY <1>1, <1>3, <1>6, <2>2, <2>3, <2>5, <2>7, ConfirmedLemma
  <2>9. Sound(after) /\ Likewise(data, after)
    <3> HIDE DEF done
    <3> QED BY <2>6, <2>8, StatusLemma, LikewiseLemma
  <2> HIDE DEF after
  <2> QED BY <1>2, <1>6, <2>9, SameEndLemma DEF Areas
<1> QED BY <1>2, <1>4, <1>5, <1>6

(* The stock of a receipt is taken back; the receipt goes, or another      *)
(* takes its place.                                                        *)
LEMMA TakenBackLemma ==
  ASSUME Sound(data), NEW r \in data.receipts, NEW s, Succeeds(r, s),
         NEW kept \in SUBSET {s},
         NEW receipts, receipts = (data.receipts \ {r}) \cup kept,
         NEW lines \in SUBSET ReceiptLineRecords, IsFiniteSet(lines),
         NEW e, Stocked(data, e, receipts, lines, data.moves \ OfReceipt(r.id))
  PROVE  Sound(e) /\ Likewise(data, e)
<1> DEFINE moves == data.moves \ OfReceipt(r.id)
<1>1. data \in Documents /\ StockInv(data) /\ ReceiptsPlaced(data, data.receipts)
  BY ReceiptTypes DEF Sound
<1>2. s \in ReceiptRecords /\ s.id = r.id /\ s.order = r.order
  BY DEF Succeeds
<1>3. receipts \in SUBSET ReceiptRecords
  BY <1>2, ReceiptTypes
<1>4. IsFiniteSet(receipts)
  <2>1. IsFiniteSet(data.receipts \ {r})
    BY ReceiptTypes, FS_RemoveElement
  <2>2. kept = {} \/ kept = {s}
    OBVIOUS
  <2>3. CASE kept = {}
    BY <2>1, <2>3
  <2>4. CASE kept = {s}
    BY <2>1, <2>4, FS_AddElement
  <2> QED BY <2>2, <2>3, <2>4
<1>5. ReceiptsPlaced(data, receipts)
  BY <1>1, <1>2 DEF ReceiptsPlaced
<1>6. moves \in SUBSET MoveRecords /\ IsFiniteSet(moves) /\ BatchMovesKept(data, moves)
  <2>1. moves \in SUBSET data.moves
    OBVIOUS
  <2>2. BatchMovesKept(data, moves)
    BY DEF BatchMovesKept, OfReceipt, StockOf
  <2> HIDE DEF moves
  <2> QED BY <2>1, <2>2, ReceiptTypes, FS_Subset
<1>7. e.receipts = receipts /\ e.moves = moves /\ e.orderLines = data.orderLines
  BY <1>1 DEF Documents, Stocked
<1>8. \A m \in moves : m \in data.moves /\ (m.of = "receipt" => m.ref # r.id)
  BY DEF OfReceipt, StockOf
<1>9. StockInv(e)
  <2>1. DistinctIds(e.receipts)
    BY <1>1, <1>2, <1>7 DEF StockInv, DistinctIds
  <2>2. \A m \in e.moves : m.of = "receipt" =>
          \E x \in e.receipts : x.id = m.ref /\ (x.received \/ x.cut)
    <3> SUFFICES ASSUME NEW m \in moves, m.of = "receipt"
                 PROVE  \E x \in e.receipts : x.id = m.ref /\ (x.received \/ x.cut)
      BY <1>7
    <3>1. PICK x \in data.receipts : x.id = m.ref /\ (x.received \/ x.cut)
      BY <1>1, <1>8 DEF StockInv
    <3>2. x # r
      BY <1>8, <3>1
    <3> QED BY <1>7, <3>1, <3>2
  <2>3. ASSUME NEW x \in e.receipts, ~x.cut
        PROVE  Cardinality(StockOf(e, x.id)) <= Cardinality(OrderLines(e, x.order))
    <3>1. OrderLines(e, x.order) = OrderLines(data, x.order)
      BY <1>7 DEF OrderLines
    <3>2. CASE x \in data.receipts \ {r}
      <4>1. x.id # r.id
        BY <1>1, <3>2 DEF StockInv, DistinctIds
      <4>2. StockOf(e, x.id) = StockOf(data, x.id)
        BY <1>7, <4>1 DEF StockOf, OfReceipt
      <4> QED BY <1>1, <2>3, <3>1, <3>2, <4>2 DEF StockInv
    <3>3. CASE x = s
      <4>1. StockOf(e, x.id) = {}
        BY <1>2, <1>7, <1>8, <3>3 DEF StockOf
      <4>2. Cardinality(StockOf(e, x.id)) = 0
        BY <4>1, FS_EmptySet
      <4> QED BY <3>1, <4>2, StockSize
    <3> QED BY <1>7, <3>2, <3>3
  <2> QED BY <2>1, <2>2, <2>3 DEF StockInv
<1>10. Sound(data)
  OBVIOUS
<1> HIDE DEF moves
<1>11. Stocked(data, e, receipts, lines, moves)
  BY DEF moves
<1> QED BY <1>3, <1>4, <1>5, <1>6, <1>9, <1>10, <1>11, StockedLemma

LEMMA WithoutStockLemma ==
  ASSUME Sound(data), NEW id
  PROVE  \E lines \in SUBSET ReceiptLineRecords :
           /\ IsFiniteSet(lines)
           /\ WithoutStock(id) =
                [data EXCEPT !.moves = data.moves \ OfReceipt(id), !.receiptLines = lines]
<1>1. {l \in data.receiptLines : l.receipt # id} \in SUBSET data.receiptLines
  OBVIOUS
<1>2. /\ {l \in data.receiptLines : l.receipt # id} \in SUBSET ReceiptLineRecords
      /\ IsFiniteSet({l \in data.receiptLines : l.receipt # id})
  BY <1>1, ReceiptTypes, FS_Subset
<1> QED BY <1>2 DEF WithoutStock

LEMMA RevertReceiptLemma ==
  ASSUME InventoryInv, NEW r \in data.receipts, RevertReceipt(r)
  PROVE  InventoryInv' /\ NoNewBatch
<1> DEFINE s == [r EXCEPT !.received = FALSE, !.cut = FALSE]
           draft == [WithoutStock(r.id) EXCEPT !.receipts = (@ \ {r}) \cup {s}]
           after == WithStatus(draft, r.order)
<1>1. Sound(data) /\ data \in Documents /\ r \in ReceiptRecords
  BY ReceiptTypes DEF InventoryInv, Sound
<1>2. Asks("receipts") /\ (Saved(data) \/ Refused(after) \/ Saved(after))
  BY DEF RevertReceipt
<1>3. PICK lines \in SUBSET ReceiptLineRecords :
        /\ IsFiniteSet(lines)
        /\ WithoutStock(r.id) =
             [data EXCEPT !.moves = data.moves \ OfReceipt(r.id), !.receiptLines = lines]
  BY <1>1, WithoutStockLemma
<1>4. Succeeds(r, s)
  BY <1>1 DEF Succeeds, ReceiptRecords
<1>5. PICK receipts : receipts = (data.receipts \ {r}) \cup {s}
  OBVIOUS
<1>6. PICK e : e = draft
  OBVIOUS
<1>7. Stocked(data, e, receipts, lines, data.moves \ OfReceipt(r.id))
  <2> HIDE DEF s
  <2> QED BY <1>1, <1>3, <1>5, <1>6 DEF Stocked, Documents
<1> HIDE DEF s, draft
<1>8. {s} \in SUBSET {s}
  OBVIOUS
<1>9. Sound(e) /\ Likewise(data, e)
  BY <1>1, <1>3, <1>4, <1>5, <1>7, <1>8, TakenBackLemma
<1>10. Sound(after) /\ Likewise(data, after)
  BY <1>6, <1>9, StatusLemma, LikewiseLemma
<1> HIDE DEF after
<1> QED BY <1>1, <1>2, <1>10, SameEndLemma DEF Areas

LEMMA DeleteReceiptLemma ==
  ASSUME InventoryInv, NEW r \in data.receipts, DeleteReceipt(r)
  PROVE  InventoryInv' /\ NoNewBatch
<1> DEFINE gone == [WithoutStock(r.id) EXCEPT !.receipts = @ \ {r}]
<1>1. Sound(data) /\ data \in Documents /\ r \in ReceiptRecords
  BY ReceiptTypes DEF InventoryInv, Sound
<1>2. Asks("receipts") /\ Saved(gone)
  BY DEF DeleteReceipt
<1>3. PICK lines \in SUBSET ReceiptLineRecords :
        /\ IsFiniteSet(lines)
        /\ WithoutStock(r.id) =
             [data EXCEPT !.moves = data.moves \ OfReceipt(r.id), !.receiptLines = lines]
  BY <1>1, WithoutStockLemma
<1>4. Succeeds(r, r) /\ {} \in SUBSET {r}
  BY <1>1 DEF Succeeds
<1>5. PICK receipts : receipts = (data.receipts \ {r}) \cup {}
  OBVIOUS
<1>6. PICK e : e = gone
  OBVIOUS
<1>7. Stocked(data, e, receipts, lines, data.moves \ OfReceipt(r.id))
  BY <1>1, <1>3, <1>5, <1>6 DEF Stocked, Documents
<1> HIDE DEF gone
<1>8. Sound(e) /\ Likewise(data, e)
  BY <1>1, <1>3, <1>4, <1>5, <1>7, TakenBackLemma
<1> QED BY <1>2, <1>6, <1>8, SameEndLemma DEF Areas

(* Lines of receipts change, and stock only goes.                          *)
LEMMA LessStockLemma ==
  ASSUME Sound(data), NEW lines \in SUBSET ReceiptLineRecords, IsFiniteSet(lines),
         NEW moves \in SUBSET data.moves, BatchMovesKept(data, moves),
         NEW e, Stocked(data, e, data.receipts, lines, moves)
  PROVE  Sound(e) /\ Likewise(data, e)
<1>1. data \in Documents /\ StockInv(data)
  BY DEF Sound
<1>2. moves \in SUBSET MoveRecords /\ IsFiniteSet(moves) /\ BatchMovesKept(data, moves)
  BY ReceiptTypes, FS_Subset
<1>3. e.receipts = data.receipts /\ e.moves = moves /\ e.orderLines = data.orderLines
  BY <1>1 DEF Documents, Stocked
<1>4. StockInv(e)
  <2>1. /\ DistinctIds(e.receipts)
        /\ \A m \in e.moves : m.of = "receipt" =>
             \E x \in e.receipts : x.id = m.ref /\ (x.received \/ x.cut)
    BY <1>1, <1>3 DEF StockInv
  <2>2. ASSUME NEW x \in e.receipts, ~x.cut
        PROVE  Cardinality(StockOf(e, x.id)) <= Cardinality(OrderLines(e, x.order))
    <3>1. OrderLines(e, x.order) = OrderLines(data, x.order)
      BY <1>3 DEF OrderLines
    <3>2. StockOf(e, x.id) \in SUBSET StockOf(data, x.id)
      BY <1>3 DEF StockOf
    <3>3. /\ Cardinality(StockOf(e, x.id)) <= Cardinality(StockOf(data, x.id))
          /\ Cardinality(StockOf(e, x.id)) \in Nat
      BY <3>2, StockSize, FS_Subset, FS_CardinalityType
    <3>4. Cardinality(StockOf(data, x.id)) <= Cardinality(OrderLines(data, x.order))
      BY <1>1, <1>3, <2>2 DEF StockInv
    <3>5. /\ Cardinality(StockOf(data, x.id)) \in Nat
          /\ Cardinality(OrderLines(data, x.order)) \in Nat
      BY StockSize
    <3> QED BY <3>1, <3>3, <3>4, <3>5
  <2> QED BY <2>1, <2>2 DEF StockInv
<1>5. Sound(data) /\ Stocked(data, e, data.receipts, lines, moves)
  OBVIOUS
<1> QED BY <1>2, <1>4, <1>5, ReceiptTypes, StockedLemma

LEMMA AddReceiptLineLemma ==
  ASSUME InventoryInv, NEW r \in Nat, NEW item \in Ids(data.items), NEW qty \in Deliveries,
         NEW unit \in Units, NEW poLine \in Nat, NEW expired \in BOOLEAN,
         AddReceiptLine(r, poLine, item, qty, unit, expired)
  PROVE  InventoryInv' /\ NoNewBatch
<1> DEFINE line == [id |-> NextId(data.receiptLines), receipt |-> r, item |-> item,
                    poLine |-> poLine, qty |-> qty, unit |-> unit, expired |-> expired]
           lines == data.receiptLines \cup {line}
           e == [data EXCEPT !.receiptLines = lines]
<1>1. Sound(data) /\ data \in Documents
  BY DEF InventoryInv, Sound
<1>2. Asks("receipts") /\ (Refused(data) \/ Saved(e))
  BY DEF AddReceiptLine
<1>3. line \in ReceiptLineRecords
  <2>1. item \in Nat /\ qty \in Int
    BY <1>1, InventoryAssumption DEF Documents, Ids, InventoryAssumption
  <2> QED BY <1>1, <2>1, ReceiptTypes DEF ReceiptLineRecords
<1> HIDE DEF line
<1>4. lines \in SUBSET ReceiptLineRecords /\ IsFiniteSet(lines)
  BY <1>1, <1>3, ReceiptTypes, FS_AddElement
<1>5. Stocked(data, e, data.receipts, lines, data.moves)
  BY <1>1 DEF Documents, Stocked
<1>6. data.moves \in SUBSET data.moves /\ BatchMovesKept(data, data.moves)
  BY DEF BatchMovesKept
<1> HIDE DEF lines, e
<1>7. Sound(e) /\ Likewise(data, e)
  BY <1>1, <1>4, <1>5, <1>6, LessStockLemma
<1> QED BY <1>1, <1>2, <1>7, SameEndLemma DEF Areas

LEMMA DeleteReceiptLineLemma ==
  ASSUME InventoryInv, NEW l \in data.receiptLines, DeleteReceiptLine(l)
  PROVE  InventoryInv' /\ NoNewBatch
<1> DEFINE base == IF Known(data, l) THEN InBase(data, l) ELSE l.qty
           same == {m \in OfReceipt(l.receipt) : m.item = l.item /\ m.qty = base}
           lines == data.receiptLines \ {l}
           moves == data.moves \ same
           rest == [data EXCEPT !.receiptLines = lines, !.moves = moves]
<1>1. Sound(data) /\ data \in Documents
  BY DEF InventoryInv, Sound
<1>2. Asks("receipts") /\ (Saved(rest) \/ Crashed \/ \E o : Saved(WithStatus(rest, o)))
  BY DEF DeleteReceiptLine
<1> HIDE DEF base
<1>3. lines \in SUBSET ReceiptLineRecords /\ IsFiniteSet(lines)
  BY <1>1, ReceiptTypes, FS_RemoveElement
<1>4. moves \in SUBSET data.moves /\ BatchMovesKept(data, moves)
  BY DEF BatchMovesKept, OfReceipt, StockOf
<1> HIDE DEF same, lines, moves
<1>5. PICK e : e = rest
  OBVIOUS
<1>6. Stocked(data, e, data.receipts, lines, moves)
  BY <1>1, <1>5 DEF Documents, Stocked
<1>7. Sound(e) /\ Likewise(data, e)
  BY <1>1, <1>3, <1>4, <1>6, LessStockLemma
<1> HIDE DEF rest
<1>8. CASE Saved(rest)
  BY <1>2, <1>5, <1>7, <1>8, SameEndLemma DEF Areas
<1>9. CASE Crashed
  BY <1>2, <1>9, AsksLemma, CrashLemma DEF Areas
<1>10. ASSUME NEW o, Saved(WithStatus(rest, o)) PROVE InventoryInv' /\ NoNewBatch
  <2>1. PICK f : f = WithStatus(rest, o)
    OBVIOUS
  <2>2. Sound(f) /\ Likewise(data, f)
    BY <1>5, <1>7, <2>1, StatusLemma, LikewiseLemma
  <2> QED BY <1>2, <1>10, <2>1, <2>2, SameEndLemma DEF Areas
<1> QED BY <1>2, <1>8, <1>9, <1>10

LEMMA ReceiptsGoOn ==
  ASSUME InventoryInv, Receipts
  PROVE  InventoryInv' /\ NoNewBatch
<1>1. Some \subseteq Nat /\ Sound(data)
  BY InventoryAssumption DEF Some, InventoryInv, InventoryAssumption
<1>2. ASSUME NEW o \in Some, CreateReceipt(o) PROVE InventoryInv' /\ NoNewBatch
  BY <1>1, <1>2, CreateReceiptLemma
<1>3. CASE UpdateReceipt
  BY <1>1, <1>3, SameEndLemma DEF UpdateReceipt, Areas
<1>4. ASSUME NEW r \in data.receipts,
             NEW q \in [Ids(OrderLines(data, r.order)) -> Deliveries], ConfirmReceipt(r, q)
      PROVE  InventoryInv' /\ NoNewBatch
  BY <1>4, ConfirmReceiptLemma
<1>5. ASSUME NEW r \in data.receipts, RevertReceipt(r) \/ DeleteReceipt(r)
      PROVE  InventoryInv' /\ NoNewBatch
  BY <1>5, RevertReceiptLemma, DeleteReceiptLemma
<1>6. ASSUME NEW r \in Some, NEW item \in Ids(data.items), NEW qty \in Deliveries,
             NEW unit \in Units, NEW poLine \in Ids(data.orderLines) \cup {NoRef},
             NEW expired \in BOOLEAN, AddReceiptLine(r, poLine, item, qty, unit, expired)
      PROVE  InventoryInv' /\ NoNewBatch
  <2>1. poLine \in Nat
    BY <1>1 DEF Sound, Documents, Ids, NoRef
  <2> QED BY <1>1, <1>6, <2>1, AddReceiptLineLemma
<1>7. ASSUME NEW l \in data.receiptLines, DeleteReceiptLine(l)
      PROVE  InventoryInv' /\ NoNewBatch
  BY <1>7, DeleteReceiptLineLemma
<1> QED BY <1>2, <1>3, <1>4, <1>5, <1>6, <1>7 DEF Receipts

-----------------------------------------------------------------------------
(* Recipes and production.                                                 *)

BomRecords == [id : Nat, item : Nat, qty : Int, unit : Units]
BomLineRecords == [id : Nat, bom : Nat, item : Nat, qty : Int, unit : Units]
BatchRecords == [id : Nat, bom : Nat, item : Nat]

(* Recipes, their lines, batches and what they move change, nothing else.  *)
Made(d, e, boms, lines, batches, moves) ==
  e = [d EXCEPT !.boms = boms, !.bomLines = lines, !.batches = batches, !.moves = moves]

ReceiptMovesKept(d, moves) ==
  \A m : m.of = "receipt" => (m \in moves <=> m \in d.moves)

LEMMA MadeLemma ==
  ASSUME NEW d, Sound(d), NEW boms \in SUBSET BomRecords, NEW lines \in SUBSET BomLineRecords,
         NEW batches \in SUBSET BatchRecords, NEW moves \in SUBSET MoveRecords,
         IsFiniteSet(boms), IsFiniteSet(lines), IsFiniteSet(batches), IsFiniteSet(moves),
         DistinctIds(lines), ReceiptMovesKept(d, moves),
         \A m \in moves : m.of = "batch" => \E b \in batches : b.id = m.ref,
         NEW e, Made(d, e, boms, lines, batches, moves)
  PROVE  Sound(e) /\ e.batches = batches /\ e.moves = moves
<1>1. d \in Documents /\ FiniteLists(d)
  BY DEF Sound
<1>2. e \in Documents
  BY <1>1 DEF Documents, BomRecords, BomLineRecords, BatchRecords, MoveRecords, Made
<1>3. /\ e.items = d.items /\ e.convs = d.convs /\ e.suppliers = d.suppliers
      /\ e.orders = d.orders /\ e.orderLines = d.orderLines
      /\ e.receipts = d.receipts /\ e.receiptLines = d.receiptLines
      /\ e.moves = moves /\ e.boms = boms /\ e.bomLines = lines
      /\ e.batches = batches
  BY <1>1 DEF Documents, Made
<1>4. FiniteLists(e)
  BY <1>1, <1>3 DEF FiniteLists
<1>5. StockInv(e)
  <2>1. StockInv(d)
    BY DEF Sound
  <2>2. ASSUME NEW id PROVE StockOf(e, id) = StockOf(d, id)
    BY <1>3 DEF StockOf, ReceiptMovesKept
  <2>3. ASSUME NEW o PROVE OrderLines(e, o) = OrderLines(d, o)
    BY <1>3 DEF OrderLines
  <2>4. \A m \in e.moves : m.of = "receipt" =>
          \E x \in e.receipts : x.id = m.ref /\ (x.received \/ x.cut)
    BY <1>3, <2>1 DEF StockInv, ReceiptMovesKept
  <2> QED BY <1>3, <2>1, <2>2, <2>3, <2>4 DEF StockInv
<1>6. BatchInv(e)
  BY <1>3 DEF BatchInv
<1> QED BY <1>2, <1>3, <1>4, <1>5, <1>6, ChangeLemma

LEMMA RecipeTypes ==
  ASSUME NEW d, Sound(d)
  PROVE  /\ d.boms \in SUBSET BomRecords /\ IsFiniteSet(d.boms)
         /\ d.bomLines \in SUBSET BomLineRecords /\ IsFiniteSet(d.bomLines)
         /\ d.batches \in SUBSET BatchRecords /\ IsFiniteSet(d.batches)
         /\ NextId(d.boms) \in Nat /\ NextId(d.batches) \in Nat /\ NextId(d.bomLines) \in Nat
         /\ \A x \in d.bomLines : x.id < NextId(d.bomLines)
         /\ \A x \in d.batches : x.id < NextId(d.batches)
         /\ DistinctIds(d.bomLines) /\ ReceiptMovesKept(d, d.moves)
         /\ \A m \in d.moves : m.of = "batch" => \E b \in d.batches : b.id = m.ref
<1>1. /\ d.boms \in SUBSET BomRecords /\ IsFiniteSet(d.boms)
      /\ d.bomLines \in SUBSET BomLineRecords /\ IsFiniteSet(d.bomLines)
      /\ d.batches \in SUBSET BatchRecords /\ IsFiniteSet(d.batches)
  BY DEF Sound, Documents, FiniteLists, BomRecords, BomLineRecords, BatchRecords
<1>2. /\ \A x \in d.boms : x.id \in Nat
      /\ \A x \in d.bomLines : x.id \in Nat
      /\ \A x \in d.batches : x.id \in Nat
  BY <1>1 DEF BomRecords, BomLineRecords, BatchRecords
<1>3. /\ DistinctIds(d.bomLines) /\ ReceiptMovesKept(d, d.moves)
      /\ \A m \in d.moves : m.of = "batch" => \E b \in d.batches : b.id = m.ref
  BY DEF Sound, BatchInv, ReceiptMovesKept
<1> QED BY <1>1, <1>2, <1>3, NextIdLemma

(* The recipes and their lines, of which the stock does not depend.        *)
LEMMA RecipeLemma ==
  ASSUME InventoryInv, NEW boms \in SUBSET BomRecords, IsFiniteSet(boms),
         NEW lines \in SUBSET BomLineRecords, IsFiniteSet(lines), DistinctIds(lines),
         NEW e, Made(data, e, boms, lines, data.batches, data.moves),
         Asks("recipes"), Saved(e)
  PROVE  InventoryInv' /\ NoNewBatch
<1>1. Sound(data)
  BY DEF InventoryInv
<1>2. Sound(e) /\ Likewise(data, e)
  <2>1. Sound(e) /\ e.batches = data.batches /\ e.moves = data.moves
    BY <1>1, RecipeTypes, ReceiptTypes, MadeLemma
  <2> QED BY <2>1, LikewiseLemma
<1> QED BY <1>2, SameEndLemma DEF Areas

LEMMA CreateBomLemma ==
  ASSUME InventoryInv, NEW item \in Nat, NEW qty \in Int, NEW unit \in Units,
         CreateBom(item, qty, unit)
  PROVE  InventoryInv' /\ NoNewBatch
<1> DEFINE bom == [id |-> NextId(data.boms), item |-> item, qty |-> qty, unit |-> unit]
           boms == data.boms \cup {bom}
           e == [data EXCEPT !.boms = boms]
<1>1. Sound(data) /\ data \in Documents
  BY DEF InventoryInv, Sound
<1>2. Asks("recipes") /\ Saved(e)
  BY DEF CreateBom
<1>3. bom \in BomRecords
  BY <1>1, RecipeTypes DEF BomRecords
<1> HIDE DEF bom
<1>4. boms \in SUBSET BomRecords /\ IsFiniteSet(boms)
  BY <1>1, <1>3, RecipeTypes, FS_AddElement
<1>5. Made(data, e, boms, data.bomLines, data.batches, data.moves)
  BY <1>1 DEF Documents, Made
<1> HIDE DEF boms, e
<1> QED BY <1>1, <1>2, <1>4, <1>5, RecipeTypes, RecipeLemma

LEMMA UpdateBomLemma ==
  ASSUME InventoryInv, NEW id \in Nat, NEW item \in Nat, NEW qty \in Int, NEW unit \in Units,
         UpdateBom(id, item, qty, unit)
  PROVE  InventoryInv' /\ NoNewBatch
<1> DEFINE change == [b \in data.boms |->
                        IF b.id = id
                          THEN [id |-> id, item |-> item, qty |-> qty, unit |-> unit] ELSE b]
           boms == {change[b] : b \in data.boms}
           e == [data EXCEPT !.boms = boms]
<1>1. Sound(data) /\ data \in Documents
  BY DEF InventoryInv, Sound
<1>2. Asks("recipes") /\ Saved(e)
  <2>1. boms = {IF b.id = id THEN [id |-> id, item |-> item, qty |-> qty, unit |-> unit] ELSE b
                : b \in data.boms}
    OBVIOUS
  <2> HIDE DEF boms
  <2> QED BY <2>1 DEF UpdateBom
<1>3. \A b \in data.boms : change[b] \in BomRecords
  BY <1>1, RecipeTypes DEF BomRecords
<1>4. DOMAIN change = data.boms
  OBVIOUS
<1> HIDE DEF change
<1>5. boms \in SUBSET BomRecords /\ IsFiniteSet(boms)
  BY <1>1, <1>3, <1>4, RecipeTypes, ImageLemma
<1>6. Made(data, e, boms, data.bomLines, data.batches, data.moves)
  BY <1>1 DEF Documents, Made
<1> HIDE DEF boms, e
<1> QED BY <1>1, <1>2, <1>5, <1>6, RecipeTypes, RecipeLemma

LEMMA AddBomLineLemma ==
  ASSUME InventoryInv, NEW id \in Nat, NEW item \in Nat, NEW qty \in Int, NEW unit \in Units,
         AddBomLine(id, item, qty, unit)
  PROVE  InventoryInv' /\ NoNewBatch
<1> DEFINE line == [id |-> NextId(data.bomLines), bom |-> id, item |-> item, qty |-> qty,
                    unit |-> unit]
           lines == data.bomLines \cup {line}
           e == [data EXCEPT !.bomLines = lines]
<1>1. Sound(data) /\ data \in Documents
  BY DEF InventoryInv, Sound
<1>2. Asks("recipes") /\ Saved(e)
  BY DEF AddBomLine
<1>3. line \in BomLineRecords /\ line.id = NextId(data.bomLines)
  BY <1>1, RecipeTypes DEF BomLineRecords
<1>4. \A x \in data.bomLines : x.id # NextId(data.bomLines)
  <2>1. \A x \in data.bomLines : x.id \in Nat /\ x.id < NextId(data.bomLines)
    BY <1>1, RecipeTypes DEF BomLineRecords
  <2> QED BY <2>1
<1> HIDE DEF line
<1>5. lines \in SUBSET BomLineRecords /\ IsFiniteSet(lines)
  BY <1>1, <1>3, RecipeTypes, FS_AddElement
<1>6. DistinctIds(lines)
  <2>1. DistinctIds(data.bomLines)
    BY <1>1, RecipeTypes
  <2> QED BY <1>3, <1>4, <2>1 DEF DistinctIds
<1>7. Made(data, e, data.boms, lines, data.batches, data.moves)
  BY <1>1 DEF Documents, Made
<1> HIDE DEF lines, e
<1> QED BY <1>1, <1>2, <1>5, <1>6, <1>7, RecipeTypes, RecipeLemma

LEMMA DeleteBomLemma ==
  ASSUME InventoryInv, NEW id, DeleteBomLine(id) \/ DeleteBom(id)
  PROVE  InventoryInv' /\ NoNewBatch
<1>1. Sound(data) /\ data \in Documents
  BY DEF InventoryInv, Sound
<1>2. PICK boms \in SUBSET data.boms, lines \in SUBSET data.bomLines :
        Saved([data EXCEPT !.boms = boms, !.bomLines = lines]) /\ Asks("recipes")
  <2>1. CASE DeleteBomLine(id)
    <3> DEFINE lines == data.bomLines \ Find(data.bomLines, id)
    <3>1. Saved([data EXCEPT !.bomLines = lines]) /\ Asks("recipes")
      BY <2>1 DEF DeleteBomLine
    <3>2. data.boms \in SUBSET data.boms /\ lines \in SUBSET data.bomLines
      OBVIOUS
    <3> HIDE DEF lines
    <3>3. [data EXCEPT !.bomLines = lines] = [data EXCEPT !.boms = data.boms, !.bomLines = lines]
      BY <1>1 DEF Documents
    <3> QED BY <3>1, <3>2, <3>3
  <2>2. CASE DeleteBom(id)
    <3> DEFINE lines == {l \in data.bomLines : l.bom # id}
               boms == data.boms \ Find(data.boms, id)
    <3>1. Saved([data EXCEPT !.bomLines = lines, !.boms = boms]) /\ Asks("recipes")
      BY <2>2 DEF DeleteBom
    <3>2. boms \in SUBSET data.boms /\ lines \in SUBSET data.bomLines
      OBVIOUS
    <3> HIDE DEF lines, boms
    <3>3. [data EXCEPT !.bomLines = lines, !.boms = boms]
            = [data EXCEPT !.boms = boms, !.bomLines = lines]
      BY <1>1 DEF Documents
    <3> QED BY <3>1, <3>2, <3>3
  <2> QED BY <2>1, <2>2
<1>3. PICK e : e = [data EXCEPT !.boms = boms, !.bomLines = lines]
  OBVIOUS
<1>4. Made(data, e, boms, lines, data.batches, data.moves)
  BY <1>1, <1>3 DEF Documents, Made
<1>5. IsFiniteSet(boms) /\ IsFiniteSet(lines)
  BY <1>1, RecipeTypes, FS_Subset
<1>6. boms \in SUBSET BomRecords /\ lines \in SUBSET BomLineRecords
  BY <1>1, RecipeTypes
<1>7. DistinctIds(lines)
  BY <1>1, RecipeTypes DEF DistinctIds
<1>8. Saved(e)
  BY <1>2, <1>3
<1> QED BY <1>2, <1>4, <1>5, <1>6, <1>7, <1>8, RecipeLemma

(* What a production moves: a movement for each line it consumes, none of  *)
(* which adds to the stock, and perhaps one for the product.               *)
LEMMA MovementsLemma ==
  ASSUME Sound(data), NEW b \in data.boms, NEW batch \in Nat, NEW made \in Int, NEW out \in Int
  PROVE  /\ Movements(b, batch, made, out) \in SUBSET MoveRecords
         /\ IsFiniteSet(Movements(b, batch, made, out))
         /\ \A m \in Movements(b, batch, made, out) : m.of = "batch" /\ m.ref = batch
<1> DEFINE lines == {l \in BomLines(b) :
                       \A x \in BomLines(b) : x.id <= l.id => Known(data, x)}
           move == [l \in lines |->
                      Movement(NextId(data.moves) + Rank(lines, l), l.item,
                               IF out = 0 THEN 0 ELSE -(InBase(data, l) * made),
                               IF out = 0 THEN 1 ELSE out, batch)]
           used == {move[l] : l \in lines}
           product == Finished(b, batch, made, Cardinality(BomLines(b)))
<1>1. data \in Documents /\ b \in BomRecords
  BY RecipeTypes DEF Sound
<1>2. /\ IsFiniteSet(BomLines(b)) /\ BomLines(b) \in SUBSET BomLineRecords
      /\ Cardinality(BomLines(b)) \in Nat
  <2>1. BomLines(b) \in SUBSET data.bomLines
    BY DEF BomLines
  <2> QED BY <2>1, RecipeTypes, FS_Subset, FS_CardinalityType
<1>3. IsFiniteSet(lines) /\ lines \in SUBSET BomLineRecords
  <2>1. lines \in SUBSET BomLines(b)
    OBVIOUS
  <2> HIDE DEF lines
  <2> QED BY <1>2, <2>1, FS_Subset
<1>4. Consumed(b, batch, made, out) = used
  <2>1. used = {Movement(NextId(data.moves) + Rank(lines, l), l.item,
                         IF out = 0 THEN 0 ELSE -(InBase(data, l) * made),
                         IF out = 0 THEN 1 ELSE out, batch) : l \in lines}
    OBVIOUS
  <2> HIDE DEF used
  <2> QED BY <2>1 DEF Consumed
<1> HIDE DEF lines
<1>5. \A l \in lines : move[l] \in MoveRecords /\ move[l].of = "batch" /\ move[l].ref = batch
  <2> SUFFICES ASSUME NEW l \in lines
               PROVE  move[l] \in MoveRecords /\ move[l].of = "batch" /\ move[l].ref = batch
    OBVIOUS
  <2>1. NextId(data.moves) + Rank(lines, l) \in Nat
    <3>1. NextId(data.moves) \in Nat /\ Rank(lines, l) \in Nat
      BY <1>3, ReceiptTypes, RankLemma
    <3> QED BY <3>1
  <2>2. l.qty \in Int /\ l.item \in Nat
    BY <1>3 DEF BomLineRecords
  <2>3. PICK base \in Int : base = InBase(data, l)
    BY <1>1, <2>2, InBaseLemma
  <2>4. PICK qty \in Int : qty = IF out = 0 THEN 0 ELSE -(InBase(data, l) * made)
    BY <2>3
  <2>5. PICK per \in Int \ {0} : per = IF out = 0 THEN 1 ELSE out
    OBVIOUS
  <2>6. move[l] = Movement(NextId(data.moves) + Rank(lines, l), l.item, qty, per, batch)
    BY <2>4, <2>5
  <2> HIDE DEF move
  <2> QED BY <2>1, <2>2, <2>6 DEF Movement, MoveRecords
<1>6. DOMAIN move = lines
  OBVIOUS
<1> HIDE DEF move
<1>7. IsFiniteSet(used)
  BY <1>3, <1>6, ImageLemma
<1>8. used \in SUBSET MoveRecords /\ \A m \in used : m.of = "batch" /\ m.ref = batch
  BY <1>5
<1>9. /\ product \in SUBSET MoveRecords /\ IsFiniteSet(product)
      /\ \A m \in product : m.of = "batch" /\ m.ref = batch
  <2> DEFINE m == Movement(NextId(data.moves) + Cardinality(BomLines(b)), b.item, made, 1, batch)
  <2>1. NextId(data.moves) + Cardinality(BomLines(b)) \in Nat
    <3>1. NextId(data.moves) \in Nat
      BY ReceiptTypes
    <3> QED BY <1>2, <3>1
  <2>2. m \in MoveRecords /\ m.of = "batch" /\ m.ref = batch
    BY <1>1, <2>1 DEF Movement, MoveRecords, BomRecords
  <2>3. product = {m}
    BY DEF Finished
  <2> HIDE DEF m, product
  <2>4. IsFiniteSet({m})
    BY FS_Singleton
  <2> QED BY <2>2, <2>3, <2>4
<1> HIDE DEF used
<1>10. \/ Movements(b, batch, made, out) = used \cup product
       \/ Movements(b, batch, made, out) = used
  BY <1>4 DEF Movements
<1> HIDE DEF product
<1>11. IsFiniteSet(used \cup product)
  BY <1>7, <1>9, FS_Union
<1> QED BY <1>7, <1>8, <1>9, <1>10, <1>11

LEMMA ProduceLemma ==
  ASSUME InventoryInv, NEW b \in data.boms, NEW qty \in Int, NEW unit \in Units,
         Produce(b, qty, unit)
  PROVE  InventoryInv'
<1> DEFINE id == NextId(data.batches)
           made == InBase(data, [item |-> b.item, qty |-> qty, unit |-> unit])
           out == InBase(data, b)
           batch == [id |-> id, bom |-> b.id, item |-> b.item]
           batches == data.batches \cup {batch}
           moves == data.moves \cup Movements(b, id, made, out)
           after == [data EXCEPT !.batches = batches, !.moves = moves]
<1>1. Sound(data) /\ data \in Documents /\ b \in BomRecords
  BY RecipeTypes DEF InventoryInv, Sound
<1>2. Asks("recipes") /\ (Refused(data) \/ Saved(after) \/ Refused(after))
  BY DEF Produce
<1>3. made \in Int /\ out \in Int
  <2>1. [item |-> b.item, qty |-> qty, unit |-> unit].qty \in Int /\ b.qty \in Int
    BY <1>1 DEF BomRecords
  <2> QED BY <1>1, <2>1, InBaseLemma
<1>4. id \in Nat
  BY <1>1, RecipeTypes
<1>5. batch \in BatchRecords /\ batch.id = id
  BY <1>1, <1>4 DEF BatchRecords, BomRecords
<1>16. id = NextId(data.batches)
  OBVIOUS
<1> HIDE DEF batch, id, made, out
<1>6. batches \in SUBSET BatchRecords /\ IsFiniteSet(batches)
  BY <1>1, <1>5, RecipeTypes, FS_AddElement
<1>7. PICK new : new = Movements(b, id, made, out)
  OBVIOUS
<1>8. /\ new \in SUBSET MoveRecords /\ IsFiniteSet(new)
      /\ \A m \in new : m.of = "batch" /\ m.ref = id
  BY <1>1, <1>3, <1>4, <1>7, MovementsLemma
<1>9. moves \in SUBSET MoveRecords /\ IsFiniteSet(moves)
  BY <1>1, <1>7, <1>8, ReceiptTypes, FS_Union
<1>10. ReceiptMovesKept(data, moves)
  BY <1>7, <1>8 DEF ReceiptMovesKept
<1>11. \A m \in moves : m.of = "batch" => \E x \in batches : x.id = m.ref
  BY <1>1, <1>5, <1>7, <1>8, RecipeTypes
<1>12. Made(data, after, data.boms, data.bomLines, batches, moves)
  <2> HIDE DEF batches, moves
  <2> QED BY <1>1 DEF Documents, Made
<1>13. data.batches \subseteq batches
  OBVIOUS
<1>17. moves = data.moves \cup new
  BY <1>7
<1> HIDE DEF batches, moves, after
<1>14. Sound(after) /\ after.batches = batches /\ after.moves = moves
  BY <1>1, <1>6, <1>9, <1>10, <1>11, <1>12, RecipeTypes, MadeLemma
<1>15. Keeps(data, after)
  <2>1. ASSUME NEW y \in data.batches PROVE PostedFor(after, y) = PostedFor(data, y)
    <3>1. y.id \in Nat /\ y.id < id
      BY <1>1, <1>16, RecipeTypes DEF BatchRecords
    <3>2. \A m \in new : m.ref # y.id
      BY <1>4, <1>8, <3>1
    <3>3. after.moves = data.moves \cup new
      BY <1>7, <1>14, <1>17
    <3> QED BY <3>2, <3>3 DEF PostedFor
  <2> QED BY <1>13, <1>14, <2>1 DEF Keeps
<1>18. Keeps(data, data)
  BY DEF Keeps
<1> QED BY <1>1, <1>2, <1>14, <1>15, <1>18, EndLemma DEF Areas

LEMMA DeleteBatchLemma ==
  ASSUME InventoryInv, NEW id, DeleteBatch(id)
  PROVE  InventoryInv' /\ NoNewBatch
<1> DEFINE moves == {m \in data.moves : ~(m.of = "batch" /\ m.ref = id)}
           batches == data.batches \ Find(data.batches, id)
           e == [data EXCEPT !.moves = moves, !.batches = batches]
<1>1. Sound(data) /\ data \in Documents
  BY DEF InventoryInv, Sound
<1>2. Asks("recipes") /\ Saved(e)
  BY DEF DeleteBatch
<1>3. moves \in SUBSET data.moves /\ batches \in SUBSET data.batches
  OBVIOUS
<1>4. ReceiptMovesKept(data, moves)
  BY DEF ReceiptMovesKept
<1>5. \A m \in moves : m.of = "batch" => \E x \in batches : x.id = m.ref
  BY <1>1, RecipeTypes DEF Find
<1> HIDE DEF moves, batches
<1>6. /\ moves \in SUBSET MoveRecords /\ IsFiniteSet(moves)
      /\ batches \in SUBSET BatchRecords /\ IsFiniteSet(batches)
  BY <1>1, <1>3, RecipeTypes, ReceiptTypes, FS_Subset
<1>7. Made(data, e, data.boms, data.bomLines, batches, moves)
  BY <1>1 DEF Documents, Made
<1> HIDE DEF e
<1>8. Sound(e) /\ e.batches = batches /\ e.moves = moves
  BY <1>1, <1>4, <1>5, <1>6, <1>7, RecipeTypes, MadeLemma
<1>9. Keeps(e, data)
  <2>1. ASSUME NEW b \in batches PROVE PostedFor(e, b) = PostedFor(data, b)
    <3>1. b.id # id
      BY DEF batches, Find
    <3> QED BY <1>8, <3>1 DEF PostedFor, moves
  <2> QED BY <1>3, <1>8, <2>1 DEF Keeps
<1> QED BY <1>2, <1>8, <1>9, EndLemma DEF Areas

Produces == \E b \in data.boms, qty \in Int, unit \in Units : Produce(b, qty, unit)

LEMMA RecipesGoOn ==
  ASSUME InventoryInv, Recipes
  PROVE  InventoryInv' /\ (NoNewBatch \/ Produces)
<1>1. Some \subseteq Nat /\ Quantities \subseteq Int
  BY InventoryAssumption DEF Some, InventoryAssumption
<1>2. Ids(data.items) \subseteq Nat
  BY DEF InventoryInv, Sound, Documents, Ids
<1>3. ASSUME NEW item \in Ids(data.items), NEW qty \in Quantities, NEW unit \in Units,
             \/ CreateBom(item, qty, unit)
             \/ \E id \in Some : UpdateBom(id, item, qty, unit) \/ AddBomLine(id, item, qty, unit)
      PROVE  InventoryInv' /\ NoNewBatch
  BY <1>1, <1>2, <1>3, CreateBomLemma, UpdateBomLemma, AddBomLineLemma
<1>4. ASSUME NEW b \in data.boms, NEW qty \in Quantities, NEW unit \in Units,
             Produce(b, qty, unit)
      PROVE  InventoryInv' /\ Produces
  BY <1>1, <1>4, ProduceLemma DEF Produces
<1>5. ASSUME NEW id \in Some, DeleteBomLine(id) \/ DeleteBom(id) \/ DeleteBatch(id)
      PROVE  InventoryInv' /\ NoNewBatch
  BY <1>5, DeleteBomLemma, DeleteBatchLemma
<1> QED BY <1>3, <1>4, <1>5 DEF Recipes

-----------------------------------------------------------------------------

(* Only a production adds a batch.                                         *)
LEMMA InventoryGoesOn ==
  ASSUME InventoryInv, [InventoryNext]_inventoryVars
  PROVE  InventoryInv' /\ (NoNewBatch \/ Produces)
<1>1. CASE Catalogue
  BY <1>1, CatalogueGoesOn
<1>2. CASE Orders
  BY <1>2, OrdersGoOn
<1>3. CASE Receipts
  BY <1>3, ReceiptsGoOn
<1>4. CASE Recipes
  BY <1>4, RecipesGoOn
<1>5. CASE Restart
  BY <1>5, CrashLemma DEF Restart, InventoryInv
<1>6. CASE UNCHANGED inventoryVars
  BY <1>6 DEF inventoryVars, InventoryInv, NoNewBatch, Keeps
<1> QED BY <1>1, <1>2, <1>3, <1>4, <1>5, <1>6 DEF InventoryNext

LEMMA InventoryHolds == InventorySpec => []InventoryInv
<1>1. InventoryInit => InventoryInv
  BY InventoryAssumption, SeedAssumption DEF InventoryInit, InventoryInv, Keeps,
     InventoryAssumption
<1>2. InventoryInv /\ [InventoryNext]_inventoryVars => InventoryInv'
  BY InventoryGoesOn
<1> QED BY <1>1, <1>2, PTL DEF InventorySpec

(* However requests for items, orders, receipts and recipes follow one     *)
(* another, or fail half way, the document keeps its types, no two items   *)
(* share a SKU, and no order that has moved on loses its lines or its      *)
(* receipts their order (server.ts).                                       *)
THEOREM RecordsStaySound ==
  InventorySpec => []RecordsAreSound
<1>1. InventoryInv => RecordsAreSound
  BY DEF InventoryInv, Sound, RecordsAreSound, InventoryTypeOK, UniqueSkus, OrdersAreKept
<1> QED BY <1>1, InventoryHolds, PTL

(* Received goods are in stock only by a receipt that is there, confirmed  *)
(* or cut off half way, and unless that happened no receipt posts more     *)
(* than the lines of its order (server.ts, confirm, draft, delete).        *)
THEOREM StockIsReal ==
  InventorySpec => []StockOfReceipts
<1>1. InventoryInv => StockOfReceipts
  BY DEF InventoryInv, Sound, StockOfReceipts, StockInv
<1> QED BY <1>1, InventoryHolds, PTL

-----------------------------------------------------------------------------
(* What a production posts.                                                *)

(* The position of a record grows with its id.                             *)
LEMMA RankGrows ==
  ASSUME NEW list, IsFiniteSet(list), \A z \in list : z.id \in Nat, NEW x \in list
  PROVE  /\ Rank(list, x) \in Nat /\ Rank(list, x) < Cardinality(list)
         /\ \A y \in list : x.id < y.id => Rank(list, x) < Rank(list, y)
<1> DEFINE Before(z) == {y \in list : y.id < z.id}
<1>1. ASSUME NEW S, NEW R \in SUBSET S, NEW z \in S, z \notin R, IsFiniteSet(S)
      PROVE  Cardinality(R) < Cardinality(S)
  <2>1. Cardinality(R) <= Cardinality(S) /\ Cardinality(R) # Cardinality(S)
    BY <1>1, FS_Subset
  <2>2. Cardinality(R) \in Nat /\ Cardinality(S) \in Nat
    BY <1>1, FS_Subset, FS_CardinalityType
  <2> QED BY <2>1, <2>2
<1>2. \A z : Before(z) \in SUBSET list /\ Rank(list, z) = Cardinality(Before(z))
  BY DEF Rank
<1>3. x \notin Before(x)
  OBVIOUS
<1>4. Rank(list, x) < Cardinality(list)
  <2> HIDE DEF Before
  <2> QED BY <1>1, <1>2, <1>3
<1>5. ASSUME NEW y \in list, x.id < y.id PROVE Rank(list, x) < Rank(list, y)
  <2>1. Before(x) \in SUBSET Before(y) /\ x \in Before(y)
    BY <1>5
  <2>2. IsFiniteSet(Before(y))
    <3> HIDE DEF Before
    <3> QED BY <1>2, FS_Subset
  <2> HIDE DEF Before
  <2> QED BY <1>1, <1>2, <1>3, <2>1, <2>2
<1>6. Rank(list, x) \in Nat
  BY RankLemma
<1> QED BY <1>4, <1>5, <1>6

(* Distinct values of a function are as many as its arguments.             *)
LEMMA SameSize ==
  ASSUME NEW S, IsFiniteSet(S), NEW f, DOMAIN f = S, \A x, y \in S : f[x] = f[y] => x = y
  PROVE  Cardinality({f[x] : x \in S}) = Cardinality(S)
<1> DEFINE T == {f[x] : x \in S}
           g == [x \in S |-> f[x]]
<1>1. g \in Surjection(S, T) /\ g \in Injection(S, T)
  BY DEF Surjection, Injection, IsInjective
<1> HIDE DEF g, T
<1>2. Cardinality(T) = Cardinality(S)
  BY <1>1, FS_Surjection
<1> QED BY <1>2 DEF T

(* When every factor is there the movements are those of the lines, in     *)
(* the amounts the product takes, and the one of the product; else they    *)
(* are of lines alone.                                                     *)
LEMMA MovementsPay ==
  ASSUME Sound(data), NEW b \in data.boms, NEW batch \in Nat, NEW made \in Int, NEW out \in Int,
         out = InBase(data, b)
  PROVE  IF \A l \in BomLines(b) : Known(data, l)
           THEN PaidInFull(b, Movements(b, batch, made, out))
           ELSE OnlyOfLines(b, Movements(b, batch, made, out))
<1> DEFINE lines == {l \in BomLines(b) :
                       \A x \in BomLines(b) : x.id <= l.id => Known(data, x)}
           first == NextId(data.moves)
           move == [l \in lines |->
                      Movement(first + Rank(lines, l), l.item,
                               IF out = 0 THEN 0 ELSE -(InBase(data, l) * made),
                               IF out = 0 THEN 1 ELSE out, batch)]
           used == {move[l] : l \in lines}
           last == Movement(first + Cardinality(BomLines(b)), b.item, made, 1, batch)
<1>1. data \in Documents /\ first \in Nat /\ DistinctIds(data.bomLines)
  BY RecipeTypes, ReceiptTypes DEF Sound
<1>2. /\ IsFiniteSet(BomLines(b)) /\ BomLines(b) \in SUBSET BomLineRecords
      /\ Cardinality(BomLines(b)) \in Nat /\ DistinctIds(BomLines(b))
  <2>1. BomLines(b) \in SUBSET data.bomLines
    BY DEF BomLines
  <2>2. DistinctIds(BomLines(b))
    BY <1>1, <2>1 DEF DistinctIds
  <2> QED BY <2>1, <2>2, RecipeTypes, FS_Subset, FS_CardinalityType
<1>3. /\ IsFiniteSet(lines) /\ lines \in SUBSET BomLineRecords /\ DistinctIds(lines)
      /\ lines \subseteq BomLines(b)
  <2>1. lines \in SUBSET BomLines(b)
    OBVIOUS
  <2> HIDE DEF lines
  <2> QED BY <1>2, <2>1, FS_Subset DEF DistinctIds
<1>4. Consumed(b, batch, made, out) = used
  <2>1. used = {Movement(NextId(data.moves) + Rank(lines, l), l.item,
                         IF out = 0 THEN 0 ELSE -(InBase(data, l) * made),
                         IF out = 0 THEN 1 ELSE out, batch) : l \in lines}
    OBVIOUS
  <2> HIDE DEF used
  <2> QED BY <2>1 DEF Consumed
<1>5. /\ (\A l \in BomLines(b) : Known(data, l)) => lines = BomLines(b)
                                   /\ Movements(b, batch, made, out) = used \cup {last}
      /\ ~(\A l \in BomLines(b) : Known(data, l)) => Movements(b, batch, made, out) = used
  <2> HIDE DEF used
  <2> QED BY <1>4 DEF Movements, Finished
<1> HIDE DEF lines, first
<1>6. \A l \in lines :
        /\ move[l].id = first + Rank(lines, l)
        /\ move[l].item = l.item
        /\ out # 0 => move[l].qty = -(InBase(data, l) * made) /\ move[l].per = out
  BY DEF Movement
<1>7. DOMAIN move = lines /\ move \in [lines -> used]
  OBVIOUS
<1> HIDE DEF move
<1>8. \A x \in lines : x.id \in Nat /\ InBase(data, x) \in Int
  <2>1. \A x \in lines : x.id \in Nat /\ x.qty \in Int
    BY <1>3 DEF BomLineRecords
  <2> QED BY <1>1, <2>1, InBaseLemma
<1>9. \A x, y \in lines : move[x] = move[y] => x = y
  <2> SUFFICES ASSUME NEW x \in lines, NEW y \in lines, move[x] = move[y] PROVE x = y
    OBVIOUS
  <2>1. /\ Rank(lines, x) \in Nat /\ Rank(lines, y) \in Nat
        /\ x.id < y.id => Rank(lines, x) < Rank(lines, y)
        /\ y.id < x.id => Rank(lines, y) < Rank(lines, x)
    BY <1>3, <1>8, RankGrows
  <2>2. first + Rank(lines, x) = first + Rank(lines, y)
    BY <1>6
  <2>3. ~(x.id < y.id) /\ ~(y.id < x.id)
    BY <1>1, <2>1, <2>2
  <2>4. x.id = y.id
    BY <1>8, <2>3
  <2> QED BY <1>3, <2>4 DEF DistinctIds
<1>10. \A m \in used : \E l \in lines : m = move[l]
  OBVIOUS
<1>11. CASE \A l \in BomLines(b) : Known(data, l)
  <2>1. \A l \in lines : move[l].id < last.id
    <3> SUFFICES ASSUME NEW l \in lines PROVE move[l].id < last.id
      OBVIOUS
    <3>1. last.id = first + Cardinality(lines)
      BY <1>5, <1>11 DEF Movement
    <3>2. Rank(lines, l) \in Nat /\ Rank(lines, l) < Cardinality(lines)
      BY <1>3, <1>8, RankGrows
    <3>3. Cardinality(lines) \in Nat /\ move[l].id = first + Rank(lines, l)
      BY <1>3, <1>6, FS_CardinalityType
    <3> HIDE DEF last
    <3> QED BY <1>1, <3>1, <3>2, <3>3
  <2>2. /\ last.id \in Nat /\ last.item = b.item /\ last.qty = made /\ last.per = 1
    <3>1. last.id = first + Cardinality(BomLines(b))
      BY DEF Movement
    <3>2. last.item = b.item /\ last.qty = made /\ last.per = 1
      BY DEF Movement
    <3> HIDE DEF last
    <3> QED BY <1>1, <1>2, <3>1, <3>2
  <2> HIDE DEF last
  <2>3. last \notin used
    BY <1>10, <2>1, <2>2
  <2>4. PICK posted : posted = Movements(b, batch, made, out)
    OBVIOUS
  <2>5. last \in posted /\ posted \ {last} = used /\ lines = BomLines(b)
    BY <1>5, <1>11, <2>3, <2>4
  <2>6. move \in Bijection(lines, used)
    BY <1>7, <1>9, <1>10 DEF Bijection, Injection, Surjection, IsInjective
  <2> HIDE DEF used
  <2>7. out # 0 => \A l \in lines : Pays(l, move[l], last, out)
    <3> SUFFICES ASSUME out # 0, NEW l \in lines PROVE Pays(l, move[l], last, out)
      OBVIOUS
    <3>1. PICK base \in Int : base = InBase(data, l)
      BY <1>8
    <3>2. /\ move[l].item = l.item /\ move[l].per = out
          /\ move[l].qty = -(base * made)
      BY <1>6, <3>1
    <3>3. -(base * made) * out * 1 = -(base * made * out)
      BY <3>1
    <3> QED BY <2>2, <3>1, <3>2, <3>3 DEF Pays
  <2> QED BY <1>11, <2>2, <2>4, <2>5, <2>6, <2>7 DEF PaidInFull
<1>12. CASE ~(\A l \in BomLines(b) : Known(data, l))
  <2> DEFINE line == [m \in used |-> CHOOSE l \in lines : m = move[l]]
  <2>1. \A m \in used : line[m] \in lines /\ m = move[line[m]]
    BY <1>10
  <2>2. line \in [used -> BomLines(b)]
    BY <1>3, <2>1
  <2> HIDE DEF line, used
  <2>3. line \in Injection(used, BomLines(b))
    BY <2>1, <2>2 DEF Injection, IsInjective
  <2>4. \A m \in used : m.item = line[m].item
    BY <1>6, <2>1
  <2>5. PICK posted : posted = Movements(b, batch, made, out)
    OBVIOUS
  <2> QED BY <1>5, <1>12, <2>3, <2>4, <2>5 DEF OnlyOfLines
<1> QED BY <1>11, <1>12

(* What a new batch posted is as the recipe says.                          *)
AsRecipe(b, posted) ==
  IF \A l \in BomLines(b) : Known(data, l) THEN PaidInFull(b, posted)
  ELSE OnlyOfLines(b, posted)

Paid(b) ==
  IF b \in data.batches
    THEN PostedFor(data', b) = PostedFor(data, b)
    ELSE \E r \in Find(data.boms, b.bom) : AsRecipe(r, PostedFor(data', b))

LEMMA PaidLemma ==
  ASSUME InventoryInv, NEW b \in data.boms, NEW qty \in Int, NEW unit \in Units,
         Produce(b, qty, unit), NEW x \in data'.batches
  PROVE  Paid(x)
<1> DEFINE id == NextId(data.batches)
           made == InBase(data, [item |-> b.item, qty |-> qty, unit |-> unit])
           out == InBase(data, b)
           batch == [id |-> id, bom |-> b.id, item |-> b.item]
           new == Movements(b, id, made, out)
           batches == data.batches \cup {batch}
           moves == data.moves \cup new
           after == [data EXCEPT !.batches = batches, !.moves = moves]
<1>1. Sound(data) /\ data \in Documents /\ b \in BomRecords
  BY RecipeTypes DEF InventoryInv, Sound
<1>2. data' = data \/ data' = after
  BY DEF Produce, Saved, Refused
<1>3. made \in Int /\ out \in Int /\ id \in Nat
  <2>1. [item |-> b.item, qty |-> qty, unit |-> unit].qty \in Int /\ b.qty \in Int
    BY <1>1 DEF BomRecords
  <2> QED BY <1>1, <2>1, InBaseLemma, RecipeTypes
<1>4. batch.id = id /\ batch.bom = b.id
  OBVIOUS
<1>5. AsRecipe(b, new) /\ \A m \in new : m.of = "batch" /\ m.ref = id
  <2>1. PICK o : o = out
    OBVIOUS
  <2> HIDE DEF id, made
  <2> QED BY <1>1, <1>3, MovementsPay, MovementsLemma DEF AsRecipe
<1>6. /\ \A y \in data.batches : y.id \in Nat /\ y.id < id
      /\ \A m \in data.moves : m.of = "batch" => m.ref # id
  <2>1. \A y \in data.batches : y.id \in Nat /\ y.id < id
    BY <1>1, RecipeTypes DEF BatchRecords
  <2>2. \A m \in data.moves : m.of = "batch" => \E y \in data.batches : y.id = m.ref
    BY <1>1, RecipeTypes
  <2> HIDE DEF id
  <2> QED BY <1>3, <2>1, <2>2
<1> HIDE DEF batch, new, id
<1>7. data' = after => data'.batches = batches /\ data'.moves = moves
  <2> HIDE DEF batches, moves
  <2> QED BY <1>1 DEF Documents
<1>8. CASE x \in data.batches
  <2>1. \A m \in new : m.ref # x.id
    BY <1>3, <1>5, <1>6, <1>8
  <2>2. data'.moves = data.moves \/ data'.moves = data.moves \cup new
    BY <1>2, <1>7
  <2>3. PostedFor(data', x) = PostedFor(data, x)
    BY <2>1, <2>2 DEF PostedFor
  <2> QED BY <1>8, <2>3 DEF Paid
<1>9. CASE x \notin data.batches
  <2>1. x = batch /\ data'.moves = data.moves \cup new
    BY <1>2, <1>7, <1>9
  <2>2. PostedFor(data', x) = new
    BY <1>4, <1>5, <1>6, <2>1 DEF PostedFor
  <2>3. b \in Find(data.boms, x.bom)
    BY <1>4, <2>1 DEF Find
  <2> QED BY <1>5, <1>9, <2>2, <2>3 DEF Paid
<1> QED BY <1>8, <1>9

(* What a production posted stays as it was posted until its batch goes.   *)
(* A new batch has its product and, for every line of its recipe, the      *)
(* amount due for that product, or, when it failed half way, only amounts  *)
(* of lines: no product is there that was paid in part (server.ts, POST    *)
(* /production).                                                           *)
THEOREM ProductsArePaidFor == InventorySpec => ProductIsPaidFor
<1> DEFINE AllPaid == \A b \in data'.batches : Paid(b)
<1>1. InventoryInv /\ [InventoryNext]_inventoryVars => [AllPaid]_inventoryVars
  <2> SUFFICES ASSUME InventoryInv, [InventoryNext]_inventoryVars PROVE AllPaid
    OBVIOUS
  <2>1. NoNewBatch \/ Produces
    BY InventoryGoesOn
  <2>2. CASE NoNewBatch
    BY <2>2 DEF NoNewBatch, Keeps, Paid
  <2>3. CASE Produces
    <3>1. PICK b \in data.boms, qty \in Int, unit \in Units : Produce(b, qty, unit)
      BY <2>3 DEF Produces
    <3> QED BY <3>1, PaidLemma
  <2> QED BY <2>1, <2>2, <2>3
<1> HIDE DEF AllPaid
<1>2. InventorySpec => [][AllPaid]_inventoryVars
  BY <1>1, InventoryHolds, PTL DEF InventorySpec
<1>3. [][AllPaid]_inventoryVars => ProductIsPaidFor
  BY PTL DEF AllPaid, Paid, AsRecipe, ProductIsPaidFor
<1> QED BY <1>2, <1>3

-----------------------------------------------------------------------------
(***************************************************************************)
(* The log.                                                                *)
(***************************************************************************)

(* The lines after the line lo up to the line hi.                          *)
Lines(lo, hi) == [k \in 1 .. hi - lo |-> lo + k]

(* The file i of m and its archives ends with line b[i], where the file    *)
(* before it, i - 1, goes on.                                              *)
Holds(f, b, m) ==
  /\ b \in [0 .. m + 2 -> Nat]
  /\ \A i \in 0 .. m + 1 : b[i + 1] <= b[i]
  /\ f = [i \in 0 .. m + 1 |-> Lines(b[i + 1], b[i])]

(* What is known of a run of lines: its length, its members, and what is   *)
(* at every place.                                                         *)
LEMMA LinesFacts ==
  ASSUME NEW lo \in Nat, NEW hi \in Nat, lo <= hi
  PROVE  /\ Lines(lo, hi) \in Seq(Nat) /\ Len(Lines(lo, hi)) = hi - lo
         /\ Lines(lo, hi) = NoLines <=> lo = hi
         /\ Range(Lines(lo, hi)) = lo + 1 .. hi
         /\ \A k \in 1 .. hi - lo : Lines(lo, hi)[k] = lo + k
<1> DEFINE s == Lines(lo, hi)
<1>1. s = [k \in 1 .. hi - lo |-> lo + k] /\ hi - lo \in Nat
  BY DEF Lines
<1>2. s \in Seq(Nat) /\ Len(s) = hi - lo /\ DOMAIN s = 1 .. hi - lo
  <2> HIDE DEF s
  <2> QED BY <1>1
<1>3. s = NoLines <=> lo = hi
  <2>1. s = << >> <=> Len(s) = 0
    <3> HIDE DEF s
    <3> QED BY <1>2, EmptySeq
  <2> HIDE DEF s
  <2> QED BY <1>2, <2>1 DEF NoLines
<1>4. \A k \in 1 .. hi - lo : s[k] = lo + k
  BY <1>1
<1>5. Range(s) = lo + 1 .. hi
  <2>1. \A x \in lo + 1 .. hi : x - lo \in 1 .. hi - lo /\ s[x - lo] = x
    BY <1>4
  <2>2. \A k \in 1 .. hi - lo : lo + k \in lo + 1 .. hi
    OBVIOUS
  <2>3. Range(s) = {s[k] : k \in 1 .. hi - lo}
    BY <1>2 DEF Range
  <2> HIDE DEF s
  <2> QED BY <1>4, <2>1, <2>2, <2>3
<1> QED BY <1>2, <1>3, <1>4, <1>5

(* The next line makes a run longer by one.                                *)
LEMMA LinesGrow ==
  ASSUME NEW lo \in Nat, NEW hi \in Nat, lo <= hi
  PROVE  Append(Lines(lo, hi), hi + 1) = Lines(lo, hi + 1)
<1> DEFINE s == Append(Lines(lo, hi), hi + 1)
           t == Lines(lo, hi + 1)
<1>1. /\ Lines(lo, hi) \in Seq(Nat) /\ Len(Lines(lo, hi)) = hi - lo
      /\ \A k \in 1 .. hi - lo : Lines(lo, hi)[k] = lo + k
  BY LinesFacts
<1>2. /\ s \in Seq(Nat) /\ Len(s) = hi - lo + 1
      /\ \A k \in 1 .. hi - lo : s[k] = lo + k
      /\ s[hi - lo + 1] = hi + 1
  BY <1>1, AppendProperties
<1>3. /\ t \in Seq(Nat) /\ Len(t) = hi + 1 - lo
      /\ \A k \in 1 .. hi + 1 - lo : t[k] = lo + k
  BY LinesFacts
<1> HIDE DEF s, t
<1>4. Len(s) = Len(t) /\ \A k \in 1 .. Len(s) : s[k] = t[k]
  BY <1>2, <1>3
<1> QED BY <1>2, <1>3, <1>4, SeqEqual DEF s, t

(* A run that goes on where another one ends makes one run with it.        *)
LEMMA LinesJoin ==
  ASSUME NEW lo \in Nat, NEW mid \in Nat, NEW hi \in Nat, lo <= mid, mid <= hi
  PROVE  Lines(lo, mid) \o Lines(mid, hi) = Lines(lo, hi)
<1> DEFINE s == Lines(lo, mid) \o Lines(mid, hi)
           t == Lines(lo, hi)
<1>1. /\ Lines(lo, mid) \in Seq(Nat) /\ Len(Lines(lo, mid)) = mid - lo
      /\ \A k \in 1 .. mid - lo : Lines(lo, mid)[k] = lo + k
  BY LinesFacts
<1>2. /\ Lines(mid, hi) \in Seq(Nat) /\ Len(Lines(mid, hi)) = hi - mid
      /\ \A k \in 1 .. hi - mid : Lines(mid, hi)[k] = mid + k
  BY LinesFacts
<1>3. /\ s \in Seq(Nat) /\ Len(s) = (mid - lo) + (hi - mid)
      /\ \A k \in 1 .. (mid - lo) + (hi - mid) :
           s[k] = IF k <= mid - lo THEN Lines(lo, mid)[k] ELSE Lines(mid, hi)[k - (mid - lo)]
  <2>1. PICK u, v : u = Lines(lo, mid) /\ v = Lines(mid, hi)
    OBVIOUS
  <2>2. u \in Seq(Nat) /\ v \in Seq(Nat) /\ Len(u) = mid - lo /\ Len(v) = hi - mid
    BY <1>1, <1>2, <2>1
  <2>3. /\ u \o v \in Seq(Nat) /\ Len(u \o v) = Len(u) + Len(v)
        /\ \A k \in 1 .. Len(u) + Len(v) :
             (u \o v)[k] = IF k <= Len(u) THEN u[k] ELSE v[k - Len(u)]
    BY <2>2, ConcatProperties
  <2> QED BY <2>1, <2>2, <2>3
<1>4. /\ t \in Seq(Nat) /\ Len(t) = hi - lo
      /\ \A k \in 1 .. hi - lo : t[k] = lo + k
  BY LinesFacts
<1> HIDE DEF s, t
<1>5. Len(s) = Len(t)
  BY <1>3, <1>4
<1>6. \A k \in 1 .. Len(s) : s[k] = t[k]
  <2> TAKE k \in 1 .. Len(s)
  <2>1. k \in 1 .. hi - lo /\ t[k] = lo + k
    BY <1>4, <1>5
  <2>2. CASE k <= mid - lo
    BY <1>1, <1>3, <2>1, <2>2
  <2>3. CASE ~(k <= mid - lo)
    <3>1. k - (mid - lo) \in 1 .. hi - mid
      BY <2>1, <2>3
    <3> QED BY <1>2, <1>3, <2>1, <2>3, <3>1
  <2> QED BY <2>2, <2>3
<1> QED BY <1>3, <1>4, <1>5, <1>6, SeqEqual DEF s, t

(* The files hold the later lines, the lower their number.                 *)
LEMMA HoldsOrder ==
  ASSUME NEW m \in Nat, NEW f, NEW b, Holds(f, b, m)
  PROVE  \A i, j \in 0 .. m + 2 : i <= j => b[j] <= b[i]
<1> DEFINE C == {d \in Nat : \A i \in 0 .. m + 2 : i + d <= m + 2 => b[i + d] <= b[i]}
<1>1. \A i \in 0 .. m + 2 : b[i] \in Nat
  BY DEF Holds
<1>2. 0 \in C
  BY <1>1
<1>3. ASSUME NEW d \in Nat, d \in C PROVE d + 1 \in C
  <2> SUFFICES ASSUME NEW i \in 0 .. m + 2, i + (d + 1) <= m + 2
               PROVE  b[i + (d + 1)] <= b[i]
    OBVIOUS
  <2>1. b[i + d] <= b[i] /\ i + d \in 0 .. m + 1
    BY <1>3
  <2>2. b[(i + d) + 1] <= b[i + d]
    BY <2>1 DEF Holds
  <2>3. (i + d) + 1 = i + (d + 1) /\ i + (d + 1) \in 0 .. m + 2 /\ i + d \in 0 .. m + 2
    BY <2>1
  <2> QED BY <1>1, <2>1, <2>2, <2>3
<1>4. Nat \subseteq C
  <2> HIDE DEF C
  <2> QED BY <1>2, <1>3, Induction
<1> SUFFICES ASSUME NEW i \in 0 .. m + 2, NEW j \in 0 .. m + 2, i <= j
             PROVE  b[j] <= b[i]
  OBVIOUS
<1>5. j - i \in C /\ i + (j - i) = j
  BY <1>4
<1> QED BY <1>5

(* So the lines in the order of their files are one run: the recursion of  *)
(* FlattenSeq joins run after run.                                         *)
LEMMA InOrderLines ==
  ASSUME maxFiles \in Nat, NEW b, Holds(files, b, maxFiles)
  PROVE  InOrder = Lines(b[maxFiles + 2], b[0])
<1> DEFINE m == maxFiles
           s == [i \in 1 .. m + 2 |-> files[m + 2 - i]]
           F == [i \in 1 .. m + 2 |-> Lines(b[m + 2], b[m + 2 - i])]
           flatten == CHOOSE g : g = [i \in 1 .. Len(s) |-> IF i = 1 THEN s[i] ELSE g[i - 1] \o s[i]]
<1>1. Len(s) = m + 2 /\ s \in Seq({files[i] : i \in 0 .. m + 1})
  OBVIOUS
<1>2. InOrder = flatten[Len(s)]
  <2>1. InOrder = FlattenSeq(s)
    BY DEF InOrder
  <2>2. Len(s) # 0
    BY <1>1
  <2> HIDE DEF s
  <2> QED BY <2>1, <2>2 DEF FlattenSeq
<1>3. \A i \in 0 .. m + 2 : b[i] \in Nat
  BY DEF Holds
<1>4. \A i \in 1 .. m + 2 : s[i] = Lines(b[m + 3 - i], b[m + 2 - i])
  <2> TAKE i \in 1 .. m + 2
  <2>1. m + 2 - i \in 0 .. m + 1 /\ (m + 2 - i) + 1 = m + 3 - i
    OBVIOUS
  <2>2. files[m + 2 - i] = Lines(b[(m + 2 - i) + 1], b[m + 2 - i])
    BY <2>1 DEF Holds
  <2> QED BY <2>1, <2>2
<1>5. F = [i \in 1 .. m + 2 |-> IF i = 1 THEN s[i] ELSE F[i - 1] \o s[i]]
  <2> SUFFICES ASSUME NEW i \in 1 .. m + 2
               PROVE  Lines(b[m + 2], b[m + 2 - i]) = IF i = 1 THEN s[i] ELSE F[i - 1] \o s[i]
    OBVIOUS
  <2>1. CASE i = 1
    BY <1>4, <2>1
  <2>2. CASE i # 1
    <3>1. F[i - 1] = Lines(b[m + 2], b[m + 3 - i])
      <4>1. i - 1 \in 1 .. m + 2 /\ m + 2 - (i - 1) = m + 3 - i
        BY <2>2
      <4> QED BY <4>1
    <3>2. /\ m + 2 - i \in 0 .. m + 2 /\ m + 3 - i \in 0 .. m + 2 /\ m + 2 \in 0 .. m + 2
          /\ m + 2 - i <= m + 3 - i /\ m + 3 - i <= m + 2
      BY <2>2
    <3>3. /\ b[m + 2] \in Nat /\ b[m + 3 - i] \in Nat /\ b[m + 2 - i] \in Nat
          /\ b[m + 2] <= b[m + 3 - i] /\ b[m + 3 - i] <= b[m + 2 - i]
      BY <1>3, <3>2, HoldsOrder
    <3>4. Lines(b[m + 2], b[m + 3 - i]) \o Lines(b[m + 3 - i], b[m + 2 - i])
            = Lines(b[m + 2], b[m + 2 - i])
      BY <3>3, LinesJoin
    <3> QED BY <1>4, <2>2, <3>1, <3>4
  <2> QED BY <2>1, <2>2
<1> HIDE DEF F, s
<1>6. flatten = [i \in 1 .. m + 2 |-> IF i = 1 THEN s[i] ELSE flatten[i - 1] \o s[i]]
  <2>1. \E g : g = [i \in 1 .. Len(s) |-> IF i = 1 THEN s[i] ELSE g[i - 1] \o s[i]]
    BY <1>1, <1>5
  <2> QED BY <1>1, <2>1
<1> HIDE DEF flatten
<1> DEFINE C == {n \in Nat : n + 1 <= m + 2 => flatten[n + 1] = F[n + 1]}
<1>7. 0 \in C
  <2>1. 1 \in 1 .. m + 2
    OBVIOUS
  <2>2. flatten[1] = s[1] /\ F[1] = s[1]
    BY <1>5, <1>6, <2>1
  <2> QED BY <2>2
<1>8. ASSUME NEW n \in Nat, n \in C PROVE n + 1 \in C
  <2> SUFFICES ASSUME n + 2 <= m + 2 PROVE flatten[n + 2] = F[n + 2]
    OBVIOUS
  <2>1. n + 2 \in 1 .. m + 2 /\ n + 2 # 1 /\ (n + 2) - 1 = n + 1
    OBVIOUS
  <2>2. flatten[n + 2] = flatten[n + 1] \o s[n + 2]
    BY <1>6, <2>1
  <2>3. F[n + 2] = F[n + 1] \o s[n + 2]
    BY <1>5, <2>1
  <2>4. flatten[n + 1] = F[n + 1]
    BY <1>8
  <2> QED BY <2>2, <2>3, <2>4
<1>9. Nat \subseteq C
  <2> HIDE DEF C
  <2> QED BY <1>7, <1>8, Induction
<1>10. flatten[m + 2] = F[m + 2]
  <2>1. m + 1 \in C
    BY <1>9
  <2> QED BY <2>1
<1>11. F[m + 2] = Lines(b[m + 2], b[0])
  BY DEF F
<1> QED BY <1>1, <1>2, <1>10, <1>11

(* The files after a part of a rotation: every file from p on has moved to *)
(* the next number, the last one is gone, and p itself is free.            *)
Shifted(f, m, p) ==
  [i \in 0 .. m + 1 |-> IF i > m \/ i < p THEN f[i]
                        ELSE IF i = p THEN NoLines ELSE f[i - 1]]

(* The calls in pairs: a removal, and a move to the number it freed.       *)
LEMMA CallAt ==
  ASSUME NEW m \in Nat \ {0}
  PROVE  /\ Len(Calls(m)) = 2 * m + 1 /\ DOMAIN Calls(m) = 1 .. 2 * m + 1
         /\ \A q \in 0 .. m - 1 : /\ Calls(m)[2 * q + 1] = Removal(m - q)
                                  /\ Calls(m)[2 * q + 2] = Move(m - q - 1, m - q)
         /\ Calls(m)[2 * m + 1] = Removal(m + 1)
<1> DEFINE n == 2 * (m - 1)
           pair(j) == LET i == m - (j + 1) \div 2
                      IN  IF j % 2 = 1 THEN Removal(i + 1) ELSE Move(i, i + 1)
           s == [j \in 1 .. n |-> pair(j)]
           t == <<Removal(1), Move(0, 1), Removal(m + 1)>>
           AllCalls == {pair(j) : j \in 1 .. n} \cup {Removal(1), Move(0, 1), Removal(m + 1)}
<1>1. Calls(m) = s \o t
  BY DEF Calls
<1>2. n \in Nat /\ n + 3 = 2 * m + 1
  OBVIOUS
<1>3. s \in Seq(AllCalls) /\ Len(s) = n /\ t \in Seq(AllCalls) /\ Len(t) = 3
  <2>1. s \in [1 .. n -> AllCalls]
    OBVIOUS
  <2>2. Removal(1) \in AllCalls /\ Move(0, 1) \in AllCalls /\ Removal(m + 1) \in AllCalls
    OBVIOUS
  <2> HIDE DEF s, AllCalls, n
  <2> QED BY <1>2, <2>1, <2>2
<1>4. \A j \in 1 .. n : s[j] = pair(j)
  OBVIOUS
<1>5. t[1] = Removal(1) /\ t[2] = Move(0, 1) /\ t[3] = Removal(m + 1)
  OBVIOUS
<1> HIDE DEF s, t, AllCalls
<1>6. /\ Len(s \o t) = n + 3 /\ s \o t \in Seq(AllCalls)
      /\ \A j \in 1 .. n + 3 : (s \o t)[j] = IF j <= n THEN s[j] ELSE t[j - n]
  <2>1. PICK u, v, C : u = s /\ v = t /\ C = AllCalls
    OBVIOUS
  <2>2. u \in Seq(C) /\ v \in Seq(C) /\ Len(u) = n /\ Len(v) = 3
    BY <1>3, <2>1
  <2>3. /\ u \o v \in Seq(C) /\ Len(u \o v) = Len(u) + Len(v)
        /\ \A k \in 1 .. Len(u) + Len(v) :
             (u \o v)[k] = IF k <= Len(u) THEN u[k] ELSE v[k - Len(u)]
    BY <2>2, ConcatProperties
  <2> QED BY <2>1, <2>2, <2>3
<1>7. Len(Calls(m)) = 2 * m + 1 /\ DOMAIN Calls(m) = 1 .. 2 * m + 1
  BY <1>1, <1>2, <1>6
<1>8. ASSUME NEW q \in 0 .. m - 1
      PROVE  /\ Calls(m)[2 * q + 1] = Removal(m - q)
             /\ Calls(m)[2 * q + 2] = Move(m - q - 1, m - q)
  <2>1. 2 * q + 1 \in 1 .. n + 3 /\ 2 * q + 2 \in 1 .. n + 3
    OBVIOUS
  <2>2. CASE q = m - 1
    <3>1. 2 * q + 1 = n + 1 /\ 2 * q + 2 = n + 2
      BY <2>2
    <3>2. (n + 1) - n = 1 /\ (n + 2) - n = 2 /\ ~(n + 1 <= n) /\ ~(n + 2 <= n)
      BY <1>2
    <3>3. (s \o t)[2 * q + 1] = t[1] /\ (s \o t)[2 * q + 2] = t[2]
      BY <1>6, <2>1, <3>1, <3>2
    <3>4. m - q = 1 /\ m - q - 1 = 0
      BY <2>2
    <3> QED BY <1>1, <1>5, <3>3, <3>4
  <2>3. CASE q # m - 1
    <3>1. 2 * q + 1 \in 1 .. n /\ 2 * q + 2 \in 1 .. n
      BY <2>3
    <3>2. (s \o t)[2 * q + 1] = pair(2 * q + 1) /\ (s \o t)[2 * q + 2] = pair(2 * q + 2)
      <4>1. s[2 * q + 1] = pair(2 * q + 1) /\ s[2 * q + 2] = pair(2 * q + 2)
        <5> HIDE DEF pair, n
        <5> QED BY <1>4, <3>1
      <4>2. PICK k, u : k = 2 * q + 1 /\ u = s \o t
        OBVIOUS
      <4>3. /\ k \in 1 .. n + 3 /\ k + 1 \in 1 .. n + 3 /\ k <= n /\ k + 1 <= n
            /\ k + 1 = 2 * q + 2
        BY <2>1, <3>1, <4>2
      <4>4. \A j \in 1 .. n + 3 : u[j] = IF j <= n THEN s[j] ELSE t[j - n]
        BY <1>6, <4>2
      <4> HIDE DEF n
      <4>5. u[k] = s[k] /\ u[k + 1] = s[k + 1]
        BY <4>3, <4>4
      <4> HIDE DEF pair
      <4> QED BY <4>1, <4>2, <4>3, <4>5
    <3>3. /\ (2 * q + 1) % 2 = 1 /\ (2 * q + 2) % 2 = 0
          /\ (2 * q + 1 + 1) \div 2 = q + 1 /\ (2 * q + 2 + 1) \div 2 = q + 1
      OBVIOUS
    <3>4. m - (q + 1) + 1 = m - q /\ m - (q + 1) = m - q - 1
      OBVIOUS
    <3>5. pair(2 * q + 1) = Removal(m - q) /\ pair(2 * q + 2) = Move(m - q - 1, m - q)
      BY <3>3, <3>4
    <3> QED BY <1>1, <3>2, <3>5
  <2> QED BY <2>2, <2>3
<1>9. Calls(m)[2 * m + 1] = Removal(m + 1)
  <2>1. 2 * m + 1 = n + 3 /\ (n + 3) - n = 3 /\ n + 3 \in 1 .. n + 3 /\ ~(n + 3 <= n)
    BY <1>2
  <2> QED BY <1>1, <1>5, <1>6, <2>1
<1> QED BY <1>7, <1>8, <1>9

(* A call that finds its file.                                             *)
LEMMA CalledIs ==
  ASSUME NEW f, NEW call, f[call.file] # NoLines, call.to # call.file
  PROVE  Called(f, call) = [i \in DOMAIN f |-> IF i = call.to THEN f[call.file]
                                              ELSE IF i = call.file THEN NoLines ELSE f[i]]
<1>1. ASSUME NEW i
      PROVE  (CASE i = call.to -> f[call.file] [] i = call.file -> NoLines [] OTHER -> f[i])
               = IF i = call.to THEN f[call.file] ELSE IF i = call.file THEN NoLines ELSE f[i]
  <2>1. CASE i = call.to /\ i # call.file
    BY <2>1
  <2>2. CASE i = call.file /\ i # call.to
    BY <2>2
  <2>3. CASE i # call.file /\ i # call.to
    BY <2>3
  <2> QED BY <2>1, <2>2, <2>3
<1> QED BY <1>1 DEF Called

(* What a removal and a move do to what a rotation has reached.            *)
LEMMA CallShifts ==
  ASSUME NEW m \in Nat \ {0}, NEW f, DOMAIN f = 0 .. m + 1, f = [i \in 0 .. m + 1 |-> f[i]],
         f[m + 1] = NoLines
  PROVE  /\ Called(f, Removal(m)) = Shifted(f, m, m)
         /\ \A p \in 1 .. m : /\ Called(Shifted(f, m, p), Removal(p)) = Shifted(f, m, p)
                              /\ Called(Shifted(f, m, p), Move(p - 1, p)) = Shifted(f, m, p - 1)
         /\ Called(Shifted(f, m, 0), Removal(m + 1)) = Shifted(f, m, 0)
<1>1. ASSUME NEW g, NEW call
      PROVE  /\ g[call.file] = NoLines => Called(g, call) = g
             /\ g[call.file] # NoLines /\ call.to # call.file =>
                  Called(g, call) = [i \in DOMAIN g |-> IF i = call.to THEN g[call.file]
                                                        ELSE IF i = call.file THEN NoLines
                                                        ELSE g[i]]
  BY CalledIs DEF Called
<1>2. Called(f, Removal(m)) = Shifted(f, m, m)
  <2>1. Removal(m).file = m /\ Removal(m).to = -1 /\ Removal(m).to # Removal(m).file
    BY DEF Removal
  <2>2. CASE f[m] = NoLines
    <3>1. \A i \in 0 .. m + 1 : f[i] = Shifted(f, m, m)[i]
      BY <2>2 DEF Shifted
    <3>2. f = Shifted(f, m, m)
      BY <3>1 DEF Shifted
    <3> QED BY <1>1, <2>1, <2>2, <3>2
  <2>3. CASE f[m] # NoLines
    <3>1. Called(f, Removal(m)) = [i \in 0 .. m + 1 |-> IF i = m THEN NoLines ELSE f[i]]
      <4>1. Called(f, Removal(m)) = [i \in 0 .. m + 1 |-> IF i = -1 THEN f[m]
                                                          ELSE IF i = m THEN NoLines ELSE f[i]]
        <5>1. PICK call, g : call = Removal(m) /\ g = f
          OBVIOUS
        <5>2. call.file = m /\ call.to = -1 /\ call.to # call.file /\ g[call.file] # NoLines
          BY <2>1, <2>3, <5>1
        <5>3. Called(g, call) = [i \in DOMAIN g |-> IF i = call.to THEN g[call.file]
                                                  ELSE IF i = call.file THEN NoLines ELSE g[i]]
          BY <1>1, <5>2
        <5> QED BY <5>1, <5>2, <5>3
      <4>2. \A i \in 0 .. m + 1 : i # -1
        OBVIOUS
      <4> QED BY <4>1, <4>2
    <3>2. Shifted(f, m, m) = [i \in 0 .. m + 1 |-> IF i = m THEN NoLines ELSE f[i]]
      <4>1. \A i \in 0 .. m + 1 : (IF i > m \/ i < m THEN f[i] ELSE IF i = m THEN NoLines ELSE f[i - 1])
                                     = (IF i = m THEN NoLines ELSE f[i])
        OBVIOUS
      <4> QED BY <4>1 DEF Shifted
    <3> QED BY <3>1, <3>2
  <2> QED BY <2>2, <2>3
<1>3. ASSUME NEW p \in 1 .. m
      PROVE  Called(Shifted(f, m, p), Removal(p)) = Shifted(f, m, p)
  <2>1. Removal(p).file = p
    BY DEF Removal
  <2>2. Shifted(f, m, p)[p] = NoLines
    BY DEF Shifted
  <2> QED BY <1>1, <2>1, <2>2
<1>4. ASSUME NEW p \in 1 .. m
      PROVE  Called(Shifted(f, m, p), Move(p - 1, p)) = Shifted(f, m, p - 1)
  <2> DEFINE g == Shifted(f, m, p)
             h == Shifted(f, m, p - 1)
  <2>1. /\ Move(p - 1, p).file = p - 1 /\ Move(p - 1, p).to = p
        /\ Move(p - 1, p).to # Move(p - 1, p).file
    BY DEF Move
  <2>2. g[p - 1] = f[p - 1] /\ g[p] = NoLines /\ DOMAIN g = 0 .. m + 1
    BY DEF Shifted
  <2>3. \A i \in 0 .. m + 1 : h[i] = IF i = p THEN f[p - 1]
                                     ELSE IF i = p - 1 THEN NoLines ELSE g[i]
    BY DEF Shifted
  <2>4. h = [i \in 0 .. m + 1 |-> h[i]] /\ g = [i \in 0 .. m + 1 |-> g[i]]
    BY DEF Shifted
  <2> HIDE DEF g, h
  <2>5. CASE f[p - 1] = NoLines
    <3>1. \A i \in 0 .. m + 1 : h[i] = g[i]
      BY <2>2, <2>3, <2>5
    <3>2. h = g
      BY <2>4, <3>1
    <3> QED BY <1>1, <2>1, <2>2, <2>5, <3>2 DEF g, h
  <2>6. CASE f[p - 1] # NoLines
    <3>1. Called(g, Move(p - 1, p)) = [i \in 0 .. m + 1 |->
                                         IF i = p THEN f[p - 1]
                                         ELSE IF i = p - 1 THEN NoLines ELSE g[i]]
      <4>1. PICK call : call = Move(p - 1, p)
        OBVIOUS
      <4>2. call.file = p - 1 /\ call.to = p /\ call.to # call.file /\ g[call.file] # NoLines
        BY <2>1, <2>2, <2>6, <4>1
      <4>3. Called(g, call) = [i \in DOMAIN g |-> IF i = call.to THEN g[call.file]
                                                ELSE IF i = call.file THEN NoLines ELSE g[i]]
        BY <1>1, <4>2
      <4> QED BY <2>2, <4>1, <4>2, <4>3
    <3>2. Called(g, Move(p - 1, p)) = [i \in 0 .. m + 1 |-> h[i]]
      BY <2>3, <3>1
    <3> QED BY <2>4, <3>2 DEF g, h
  <2> QED BY <2>5, <2>6
<1>5. Called(Shifted(f, m, 0), Removal(m + 1)) = Shifted(f, m, 0)
  <2>1. Removal(m + 1).file = m + 1
    BY DEF Removal
  <2>2. Shifted(f, m, 0)[m + 1] = NoLines
    BY DEF Shifted
  <2> QED BY <1>1, <2>1, <2>2
<1> QED BY <1>2, <1>3, <1>4, <1>5

(* The recursion of FoldLeft over a part of the calls.                     *)
Calling(g, f, calls, S) ==
  g = [s \in SUBSET S |-> IF s = {} THEN f ELSE Called(g[s \ {Max(s)}], calls[Max(s)])]

(* The call that the recursion of FoldLeft makes last.                     *)
LEMMA GreatestLemma ==
  ASSUME NEW n \in Nat, NEW s, s \subseteq 0 .. n, n \in s
  PROVE  Max(s) = n
<1>1. \A y \in s : n >= y
  OBVIOUS
<1>2. Max(s) \in s /\ \A y \in s : Max(s) >= y
  BY <1>1 DEF Max
<1>3. Max(s) \in 0 .. n /\ n >= Max(s) /\ Max(s) >= n
  BY <1>1, <1>2
<1> QED BY <1>3

(* There is a function that satisfies the recursion, so that what FoldLeft *)
(* chooses does.                                                           *)
LEMMA CallingExists ==
  ASSUME NEW f, NEW calls
  PROVE  \A n \in Nat : \E g : Calling(g, f, calls, 1 .. n)
<1> DEFINE C == {n \in Nat : \E g : Calling(g, f, calls, 1 .. n)}
<1>1. 0 \in C
  <2>1. 1 .. 0 = {}
    OBVIOUS
  <2>2. Calling([s \in SUBSET {} |-> f], f, calls, {})
    BY DEF Calling
  <2> QED BY <2>1, <2>2
<1>2. ASSUME NEW n \in Nat, n \in C PROVE n + 1 \in C
  <2>1. PICK g : Calling(g, f, calls, 1 .. n)
    BY <1>2
  <2> DEFINE k == n + 1
             h == [s \in SUBSET (1 .. k) |-> IF k \in s THEN Called(g[s \ {k}], calls[k])
                                             ELSE g[s]]
  <2>2. ASSUME NEW s \in SUBSET (1 .. k)
        PROVE  h[s] = IF s = {} THEN f ELSE Called(h[s \ {Max(s)}], calls[Max(s)])
    <3>1. CASE k \in s
      <4>1. Max(s) = k
        <5>1. s \subseteq 0 .. k /\ k \in Nat
          OBVIOUS
        <5> HIDE DEF k
        <5> QED BY <3>1, <5>1, GreatestLemma
      <4>2. s \ {k} \in SUBSET (1 .. k) /\ k \notin s \ {k} /\ s # {}
        BY <3>1
      <4>3. h[s \ {k}] = g[s \ {k}]
        BY <4>2
      <4>4. h[s] = Called(g[s \ {k}], calls[k])
        BY <3>1
      <4> HIDE DEF h, k
      <4> QED BY <4>1, <4>2, <4>3, <4>4
    <3>2. CASE k \notin s
      <4>1. s \in SUBSET (1 .. n)
        BY <3>2
      <4>2. h[s] = g[s]
        BY <3>2
      <4>3. s \ {Max(s)} \in SUBSET (1 .. k) /\ k \notin s \ {Max(s)}
        BY <3>2
      <4>4. h[s \ {Max(s)}] = g[s \ {Max(s)}]
        BY <4>3
      <4> HIDE DEF h, k
      <4> QED BY <2>1, <4>1, <4>2, <4>4 DEF Calling
    <3> QED BY <3>1, <3>2
  <2>3. Calling(h, f, calls, 1 .. k)
    BY <2>2 DEF Calling
  <2> QED BY <2>3
<1>3. Nat \subseteq C
  <2> HIDE DEF C
  <2> QED BY <1>1, <1>2, Induction
<1> QED BY <1>3

(* What the calls make of the files, one call after the other.             *)
Chain(f, calls) == FoldLeft(Called, f, calls)

(* The files after every one of the calls.                                 *)
Stages(g, f, calls, n) ==
  /\ g[0] = f
  /\ \A k \in 1 .. n : g[k] = Called(g[k - 1], calls[k])
  /\ Chain(f, calls) = g[n]

LEMMA CallingChain ==
  ASSUME NEW f, NEW n \in Nat, NEW calls, DOMAIN calls = 1 .. n
  PROVE  \E g : Stages(g, f, calls, n)
<1> DEFINE iter == CHOOSE g : Calling(g, f, calls, 1 .. n)
           c == [k \in 0 .. n |-> iter[1 .. k]]
<1>1. Chain(f, calls) = iter[1 .. n]
  BY DEF Chain, FoldLeft, MapThenFoldSet, Calling
<1>2. Calling(iter, f, calls, 1 .. n)
  BY CallingExists
<1> HIDE DEF iter
<1>3. iter[1 .. 0] = f
  BY <1>2 DEF Calling
<1>4. ASSUME NEW k \in 1 .. n PROVE iter[1 .. k] = Called(iter[1 .. (k - 1)], calls[k])
  <2>1. (1 .. k) \in SUBSET (1 .. n) /\ 1 .. k # {} /\ (1 .. k) \ {k} = 1 .. (k - 1)
    OBVIOUS
  <2>2. Max(1 .. k) = k
    <3>1. k \in Nat /\ 1 .. k \subseteq 0 .. k /\ k \in 1 .. k
      OBVIOUS
    <3> QED BY <3>1, GreatestLemma
  <2> QED BY <1>2, <2>1, <2>2 DEF Calling
<1>5. c[0] = f /\ c[n] = iter[1 .. n] /\ \A k \in 1 .. n : c[k] = Called(c[k - 1], calls[k])
  <2>1. 0 \in 0 .. n /\ n \in 0 .. n
    OBVIOUS
  <2>2. \A k \in 1 .. n : k \in 0 .. n /\ k - 1 \in 0 .. n
    OBVIOUS
  <2> QED BY <1>3, <1>4, <2>1, <2>2
<1> QED BY <1>1, <1>5 DEF Stages

(* The first n calls of a rotation: none, or the files from some number on *)
(* have moved; when all calls are made, the file itself is free.           *)
LEMMA RotationShifts ==
  ASSUME NEW m \in Nat \ {0}, NEW f, DOMAIN f = 0 .. m + 1,
         f = [i \in 0 .. m + 1 |-> f[i]], f[m + 1] = NoLines,
         NEW n \in Nat, n <= 2 * m + 1
  PROVE  /\ n = 0 => Chain(f, SubSeq(Calls(m), 1, n)) = f
         /\ n # 0 => \E p \in 0 .. m :
              /\ Chain(f, SubSeq(Calls(m), 1, n)) = Shifted(f, m, p)
              /\ n = 2 * m + 1 => p = 0
<1> DEFINE calls == SubSeq(Calls(m), 1, n)
<1>1. /\ Len(Calls(m)) = 2 * m + 1 /\ DOMAIN Calls(m) = 1 .. 2 * m + 1
      /\ \A q \in 0 .. m - 1 : /\ Calls(m)[2 * q + 1] = Removal(m - q)
                               /\ Calls(m)[2 * q + 2] = Move(m - q - 1, m - q)
      /\ Calls(m)[2 * m + 1] = Removal(m + 1)
  BY CallAt
<1>2. n \in Nat /\ DOMAIN calls = 1 .. n /\ \A k \in 1 .. n : calls[k] = Calls(m)[k]
  BY <1>1
<1>3. PICK g : /\ g[0] = f
               /\ \A k \in 1 .. n : g[k] = Called(g[k - 1], calls[k])
               /\ Chain(f, calls) = g[n]
  <2>1. PICK c, x, w : c = calls /\ x = f /\ w = n
    OBVIOUS
  <2>2. DOMAIN c = 1 .. w /\ w \in Nat
    BY <1>2, <2>1
  <2>3. \E g : Stages(g, x, c, w)
    BY <2>2, CallingChain
  <2> QED BY <2>1, <2>3 DEF Stages
<1>4. Chain(f, calls) = g[n]
  BY <1>3
<1>5. \A k \in 1 .. n : g[k] = Called(g[k - 1], Calls(m)[k])
  BY <1>2, <1>3
<1> HIDE DEF calls
<1>6. /\ Called(f, Removal(m)) = Shifted(f, m, m)
      /\ \A p \in 1 .. m : /\ Called(Shifted(f, m, p), Removal(p)) = Shifted(f, m, p)
                           /\ Called(Shifted(f, m, p), Move(p - 1, p))
                                = Shifted(f, m, p - 1)
      /\ Called(Shifted(f, m, 0), Removal(m + 1)) = Shifted(f, m, 0)
  BY CallShifts
<1> DEFINE C == {q \in Nat : q <= m =>
                   /\ 2 * q + 1 <= n => g[2 * q + 1] = Shifted(f, m, m - q)
                   /\ q >= 1 /\ 2 * q <= n => g[2 * q] = Shifted(f, m, m - q)}
<1>7. 0 \in C
  <2> SUFFICES ASSUME 1 <= n PROVE g[1] = Shifted(f, m, m)
    OBVIOUS
  <2>1. 1 \in 1 .. n /\ 0 \in 0 .. m - 1 /\ 2 * 0 + 1 = 1 /\ 1 - 1 = 0 /\ m - 0 = m
    BY <1>2
  <2>2. g[1] = Called(g[0], Calls(m)[1]) /\ Calls(m)[1] = Removal(m)
    BY <1>1, <1>5, <2>1
  <2> QED BY <1>3, <1>6, <2>2
<1>8. ASSUME NEW q \in Nat, q \in C PROVE q + 1 \in C
  <2> DEFINE p == m - q
  <2> SUFFICES ASSUME q + 1 <= m, 2 * q + 2 <= n
               PROVE  /\ 2 * q + 3 <= n => g[2 * q + 3] = Shifted(f, m, p - 1)
                      /\ g[2 * q + 2] = Shifted(f, m, p - 1)
    <3>1. 2 * (q + 1) = 2 * q + 2 /\ 2 * (q + 1) + 1 = 2 * q + 3 /\ m - (q + 1) = p - 1
      OBVIOUS
    <3>2. 2 * q + 3 <= n => 2 * q + 2 <= n
      BY <1>2
    <3> HIDE DEF p
    <3> QED BY <3>1, <3>2
  <2>1. p \in 1 .. m /\ q \in 0 .. m - 1 /\ q <= m /\ 2 * q + 1 <= n
    BY <1>2
  <2>2. g[2 * q + 1] = Shifted(f, m, p)
    BY <1>8, <2>1
  <2>3. g[2 * q + 2] = Shifted(f, m, p - 1)
    <3>1. 2 * q + 2 \in 1 .. n /\ (2 * q + 2) - 1 = 2 * q + 1 /\ m - q - 1 = p - 1
      BY <1>2
    <3>2. g[2 * q + 2] = Called(g[2 * q + 1], Calls(m)[2 * q + 2])
      BY <1>5, <3>1
    <3>3. Calls(m)[2 * q + 2] = Move(p - 1, p)
      BY <1>1, <2>1
    <3> HIDE DEF p
    <3> QED BY <1>6, <2>1, <2>2, <3>2, <3>3
  <2>4. ASSUME 2 * q + 3 <= n PROVE g[2 * q + 3] = Shifted(f, m, p - 1)
    <3>1. 2 * q + 3 \in 1 .. n /\ (2 * q + 3) - 1 = 2 * q + 2
      BY <1>2, <2>4
    <3>2. g[2 * q + 3] = Called(g[2 * q + 2], Calls(m)[2 * q + 3])
      BY <1>5, <3>1
    <3>3. CASE q + 1 <= m - 1
      <4>1. q + 1 \in 0 .. m - 1 /\ 2 * (q + 1) + 1 = 2 * q + 3 /\ m - (q + 1) = p - 1
        BY <3>3
      <4>2. Calls(m)[2 * q + 3] = Removal(p - 1)
        BY <1>1, <4>1
      <4>3. p - 1 \in 1 .. m
        BY <3>3
      <4> HIDE DEF p
      <4> QED BY <1>6, <2>3, <3>2, <4>2, <4>3
    <3>4. CASE q + 1 = m
      <4>1. p - 1 = 0 /\ 2 * q + 3 = 2 * m + 1
        BY <3>4
      <4> HIDE DEF p
      <4> QED BY <1>1, <1>6, <2>3, <3>2, <4>1
    <3> QED BY <2>1, <3>3, <3>4
  <2> QED BY <2>3, <2>4
<1>9. Nat \subseteq C
  <2> HIDE DEF C
  <2> QED BY <1>7, <1>8, Induction
<1>10. CASE n = 0
  BY <1>3, <1>4, <1>10 DEF calls
<1>11. CASE n # 0
  <2>1. PICK q \in Nat : n = 2 * q \/ n = 2 * q + 1
    <3> DEFINE D == {k \in Nat : \E r \in Nat : k = 2 * r \/ k = 2 * r + 1}
    <3>1. 0 \in D
      OBVIOUS
    <3>2. ASSUME NEW k \in Nat, k \in D PROVE k + 1 \in D
      <4>1. PICK r \in Nat : k = 2 * r \/ k = 2 * r + 1
        BY <3>2
      <4>2. CASE k = 2 * r
        BY <4>2
      <4>3. CASE k = 2 * r + 1
        <5>1. r + 1 \in Nat /\ k + 1 = 2 * (r + 1)
          BY <4>3
        <5> QED BY <5>1
      <4> QED BY <4>1, <4>2, <4>3
    <3>3. Nat \subseteq D
      <4> HIDE DEF D
      <4> QED BY <3>1, <3>2, Induction
    <3> QED BY <3>3
  <2>2. q <= m /\ (n = 2 * q => q >= 1) /\ m - q \in 0 .. m /\ n <= 2 * m + 1
    BY <1>1, <1>2, <1>11, <2>1
  <2>3. q \in C
    BY <1>9
  <2>4. g[n] = Shifted(f, m, m - q)
    BY <1>2, <2>1, <2>2, <2>3
  <2>5. n = Len(Calls(m)) => m - q = 0
    BY <1>1, <2>1, <2>2
  <2>6. Chain(f, SubSeq(Calls(m), 1, n)) = Shifted(f, m, m - q)
    BY <1>4, <2>4 DEF calls
  <2>7. n = 2 * m + 1 => m - q = 0
    BY <1>1, <2>5
  <2> QED BY <1>11, <2>2, <2>6, <2>7
<1> QED BY <1>10, <1>11

(* A rotation, or a part of one.                                           *)
ShiftedFrom(g, f, m, n) ==
  \E p \in 0 .. m : g = Shifted(f, m, p) /\ (n = Len(Calls(m)) => p = 0)

(* The same of the files of the logger: the first n calls of its rotation. *)
LEMMA RotatedShifts ==
  ASSUME maxFiles \in Nat \ {0}, DOMAIN files = 0 .. maxFiles + 1,
         files = [i \in 0 .. maxFiles + 1 |-> files[i]], files[maxFiles + 1] = NoLines,
         NEW n \in 0 .. Len(Calls(maxFiles))
  PROVE  /\ n = 0 => Rotated(n) = files
         /\ n # 0 => ShiftedFrom(Rotated(n), files, maxFiles, n)
<1>1. PICK m, f, k : m = maxFiles /\ f = files /\ k = n
  OBVIOUS
<1>2. m \in Nat \ {0} /\ DOMAIN f = 0 .. m + 1 /\ f = [i \in 0 .. m + 1 |-> f[i]]
      /\ f[m + 1] = NoLines
  BY <1>1
<1>3. Len(Calls(m)) = 2 * m + 1
  BY <1>2, CallAt
<1>4. k \in Nat /\ k <= 2 * m + 1
  BY <1>1, <1>2, <1>3
<1>5. /\ k = 0 => Chain(f, SubSeq(Calls(m), 1, k)) = f
      /\ k # 0 => \E p \in 0 .. m :
              /\ Chain(f, SubSeq(Calls(m), 1, k)) = Shifted(f, m, p)
              /\ k = 2 * m + 1 => p = 0
  BY <1>2, <1>4, RotationShifts
<1> QED BY <1>1, <1>3, <1>5 DEF Rotated, Chain, ShiftedFrom

(* The last line of every file after a part of a rotation.                 *)
Moved(b, m, p) ==
  [i \in 0 .. m + 2 |-> IF i <= p THEN b[i] ELSE IF i = m + 2 THEN b[m] ELSE b[i - 1]]

(* What the numbered files hold of the w lines there are, after c rotations *)
(* that were cut: unless an archive reaches back to the first line, it and  *)
(* the archives before it are full but for one per cut.                     *)
Reaching(b, m, w, c) ==
  /\ b[0] = w /\ b[m + 2] = b[m + 1]
  /\ \A k \in 0 .. m : b[k + 1] = 0 \/ b[1] - b[k + 1] >= MaxLines * (k - c)

(* Multiples of the size of a file.                                        *)
LEMMA Multiples ==
  ASSUME NEW n \in Nat
  PROVE  /\ \A x \in Int : n * x \in Int /\ n * (x + 1) = n * x + n /\ n * (x - 1) = n * x - n
         /\ \A c \in Nat : n * (0 - c) <= 0
<1>1. \A x \in Int : n * x \in Int /\ n * (x + 1) = n * x + n /\ n * (x - 1) = n * x - n
  OBVIOUS
<1> DEFINE C == {c \in Nat : n * (0 - c) <= 0}
<1>2. 0 \in C
  OBVIOUS
<1>3. ASSUME NEW c \in Nat, c \in C PROVE c + 1 \in C
  <2>1. 0 - c \in Int /\ 0 - (c + 1) = (0 - c) - 1
    OBVIOUS
  <2>2. n * ((0 - c) - 1) = n * (0 - c) - n /\ n * (0 - c) \in Int
    BY <1>1, <2>1
  <2>3. n * (0 - c) <= 0
    BY <1>3
  <2>4. n * (0 - (c + 1)) <= 0
    BY <2>1, <2>2, <2>3
  <2> QED BY <2>4
<1>4. Nat \subseteq C
  <2> HIDE DEF C
  <2> QED BY <1>2, <1>3, Induction
<1> QED BY <1>1, <1>4

(* After a part of a rotation the files still hold run after run.          *)
LEMMA MovedHolds ==
  ASSUME NEW m \in Nat \ {0}, NEW f, NEW b, Holds(f, b, m), f[m + 1] = NoLines, NEW p \in 0 .. m
  PROVE  Holds(Shifted(f, m, p), Moved(b, m, p), m)
<1> DEFINE d == Moved(b, m, p)
           g == Shifted(f, m, p)
<1>1. /\ b \in [0 .. m + 2 -> Nat] /\ \A i \in 0 .. m + 1 : b[i + 1] <= b[i]
      /\ f = [i \in 0 .. m + 1 |-> Lines(b[i + 1], b[i])]
  BY DEF Holds
<1>2. \A i \in 0 .. m + 2 : d[i] = IF i <= p THEN b[i] ELSE IF i = m + 2 THEN b[m] ELSE b[i - 1]
  BY DEF Moved
<1>3. \A i \in 0 .. m + 2 : d[i] \in Nat
  <2> TAKE i \in 0 .. m + 2
  <2>1. i \in 0 .. m + 2 /\ m \in 0 .. m + 2 /\ (i > p => i - 1 \in 0 .. m + 2)
    OBVIOUS
  <2> HIDE DEF d
  <2> QED BY <1>1, <1>2, <2>1
<1>4. d \in [0 .. m + 2 -> Nat]
  <2>1. d = [i \in 0 .. m + 2 |-> d[i]]
    BY DEF Moved
  <2> HIDE DEF d
  <2> QED BY <1>3, <2>1
<1>5. ASSUME NEW i \in 0 .. m + 1
      PROVE  d[i + 1] <= d[i] /\ g[i] = Lines(d[i + 1], d[i])
  <2>0. i + 1 \in 0 .. m + 2 /\ i \in 0 .. m + 2 /\ i \in Nat /\ p \in Nat /\ p <= m
    OBVIOUS
  <2>1. g[i] = IF i > m \/ i < p THEN f[i] ELSE IF i = p THEN NoLines ELSE f[i - 1]
    BY DEF Shifted
  <2> HIDE DEF d, g
  <2>2. CASE i < p
    <3>1. d[i + 1] = b[i + 1] /\ d[i] = b[i] /\ g[i] = f[i]
      BY <1>2, <2>0, <2>1, <2>2
    <3> QED BY <1>1, <3>1
  <2>3. CASE i = p
    <3>1. d[i + 1] = b[i] /\ d[i] = b[i] /\ g[i] = NoLines
      BY <1>2, <2>0, <2>1, <2>3
    <3>2. b[i] \in Nat
      BY <1>1, <2>0
    <3>3. Lines(b[i], b[i]) = NoLines
      BY <3>2, LinesFacts
    <3> QED BY <3>1, <3>2, <3>3
  <2>4. CASE i > p /\ i <= m
    <3>1. d[i + 1] = b[i] /\ d[i] = b[i - 1] /\ g[i] = f[i - 1] /\ i - 1 \in 0 .. m + 1
      BY <1>2, <2>0, <2>1, <2>4
    <3>2. b[(i - 1) + 1] <= b[i - 1] /\ f[i - 1] = Lines(b[(i - 1) + 1], b[i - 1])
      BY <1>1, <3>1
    <3>3. (i - 1) + 1 = i
      BY <2>0
    <3> QED BY <3>1, <3>2, <3>3
  <2>5. CASE i = m + 1
    <3>1. d[i + 1] = b[m] /\ d[i] = b[m] /\ g[i] = NoLines
      <4>1. i + 1 = m + 2 /\ i - 1 = m /\ i # m + 2 /\ i > p /\ i + 1 > p /\ i > m
        BY <2>0, <2>5
      <4> QED BY <1>2, <2>0, <2>1, <2>5, <4>1
    <3>2. b[m] \in Nat
      BY <1>1
    <3>3. Lines(b[m], b[m]) = NoLines
      BY <3>2, LinesFacts
    <3> QED BY <3>1, <3>2, <3>3
  <2> QED BY <2>0, <2>2, <2>3, <2>4, <2>5
<1>6. g = [i \in 0 .. m + 1 |-> g[i]]
  BY DEF Shifted
<1> HIDE DEF d, g
<1>7. Holds(g, d, m)
  BY <1>4, <1>5, <1>6 DEF Holds
<1> QED BY <1>7 DEF d, g

(* A rotation that is made brings a full archive for the one it removes,   *)
(* and one that is cut costs no more than one.                             *)
LEMMA MovedReaches ==
  ASSUME NEW m \in Nat \ {0}, NEW f, NEW b, Holds(f, b, m), NEW p \in 0 .. m,
         NEW w \in Nat, NEW c \in Nat, Reaching(b, m, w, c), NEW e \in Nat,
         \/ e = c + 1
         \/ e = c /\ p = 0 /\ b[0] - b[1] >= MaxLines
  PROVE  Reaching(Moved(b, m, p), m, w, e)
<1> DEFINE d == Moved(b, m, p)
<1>1. MaxLines \in Nat
  BY LogAssumption
<1>2. \A i \in 0 .. m + 2 : b[i] \in Nat
  BY DEF Holds
<1>3. \A i \in 0 .. m + 2 : d[i] = IF i <= p THEN b[i] ELSE IF i = m + 2 THEN b[m] ELSE b[i - 1]
  BY DEF Moved
<1>4. b[0] = w /\ \A k \in 0 .. m : b[k + 1] = 0 \/ b[1] - b[k + 1] >= MaxLines * (k - c)
  BY DEF Reaching
<1> HIDE DEF d
<1>5. d[0] = w
  BY <1>3, <1>4
<1>6. d[m + 2] = d[m + 1]
  <2>1. m + 2 \in 0 .. m + 2 /\ m + 1 \in 0 .. m + 2 /\ ~(m + 2 <= p) /\ ~(m + 1 <= p)
        /\ m + 1 # m + 2 /\ (m + 1) - 1 = m
    OBVIOUS
  <2> QED BY <1>3, <2>1
<1>7. d[1] = (IF p = 0 THEN b[0] ELSE b[1]) /\ b[1] <= b[0] /\ b[0] \in Nat /\ b[1] \in Nat
  <2>1. 1 \in 0 .. m + 2 /\ 1 # m + 2 /\ 1 - 1 = 0 /\ (p = 0 <=> ~(1 <= p))
    OBVIOUS
  <2>2. b[0 + 1] <= b[0]
    BY DEF Holds
  <2>3. b[0] \in Nat /\ b[1] \in Nat
    BY <1>2
  <2> QED BY <1>3, <2>1, <2>2, <2>3
<1>8. ASSUME NEW k \in 0 .. m
      PROVE  d[k + 1] = 0 \/ d[1] - d[k + 1] >= MaxLines * (k - e)
  <2>0. k + 1 \in 0 .. m + 2 /\ k \in 0 .. m + 2 /\ k + 1 # m + 2 /\ k \in Nat /\ p \in Nat
    OBVIOUS
  <2>1. b[k + 1] \in Nat /\ b[k] \in Nat
    BY <1>2, <2>0
  <2>2. /\ \A x \in Int : MaxLines * x \in Int /\ MaxLines * (x + 1) = MaxLines * x + MaxLines
                          /\ MaxLines * (x - 1) = MaxLines * x - MaxLines
        /\ MaxLines * (0 - e) <= 0
    BY <1>1, Multiples
  <2>3. CASE k = 0
    <3>1. d[k + 1] = d[1] /\ d[1] \in Nat /\ k - e = 0 - e
      BY <1>7, <2>3
    <3> QED BY <2>2, <3>1
  <2>4. CASE k # 0 /\ k + 1 <= p
    <3>1. d[k + 1] = b[k + 1] /\ d[1] = b[1] /\ e = c + 1
      BY <1>3, <1>7, <2>0, <2>4
    <3>2. b[k + 1] = 0 \/ b[1] - b[k + 1] >= MaxLines * (k - c)
      BY <1>4
    <3>3. k - c \in Int /\ k - e = (k - c) - 1
      BY <2>0, <3>1
    <3>4. MaxLines * (k - e) = MaxLines * (k - c) - MaxLines /\ MaxLines * (k - c) \in Int
      BY <2>2, <3>3
    <3> QED BY <1>1, <1>7, <2>1, <3>1, <3>2, <3>4
  <2>5. CASE k # 0 /\ ~(k + 1 <= p)
    <3>1. d[k + 1] = b[k] /\ k - 1 \in 0 .. m /\ (k - 1) + 1 = k
      BY <1>3, <2>0, <2>5
    <3>2. b[k] = 0 \/ b[1] - b[k] >= MaxLines * ((k - 1) - c)
      <4>1. b[(k - 1) + 1] = 0 \/ b[1] - b[(k - 1) + 1] >= MaxLines * ((k - 1) - c)
        BY <1>4, <3>1
      <4> QED BY <3>1, <4>1
    <3>3. (k - 1) - c \in Int /\ (k - 1) - c + 1 = k - c
      BY <2>0
    <3>4. MaxLines * (k - c) = MaxLines * ((k - 1) - c) + MaxLines
          /\ MaxLines * ((k - 1) - c) \in Int
      BY <2>2, <3>3
    <3>5. CASE e = c + 1
      <4>1. k - e = (k - 1) - c
        BY <2>0, <3>5
      <4>2. d[1] >= b[1] /\ d[1] \in Nat
        BY <1>7
      <4> QED BY <1>7, <2>1, <3>1, <3>2, <3>4, <4>1, <4>2
    <3>6. CASE e = c /\ p = 0 /\ b[0] - b[1] >= MaxLines
      <4>1. d[1] = b[0]
        BY <1>7, <3>6
      <4> QED BY <1>1, <1>7, <2>1, <3>1, <3>2, <3>4, <3>6, <4>1
    <3> QED BY <3>5, <3>6
  <2> QED BY <2>3, <2>4, <2>5
<1>9. Reaching(d, m, w, e)
  BY <1>5, <1>6, <1>8 DEF Reaching
<1> QED BY <1>9 DEF d

(* A rotation that was cut before its first call.                          *)
LEMMA CutReaches ==
  ASSUME NEW m \in Nat \ {0}, NEW f, NEW b, Holds(f, b, m),
         NEW w \in Nat, NEW c \in Nat, Reaching(b, m, w, c)
  PROVE  Reaching(b, m, w, c + 1)
<1>1. MaxLines \in Nat
  BY LogAssumption
<1>2. \A i \in 0 .. m + 2 : b[i] \in Nat
  BY DEF Holds
<1>3. ASSUME NEW k \in 0 .. m
      PROVE  b[k + 1] = 0 \/ b[1] - b[k + 1] >= MaxLines * (k - (c + 1))
  <2>1. b[k + 1] = 0 \/ b[1] - b[k + 1] >= MaxLines * (k - c)
    BY DEF Reaching
  <2>2. k - c \in Int /\ k - (c + 1) = (k - c) - 1 /\ k + 1 \in 0 .. m + 2 /\ 1 \in 0 .. m + 2
    OBVIOUS
  <2>3. MaxLines * (k - (c + 1)) = MaxLines * (k - c) - MaxLines /\ MaxLines * (k - c) \in Int
    BY <1>1, <2>2, Multiples
  <2>4. b[k + 1] \in Nat /\ b[1] \in Nat
    BY <1>2, <2>2
  <2> QED BY <1>1, <2>1, <2>3, <2>4
<1> QED BY <1>3 DEF Reaching

(* The line that is appended.                                              *)
LEMMA GrowHolds ==
  ASSUME NEW m \in Nat, NEW f, NEW b, Holds(f, b, m)
  PROVE  Holds([f EXCEPT ![0] = Append(@, b[0] + 1)], [b EXCEPT ![0] = b[0] + 1], m)
<1> DEFINE g == [f EXCEPT ![0] = Append(@, b[0] + 1)]
           d == [b EXCEPT ![0] = b[0] + 1]
<1>1. /\ b \in [0 .. m + 2 -> Nat] /\ \A i \in 0 .. m + 1 : b[i + 1] <= b[i]
      /\ f = [i \in 0 .. m + 1 |-> Lines(b[i + 1], b[i])]
  BY DEF Holds
<1>2. d \in [0 .. m + 2 -> Nat] /\ d[0] = b[0] + 1 /\ \A i \in 1 .. m + 2 : d[i] = b[i]
  BY <1>1
<1>3. g = [i \in 0 .. m + 1 |-> g[i]] /\ g[0] = Append(f[0], b[0] + 1)
      /\ \A i \in 1 .. m + 1 : g[i] = f[i]
  <2>1. DOMAIN f = 0 .. m + 1
    BY <1>1
  <2>2. g = [i \in DOMAIN f |-> IF i = 0 THEN Append(f[0], b[0] + 1) ELSE f[i]]
    OBVIOUS
  <2>3. 0 \in 0 .. m + 1 /\ \A i \in 1 .. m + 1 : i \in 0 .. m + 1 /\ i # 0
    OBVIOUS
  <2> HIDE DEF g
  <2> QED BY <2>1, <2>2, <2>3
<1> HIDE DEF g, d
<1>4. g[0] = Lines(d[1], d[0]) /\ d[1] <= d[0]
  <2>1. b[0] \in Nat /\ b[1] \in Nat /\ b[0 + 1] <= b[0] /\ f[0] = Lines(b[0 + 1], b[0])
    BY <1>1
  <2>2. Append(Lines(b[1], b[0]), b[0] + 1) = Lines(b[1], b[0] + 1)
    <3>1. PICK lo, hi : lo = b[1] /\ hi = b[0]
      OBVIOUS
    <3>2. lo \in Nat /\ hi \in Nat /\ lo <= hi
      BY <2>1, <3>1
    <3>3. Append(Lines(lo, hi), hi + 1) = Lines(lo, hi + 1)
      BY <3>2, LinesGrow
    <3> QED BY <3>1, <3>3
  <2>3. d[1] = b[1] /\ f[0] = Lines(b[1], b[0]) /\ b[1] <= b[0]
    BY <1>2, <2>1
  <2>4. g[0] = Lines(d[1], d[0])
    BY <1>2, <1>3, <2>2, <2>3
  <2>5. d[1] <= d[0]
    <3>1. d[0] = b[0] + 1 /\ d[1] = b[1] /\ b[1] <= b[0] /\ b[0] \in Nat /\ b[1] \in Nat
      BY <1>2, <2>1, <2>3
    <3> QED BY <3>1
  <2> QED BY <2>4, <2>5
<1>5. ASSUME NEW i \in 0 .. m + 1 PROVE d[i + 1] <= d[i] /\ g[i] = Lines(d[i + 1], d[i])
  <2>1. CASE i = 0
    BY <1>4, <2>1
  <2>2. CASE i # 0
    <3>1. i \in 1 .. m + 1 /\ i \in 1 .. m + 2 /\ i + 1 \in 1 .. m + 2
      BY <2>2
    <3>2. d[i] = b[i] /\ d[i + 1] = b[i + 1] /\ g[i] = f[i]
      BY <1>2, <1>3, <3>1
    <3> QED BY <1>1, <3>2
  <2> QED BY <2>1, <2>2
<1>6. Holds(g, d, m)
  BY <1>2, <1>3, <1>5 DEF Holds
<1> QED BY <1>6 DEF g, d

(* A line that is appended leaves the archives as they are.                *)
LEMMA GrowReaches ==
  ASSUME NEW m \in Nat, NEW f, NEW b, Holds(f, b, m),
         NEW w \in Nat, NEW c \in Nat, Reaching(b, m, w, c)
  PROVE  Reaching([b EXCEPT ![0] = b[0] + 1], m, w + 1, c)
<1> DEFINE d == [b EXCEPT ![0] = b[0] + 1]
<1>1. b \in [0 .. m + 2 -> Nat]
  BY DEF Holds
<1>2. d[0] = b[0] + 1 /\ \A i \in 1 .. m + 2 : d[i] = b[i]
  BY <1>1
<1> HIDE DEF d
<1>3. b[0] = w /\ b[m + 2] = b[m + 1]
      /\ \A k \in 0 .. m : b[k + 1] = 0 \/ b[1] - b[k + 1] >= MaxLines * (k - c)
  BY DEF Reaching
<1>4. d[m + 2] = b[m + 2] /\ d[m + 1] = b[m + 1] /\ d[1] = b[1] /\ \A k \in 0 .. m : d[k + 1] = b[k + 1]
  BY <1>2
<1>5. Reaching(d, m, w + 1, c)
  BY <1>2, <1>3, <1>4 DEF Reaching
<1> QED BY <1>5 DEF d

(* An archive t of the launcher holds the lines from lo[t] to hi[t], and   *)
(* archives that were written later hold later lines.  A line that is in    *)
(* none of them is before as many archives as are kept.                     *)
Filed(a, lo, hi, base, end, m) ==
  /\ DOMAIN a \subseteq 1 .. end
  /\ \A t \in DOMAIN a :
       /\ a[t].lines = Lines(lo[t], hi[t]) /\ a[t].mtime \in Nat /\ a[t].mtime < end
       /\ lo[t] \in Nat /\ hi[t] \in Nat /\ hi[t] - lo[t] >= MaxLines /\ hi[t] <= base
  /\ \A t, u \in DOMAIN a : t # u =>
       \/ a[t].mtime < a[u].mtime /\ hi[t] <= lo[u]
       \/ a[u].mtime < a[t].mtime /\ hi[u] <= lo[t]
  /\ \A l \in 1 .. base : \/ \E t \in DOMAIN a : lo[t] < l /\ l <= hi[t]
                          \/ Cardinality({t \in DOMAIN a : l <= lo[t]}) >= m - 1

(* The archives hold the lines before base, less those they may lose.      *)
Archived(a, base, end, m) == \E lo, hi : Filed(a, lo, hi, base, end, m)

LogTypes ==
  /\ sink \in {"numbered", "stamped"} /\ maxFiles \in Nat \ {0}
  /\ now \in Nat /\ written \in Nat /\ cuts \in Nat /\ turned \in BOOLEAN

NumberedInv ==
  sink = "numbered" => \E b : Holds(files, b, maxFiles) /\ Reaching(b, maxFiles, written, cuts)

OneFile(lines, m) == [i \in 0 .. m + 1 |-> IF i = 0 THEN lines ELSE NoLines]

(* The times that may be in use: that of the last line, or the next one    *)
(* when a rotation has taken it.                                           *)
End(base, w, n) == IF base = w THEN n + 1 ELSE n

(* The file of the launcher holds the lines from base on, and its archives *)
(* those before, unless the clock was set back.                            *)
StampedInv ==
  sink = "stamped" =>
    \E base \in Nat :
      /\ base <= written /\ files = OneFile(Lines(base, written), maxFiles)
      /\ ~turned => Archived(archives, base, End(base, written, now), maxFiles)

(* What every step keeps of the log.                                       *)
LogInv == LogTypes /\ NumberedInv /\ StampedInv

(* FileSink, write: the rotation, cut after any of its calls or not at     *)
(* all, and the line.                                                      *)
LEMMA WriteNumberedKeeps == ASSUME LogInv, WriteNumbered PROVE LogInv'
<1> DEFINE m == maxFiles
<1>1. /\ m \in Nat \ {0} /\ written \in Nat /\ cuts \in Nat /\ sink = "numbered"
      /\ sink' = sink /\ maxFiles' = maxFiles /\ now' = now
  BY DEF LogInv, LogTypes, WriteNumbered
<1>2. PICK b : Holds(files, b, m) /\ Reaching(b, m, written, cuts)
  BY <1>1 DEF LogInv, NumberedInv
<1>3. PICK n \in IF Full THEN 0 .. Len(Calls(m)) ELSE {0}, ends \in BOOLEAN :
        LET broken == Full /\ n < Len(Calls(m))
        IN  /\ Used(1, broken \/ ~ends, FALSE)
            /\ cuts' = IF broken THEN cuts + 1 ELSE cuts
            /\ files' = IF ends THEN [Rotated(n) EXCEPT ![0] = Append(@, written + 1)]
                        ELSE Rotated(n)
            /\ written' = IF ends THEN written + 1 ELSE written
  BY DEF WriteNumbered
<1>4. /\ b \in [0 .. m + 2 -> Nat] /\ \A i \in 0 .. m + 1 : b[i + 1] <= b[i]
      /\ files = [i \in 0 .. m + 1 |-> Lines(b[i + 1], b[i])]
      /\ b[0] = written /\ b[m + 2] = b[m + 1]
  BY <1>2 DEF Holds, Reaching
<1>5. /\ DOMAIN files = 0 .. m + 1 /\ files = [i \in 0 .. m + 1 |-> files[i]]
      /\ files[m + 1] = NoLines
  <2>1. files[m + 1] = Lines(b[m + 2], b[m + 1]) /\ b[m + 1] \in Nat
    <3>1. m + 1 \in 0 .. m + 1 /\ m + 1 \in 0 .. m + 2 /\ (m + 1) + 1 = m + 2
      BY <1>1
    <3> QED BY <1>4, <3>1
  <2>2. Lines(b[m + 2], b[m + 1]) = NoLines
    <3>1. PICK lo : lo = b[m + 1]
      OBVIOUS
    <3>2. lo \in Nat /\ lo <= lo
      BY <2>1, <3>1
    <3>3. Lines(lo, lo) = NoLines
      BY <3>2, LinesFacts
    <3> QED BY <1>4, <3>1, <3>3
  <2> QED BY <1>4, <2>1, <2>2
<1>6. Full => b[0] - b[1] >= MaxLines
  <2>1. files[0] = Lines(b[1], b[0]) /\ b[1] \in Nat /\ b[0] \in Nat /\ b[1] <= b[0]
    <3>1. 0 \in 0 .. m + 1 /\ 0 + 1 = 1 /\ 1 \in 0 .. m + 2 /\ 0 \in 0 .. m + 2
      BY <1>1
    <3> QED BY <1>4, <3>1
  <2>2. Len(files[0]) = b[0] - b[1]
    BY <2>1, LinesFacts
  <2> QED BY <2>2 DEF Full
<1>7. Len(Calls(m)) = 2 * m + 1
  BY <1>1, CallAt
<1>8. n \in 0 .. Len(Calls(m)) /\ n \in Nat
  BY <1>1, <1>3, <1>7
<1>9. n = 0 => Rotated(n) = files
  BY <1>1, <1>5, <1>8, RotatedShifts
<1>10. n # 0 => ShiftedFrom(Rotated(n), files, m, n)
  BY <1>1, <1>5, <1>8, RotatedShifts
<1>11. cuts' = (IF Full /\ n < Len(Calls(m)) THEN cuts + 1 ELSE cuts) /\ cuts' \in Nat
  BY <1>1, <1>3
<1>12. turned' = turned
  BY <1>3 DEF Used, LogInv, LogTypes
<1>13. PICK d : Holds(Rotated(n), d, m) /\ Reaching(d, m, written, cuts')
  <2>1. CASE n = 0 /\ ~Full
    BY <1>2, <1>9, <1>11, <2>1
  <2>2. CASE n = 0 /\ Full
    <3>1. cuts' = cuts + 1
      BY <1>1, <1>7, <1>11, <2>2
    <3>2. Reaching(b, m, written, cuts + 1)
      BY <1>1, <1>2, CutReaches
    <3> QED BY <1>2, <1>9, <2>2, <3>1, <3>2
  <2>3. CASE n # 0
    <3>1. Full
      BY <1>3, <2>3
    <3>2. PICK p \in 0 .. m : /\ Rotated(n) = Shifted(files, m, p)
                              /\ n = Len(Calls(m)) => p = 0
      BY <1>10, <2>3 DEF ShiftedFrom
    <3>3. Holds(Shifted(files, m, p), Moved(b, m, p), m)
      BY <1>1, <1>2, <1>5, MovedHolds
    <3>4. \/ cuts' = cuts + 1
          \/ cuts' = cuts /\ p = 0 /\ b[0] - b[1] >= MaxLines
      BY <1>6, <1>7, <1>8, <1>11, <3>1, <3>2
    <3>5. Reaching(Moved(b, m, p), m, written, cuts')
      <4>1. PICK e, f : e = cuts' /\ f = files
        OBVIOUS
      <4>2. e \in Nat /\ Holds(f, b, m) /\ (e = cuts + 1 \/ (e = cuts /\ p = 0 /\ b[0] - b[1] >= MaxLines))
        BY <1>2, <1>11, <3>4, <4>1
      <4>3. Reaching(Moved(b, m, p), m, written, e)
        BY <1>1, <1>2, <4>2, MovedReaches
      <4> QED BY <4>1, <4>3
    <3> QED BY <3>2, <3>3, <3>5
  <2> QED BY <2>1, <2>2, <2>3
<1>14. d[0] = written
  BY <1>13 DEF Reaching
<1>15. \E e : Holds(files', e, m) /\ Reaching(e, m, written', cuts')
  <2>1. CASE ends
    <3>1. files' = [Rotated(n) EXCEPT ![0] = Append(@, d[0] + 1)] /\ written' = written + 1
      BY <1>3, <1>14, <2>1
    <3>2. m \in Nat
      BY <1>1
    <3>3. Holds([Rotated(n) EXCEPT ![0] = Append(@, d[0] + 1)], [d EXCEPT ![0] = d[0] + 1], m)
      <4>1. PICK f : f = Rotated(n)
        OBVIOUS
      <4>2. Holds([f EXCEPT ![0] = Append(@, d[0] + 1)], [d EXCEPT ![0] = d[0] + 1], m)
        BY <1>13, <3>2, <4>1, GrowHolds
      <4> QED BY <4>1, <4>2
    <3>4. Reaching([d EXCEPT ![0] = d[0] + 1], m, written + 1, cuts')
      <4>1. PICK e, f : e = cuts' /\ f = Rotated(n)
        OBVIOUS
      <4>2. e \in Nat /\ Holds(f, d, m) /\ Reaching(d, m, written, e)
        BY <1>11, <1>13, <4>1
      <4>3. Reaching([d EXCEPT ![0] = d[0] + 1], m, written + 1, e)
        BY <1>1, <3>2, <4>2, GrowReaches
      <4> QED BY <4>1, <4>3
    <3> QED BY <3>1, <3>3, <3>4
  <2>2. CASE ~ends
    <3>1. files' = Rotated(n) /\ written' = written
      BY <1>3, <2>2
    <3> QED BY <1>13, <3>1
  <2> QED BY <2>1, <2>2
<1>16. NumberedInv'
  BY <1>1, <1>15 DEF NumberedInv
<1>17. LogTypes'
  <2>1. written' \in Nat
    BY <1>1, <1>3
  <2> QED BY <1>1, <1>11, <1>12, <2>1 DEF LogInv, LogTypes
<1>18. StampedInv'
  BY <1>1 DEF StampedInv
<1> QED BY <1>16, <1>17, <1>18 DEF LogInv

(* Of two numbers.                                                         *)
LEMMA MinMaxOfTwo ==
  ASSUME NEW x \in Int, NEW y \in Int
  PROVE  /\ Min({x, y}) = IF x <= y THEN x ELSE y
         /\ Max({x, y}) = IF x <= y THEN y ELSE x
<1>1. Min({x, y}) \in {x, y} /\ \A z \in {x, y} : Min({x, y}) <= z
  <2>1. \E l \in {x, y} : \A z \in {x, y} : l <= z
    OBVIOUS
  <2> QED BY <2>1 DEF Min
<1>2. Max({x, y}) \in {x, y} /\ \A z \in {x, y} : Max({x, y}) >= z
  <2>1. \E l \in {x, y} : \A z \in {x, y} : l >= z
    OBVIOUS
  <2> QED BY <2>1 DEF Max
<1> QED BY <1>1, <1>2

(* Pruning keeps what there is to know of the archives.                    *)
LEMMA PruningKeeps ==
  ASSUME maxFiles \in Nat \ {0}, NEW a, NEW lo, NEW hi, NEW base \in Nat, NEW end \in Nat,
         Filed(a, lo, hi, base, end, maxFiles), NEW fault, NEW r \in Prunings(a, fault)
  PROVE  Filed(r, lo, hi, base, end, maxFiles)
<1> DEFINE D == DOMAIN a
           m == maxFiles
<1>1. PICK kept \in Kept(a), stay \in SUBSET D : r = Restrict(a, kept \union stay)
  <2>1. PICK kept \in Kept(a) :
          r \in {Restrict(a, kept \union stay) :
                   stay \in IF fault THEN SUBSET (D \ kept) ELSE {{}}}
    BY DEF Prunings
  <2>2. PICK stay \in IF fault THEN SUBSET (D \ kept) ELSE {{}} :
          r = Restrict(a, kept \union stay)
    BY <2>1
  <2>3. stay \in SUBSET D
    BY <2>2
  <2> QED BY <2>1, <2>2, <2>3
<1> DEFINE R == kept \union stay
<1>2. /\ kept \subseteq D /\ Cardinality(kept) = Min({m - 1, Cardinality(D)})
      /\ \A t \in kept, u \in D \ kept : a[t].mtime >= a[u].mtime
  BY <1>1 DEF Kept
<1>3. R \subseteq D /\ DOMAIN r = R /\ \A t \in R : r[t] = a[t]
  BY <1>1, <1>2 DEF Restrict
<1>4. /\ D \subseteq 1 .. end
      /\ \A t \in D :
           /\ a[t].lines = Lines(lo[t], hi[t]) /\ a[t].mtime \in Nat /\ a[t].mtime < end
           /\ lo[t] \in Nat /\ hi[t] \in Nat /\ hi[t] - lo[t] >= MaxLines /\ hi[t] <= base
      /\ \A t, u \in D : t # u =>
           \/ a[t].mtime < a[u].mtime /\ hi[t] <= lo[u]
           \/ a[u].mtime < a[t].mtime /\ hi[u] <= lo[t]
      /\ \A l \in 1 .. base : \/ \E t \in D : lo[t] < l /\ l <= hi[t]
                              \/ Cardinality({t \in D : l <= lo[t]}) >= m - 1
  BY DEF Filed
<1>5. IsFiniteSet(D) /\ Cardinality(D) \in Nat /\ MaxLines \in Nat
  <2>1. IsFiniteSet(1 .. end)
    BY FS_Interval
  <2>2. IsFiniteSet(D)
    BY <1>4, <2>1, FS_Subset
  <2> QED BY <2>2, FS_CardinalityType, LogAssumption
<1>6. IsFiniteSet(kept) /\ IsFiniteSet(R) /\ (Cardinality(kept) = Cardinality(D) => kept = D)
  BY <1>2, <1>3, <1>5, FS_Subset
<1>7. kept # D => Cardinality(kept) = m - 1
  <2>1. m - 1 \in Int /\ Cardinality(D) \in Int
    BY <1>5
  <2>2. Min({m - 1, Cardinality(D)}) = IF m - 1 <= Cardinality(D) THEN m - 1 ELSE Cardinality(D)
    BY <2>1, MinMaxOfTwo
  <2> QED BY <1>2, <1>6, <2>2
<1> HIDE DEF D, R
<1>8. ASSUME NEW t \in D, t \notin kept, NEW u \in kept
      PROVE  hi[t] <= lo[u] /\ lo[t] <= lo[u]
  <2>1. t # u /\ u \in D /\ a[u].mtime >= a[t].mtime
    BY <1>2, <1>8
  <2>2. /\ a[t].mtime \in Nat /\ a[u].mtime \in Nat /\ lo[t] \in Nat /\ hi[t] \in Nat
        /\ hi[t] - lo[t] >= MaxLines /\ lo[u] \in Nat
    BY <1>4, <2>1
  <2>3. \/ a[t].mtime < a[u].mtime /\ hi[t] <= lo[u]
        \/ a[u].mtime < a[t].mtime /\ hi[u] <= lo[t]
    BY <1>4, <2>1
  <2> QED BY <1>5, <2>1, <2>2, <2>3
<1>9. ASSUME NEW l \in 1 .. base
      PROVE  \/ \E t \in R : lo[t] < l /\ l <= hi[t]
             \/ Cardinality({t \in R : l <= lo[t]}) >= m - 1
  <2> DEFINE N == {t \in R : l <= lo[t]}
  <2>1. IsFiniteSet(N) /\ Cardinality(N) \in Nat
    <3>1. N \subseteq R
      OBVIOUS
    <3>2. IsFiniteSet(N)
      BY <1>6, <3>1, FS_Subset
    <3> QED BY <3>2, FS_CardinalityType
  <2>2. CASE kept = D
    <3>1. R = D
      BY <1>3, <2>2 DEF R
    <3> QED BY <1>4, <3>1
  <2>3. CASE kept # D /\ kept \subseteq N
    <3>1. Cardinality(kept) <= Cardinality(N) /\ Cardinality(kept) = m - 1
      BY <1>7, <2>1, <2>3, FS_Subset
    <3> QED BY <3>1
  <2>4. CASE kept # D /\ ~(kept \subseteq N)
    <3>1. PICK u \in kept : ~(l <= lo[u]) /\ u \in R /\ u \in D
      BY <1>2, <2>4 DEF R
    <3>2. lo[u] \in Nat /\ lo[u] < l
      BY <1>4, <3>1
    <3>3. ASSUME NEW t \in D, l <= hi[t] PROVE t \in R
      <4>1. CASE t \in kept
        BY <4>1 DEF R
      <4>2. CASE t \notin kept
        <5>1. hi[t] <= lo[u] /\ hi[t] \in Nat
          BY <1>4, <1>8, <3>1, <4>2
        <5> QED BY <3>2, <3>3, <5>1
      <4> QED BY <4>1, <4>2
    <3>4. CASE \E t \in D : lo[t] < l /\ l <= hi[t]
      BY <3>3, <3>4
    <3>5. CASE Cardinality({t \in D : l <= lo[t]}) >= m - 1
      <4>1. \A t \in D : l <= lo[t] => l <= hi[t]
        <5> SUFFICES ASSUME NEW t \in D, l <= lo[t] PROVE l <= hi[t]
          OBVIOUS
        <5>1. lo[t] \in Nat /\ hi[t] \in Nat /\ hi[t] - lo[t] >= MaxLines
          BY <1>4
        <5> QED BY <1>5, <5>1
      <4>2. {t \in D : l <= lo[t]} = N
        BY <1>3, <3>3, <4>1
      <4> QED BY <3>5, <4>2
    <3> QED BY <1>4, <3>4, <3>5
  <2> QED BY <2>2, <2>3, <2>4
<1>10. /\ R \subseteq 1 .. end
       /\ \A t \in R :
           /\ r[t].lines = Lines(lo[t], hi[t]) /\ r[t].mtime \in Nat /\ r[t].mtime < end
           /\ lo[t] \in Nat /\ hi[t] \in Nat /\ hi[t] - lo[t] >= MaxLines /\ hi[t] <= base
       /\ \A t, u \in R : t # u =>
           \/ r[t].mtime < r[u].mtime /\ hi[t] <= lo[u]
           \/ r[u].mtime < r[t].mtime /\ hi[u] <= lo[t]
  BY <1>3, <1>4
<1> QED BY <1>3, <1>9, <1>10 DEF Filed

(* The file that becomes an archive.                                       *)
WithArchive(a, lines, n) ==
  [u \in DOMAIN a \union {n + 1} |-> IF u = n + 1 THEN [lines |-> lines, mtime |-> n] ELSE a[u]]

LEMMA RotationFiles ==
  ASSUME NEW a, NEW base \in Nat, NEW n \in Nat, NEW w \in Nat,
         NEW m \in Nat \ {0}, w - base >= MaxLines, Archived(a, base, n, m)
  PROVE  Archived(WithArchive(a, Lines(base, w), n), w, n + 1, m)
<1> DEFINE all == WithArchive(a, Lines(base, w), n)
<1>0. PICK lo, hi : Filed(a, lo, hi, base, n, m)
  BY DEF Archived
<1> DEFINE D == DOMAIN a
           A == D \union {n + 1}
           x == [u \in A |-> IF u = n + 1 THEN base ELSE lo[u]]
           y == [u \in A |-> IF u = n + 1 THEN w ELSE hi[u]]
<1>1. /\ D \subseteq 1 .. n
      /\ \A t \in D :
           /\ a[t].lines = Lines(lo[t], hi[t]) /\ a[t].mtime \in Nat /\ a[t].mtime < n
           /\ lo[t] \in Nat /\ hi[t] \in Nat /\ hi[t] - lo[t] >= MaxLines /\ hi[t] <= base
      /\ \A t, u \in D : t # u =>
           \/ a[t].mtime < a[u].mtime /\ hi[t] <= lo[u]
           \/ a[u].mtime < a[t].mtime /\ hi[u] <= lo[t]
      /\ \A l \in 1 .. base : \/ \E t \in D : lo[t] < l /\ l <= hi[t]
                              \/ Cardinality({t \in D : l <= lo[t]}) >= m - 1
  BY <1>0 DEF Filed
<1>2. n + 1 \notin D
  BY <1>1
<1>3. /\ DOMAIN all = A /\ \A u \in D : all[u] = a[u] /\ x[u] = lo[u] /\ y[u] = hi[u]
      /\ all[n + 1].lines = Lines(base, w) /\ all[n + 1].mtime = n /\ x[n + 1] = base /\ y[n + 1] = w
  BY <1>2 DEF WithArchive
<1>4. MaxLines \in Nat /\ base <= w
  BY LogAssumption
<1>5. A \subseteq 1 .. n + 1
  BY <1>1
<1>6. \A t \in A : t \in D \/ t = n + 1
  OBVIOUS
<1>7. D \subseteq A /\ n + 1 \in A
  OBVIOUS
<1> HIDE DEF A, D, x, y, all
<1>8. ASSUME NEW t \in A
      PROVE  /\ all[t].lines = Lines(x[t], y[t]) /\ all[t].mtime \in Nat /\ all[t].mtime < n + 1
             /\ x[t] \in Nat /\ y[t] \in Nat /\ y[t] - x[t] >= MaxLines /\ y[t] <= w
  <2>1. CASE t = n + 1
    BY <1>3, <2>1
  <2>2. CASE t \in D
    <3>1. all[t] = a[t] /\ x[t] = lo[t] /\ y[t] = hi[t]
      BY <1>3, <2>2
    <3>2. /\ a[t].lines = Lines(lo[t], hi[t]) /\ a[t].mtime \in Nat /\ a[t].mtime < n
          /\ lo[t] \in Nat /\ hi[t] \in Nat /\ hi[t] - lo[t] >= MaxLines /\ hi[t] <= base
      BY <1>1, <2>2
    <3> QED BY <1>4, <3>1, <3>2
  <2> QED BY <1>6, <2>1, <2>2
<1>9. ASSUME NEW t \in A, NEW u \in A, t # u
      PROVE  \/ all[t].mtime < all[u].mtime /\ y[t] <= x[u]
             \/ all[u].mtime < all[t].mtime /\ y[u] <= x[t]
  <2>1. CASE t \in D /\ u \in D
    BY <1>1, <1>3, <1>9, <2>1
  <2>2. CASE t = n + 1 /\ u \in D
    BY <1>1, <1>3, <2>2
  <2>3. CASE t \in D /\ u = n + 1
    BY <1>1, <1>3, <2>3
  <2> QED BY <1>6, <1>9, <2>1, <2>2, <2>3
<1>10. ASSUME NEW l \in 1 .. w
       PROVE  \/ \E t \in A : x[t] < l /\ l <= y[t]
              \/ Cardinality({t \in A : l <= x[t]}) >= m - 1
  <2>1. CASE l > base
    BY <1>3, <1>7, <2>1
  <2>2. CASE l <= base
    <3>0. l \in 1 .. base
      BY <2>2
    <3>1. CASE \E t \in D : lo[t] < l /\ l <= hi[t]
      BY <1>3, <1>7, <3>1
    <3>2. CASE Cardinality({t \in D : l <= lo[t]}) >= m - 1
      <4> DEFINE N == {t \in D : l <= lo[t]}
                 M == {t \in A : l <= x[t]}
      <4>1. N \subseteq M
        BY <1>3, <1>7
      <4>2. M \subseteq 1 .. n + 1
        BY <1>5
      <4>3. IsFiniteSet(M)
        <5>1. n + 1 \in Int /\ 1 \in Int
          OBVIOUS
        <5>2. IsFiniteSet(1 .. n + 1)
          BY <5>1, FS_Interval
        <5> QED BY <4>2, <5>2, FS_Subset
      <4>4. Cardinality(N) <= Cardinality(M) /\ IsFiniteSet(N)
        BY <4>1, <4>3, FS_Subset
      <4>5. Cardinality(N) \in Nat /\ Cardinality(M) \in Nat
        BY <4>3, <4>4, FS_CardinalityType
      <4>6. Cardinality(N) >= m - 1
        BY <3>2
      <4> HIDE DEF N
      <4>7. Cardinality(M) >= m - 1
        BY <4>4, <4>5, <4>6
      <4> QED BY <4>7
    <3> QED BY <1>1, <3>0, <3>1, <3>2
  <2> QED BY <2>1, <2>2
<1>11. Filed(all, x, y, w, n + 1, m)
  BY <1>3, <1>5, <1>8, <1>9, <1>10 DEF Filed
<1> QED BY <1>11 DEF Archived, all

(* What holds of the archives holds later as well.                         *)
LEMMA FiledLater ==
  ASSUME NEW a, NEW lo, NEW hi, NEW base, NEW e \in Nat, NEW f \in Nat, e <= f, NEW m,
         Filed(a, lo, hi, base, e, m)
  PROVE  Filed(a, lo, hi, base, f, m)
<1>1. DOMAIN a \subseteq 1 .. f
  BY DEF Filed
<1>2. \A t \in DOMAIN a : a[t].mtime \in Nat /\ a[t].mtime < f
  BY DEF Filed
<1> QED BY <1>1, <1>2 DEF Filed

(* initLogger, rotateIfNeeded: the file goes on, or it is an archive and a *)
(* new one is begun.                                                       *)
LEMMA RotationsKeep ==
  ASSUME maxFiles \in Nat \ {0}, now \in Nat, written \in Nat,
         NEW base \in Nat, base <= written, files = OneFile(Lines(base, written), maxFiles),
         NEW t, NEW fault \in BOOLEAN, NEW r \in Rotations(t, fault)
  PROVE  \E d \in Nat :
           /\ d <= written /\ r.file = Lines(d, written)
           /\ t = now + 1 /\ Archived(archives, base, End(base, written, now), maxFiles) =>
                Archived(r.archives, d, End(d, written, now), maxFiles)
<1> DEFINE all == [u \in DOMAIN archives \union {t} |->
                     IF u = t THEN [lines |-> files[0], mtime |-> now] ELSE archives[u]]
           still == {[file |-> files[0], archives |-> archives]}
           moved == {[file |-> NoLines, archives |-> a] : a \in Prunings(all, fault)}
<1>1. r \in still \/ (Full /\ r \in moved)
  <2>1. CASE ~Full
    BY <2>1 DEF Rotations
  <2>2. CASE Full /\ fault
    BY <2>2 DEF Rotations
  <2>3. CASE Full /\ ~fault
    BY <2>3 DEF Rotations
  <2> QED BY <2>1, <2>2, <2>3
<1>2. files[0] = Lines(base, written)
  BY DEF OneFile
<1> HIDE DEF all
<1>3. CASE r \in still
  <2>1. r.file = Lines(base, written) /\ r.archives = archives
    BY <1>2, <1>3
  <2> QED BY <2>1
<1>4. CASE Full /\ r \in moved
  <2>1. PICK a \in Prunings(all, fault) : r = [file |-> NoLines, archives |-> a]
    BY <1>4
  <2>2. r.file = NoLines /\ r.archives = a
    BY <2>1
  <2>3. Lines(written, written) = NoLines
    <3>1. PICK w : w = written
      OBVIOUS
    <3>2. w \in Nat /\ w <= w
      BY <3>1
    <3>3. Lines(w, w) = NoLines
      BY <3>2, LinesFacts
    <3> QED BY <3>1, <3>3
  <2>4. written - base >= MaxLines /\ MaxLines \in Nat \ {0}
    <3>1. Len(Lines(base, written)) = written - base
      BY LinesFacts
    <3> QED BY <1>2, <1>4, <3>1, LogAssumption DEF Full
  <2>5. End(base, written, now) = now /\ End(written, written, now) = now + 1
    BY <2>4 DEF End
  <2>6. ASSUME t = now + 1, Archived(archives, base, now, maxFiles)
        PROVE  Archived(a, written, now + 1, maxFiles)
    <3>2. all = WithArchive(archives, Lines(base, written), now)
      BY <1>2, <2>6 DEF all, WithArchive
    <3>3. PICK b, n, w, m, arch : b = base /\ n = now /\ w = written /\ m = maxFiles /\ arch = archives
      OBVIOUS
    <3>4. /\ b \in Nat /\ n \in Nat /\ w \in Nat /\ m \in Nat \ {0} /\ w - b >= MaxLines
          /\ Archived(arch, b, n, m)
      BY <2>4, <2>6, <3>3
    <3>5. Archived(WithArchive(arch, Lines(b, w), n), w, n + 1, m)
      BY <3>4, RotationFiles
    <3>6. PICK lo2, hi2 : Filed(all, lo2, hi2, written, now + 1, maxFiles)
      BY <3>2, <3>3, <3>5 DEF Archived
    <3>7. written \in Nat /\ now + 1 \in Nat
      OBVIOUS
    <3>8. Filed(a, lo2, hi2, written, now + 1, maxFiles)
      <4>1. PICK e : e = now + 1
        OBVIOUS
      <4>2. e \in Nat /\ Filed(all, lo2, hi2, written, e, maxFiles)
        BY <3>6, <3>7, <4>1
      <4>3. Filed(a, lo2, hi2, written, e, maxFiles)
        BY <4>2, PruningKeeps
      <4> QED BY <4>1, <4>3
    <3> QED BY <3>8 DEF Archived
  <2>7. t = now + 1 /\ Archived(archives, base, End(base, written, now), maxFiles) =>
          Archived(r.archives, written, End(written, written, now), maxFiles)
    BY <2>2, <2>5, <2>6
  <2>8. written \in Nat /\ written <= written /\ r.file = Lines(written, written)
    BY <2>2, <2>3
  <2> QED BY <2>7, <2>8
<1> QED BY <1>1, <1>3, <1>4

(* The launcher writes to the one file it has.                             *)
LEMMA OneFileExcept ==
  ASSUME NEW m \in Nat, NEW x, NEW y
  PROVE  [OneFile(x, m) EXCEPT ![0] = y] = OneFile(y, m)
<1>1. DOMAIN OneFile(x, m) = 0 .. m + 1
  BY DEF OneFile
<1>2. [OneFile(x, m) EXCEPT ![0] = y] = [i \in 0 .. m + 1 |-> IF i = 0 THEN y ELSE OneFile(x, m)[i]]
  BY <1>1
<1>3. \A i \in 0 .. m + 1 : i # 0 => OneFile(x, m)[i] = NoLines
  BY DEF OneFile
<1>4. [i \in 0 .. m + 1 |-> IF i = 0 THEN y ELSE OneFile(x, m)[i]]
        = [i \in 0 .. m + 1 |-> IF i = 0 THEN y ELSE NoLines]
  BY <1>3
<1> QED BY <1>2, <1>4 DEF OneFile

(* The invariant of the launcher, unfolded.                                *)
LEMMA StampedIs ==
  ASSUME LogInv, sink = "stamped"
  PROVE  \E base \in Nat :
           /\ base <= written /\ files = OneFile(Lines(base, written), maxFiles)
           /\ ~turned => Archived(archives, base, End(base, written, now), maxFiles)
BY DEF LogInv, StampedInv

(* initLogger, write: the rotation and the line, each of which may fail.   *)
LEMMA WriteStampedKeeps == ASSUME LogInv, WriteStamped PROVE LogInv'
<1>1. /\ maxFiles \in Nat \ {0} /\ written \in Nat /\ now \in Nat /\ cuts \in Nat
      /\ sink = "stamped" /\ turned \in BOOLEAN
      /\ sink' = sink /\ maxFiles' = maxFiles /\ cuts' = cuts
  BY DEF LogInv, LogTypes, WriteStamped
<1>2. PICK base \in Nat :
           /\ base <= written /\ files = OneFile(Lines(base, written), maxFiles)
           /\ ~turned => Archived(archives, base, End(base, written, now), maxFiles)
  BY <1>1, StampedIs
<1>12. PICK t \in Times, fault \in Faults, ends \in {e \in BOOLEAN : ~e => left.faults > 0} :
       \E r \in Rotations(t, fault) :
         /\ files' = [files EXCEPT ![0] = IF ends THEN Append(r.file, written + 1)
                                          ELSE r.file]
         /\ archives' = r.archives
         /\ now' = IF ends THEN t ELSE now
         /\ written' = IF ends THEN written + 1 ELSE written
         /\ Used(1, fault \/ ~ends, t <= now)
  BY DEF WriteStamped
<1>3. PICK r \in Rotations(t, fault) :
         /\ files' = [files EXCEPT ![0] = IF ends THEN Append(r.file, written + 1)
                                          ELSE r.file]
         /\ archives' = r.archives
         /\ now' = IF ends THEN t ELSE now
         /\ written' = IF ends THEN written + 1 ELSE written
         /\ Used(1, fault \/ ~ends, t <= now)
  BY <1>12
<1>13. ends \in BOOLEAN
  OBVIOUS
<1>4. t \in Nat /\ fault \in BOOLEAN /\ (~(t <= now) => t = now + 1)
  <2>1. t = now + 1 \/ t \in 1 .. now
    BY DEF Times
  <2> QED BY <1>1, <2>1 DEF Faults
<1>5. PICK d \in Nat :
           /\ d <= written /\ r.file = Lines(d, written)
           /\ t = now + 1 /\ Archived(archives, base, End(base, written, now), maxFiles) =>
                Archived(r.archives, d, End(d, written, now), maxFiles)
  BY <1>1, <1>2, <1>4, RotationsKeep
<1>6. turned' = (turned \/ t <= now)
  BY <1>3 DEF Used
<1>7. ~turned' => t = now + 1 /\ Archived(archives', d, End(d, written, now), maxFiles)
  BY <1>2, <1>3, <1>4, <1>5, <1>6
<1>8. \E b \in Nat :
        /\ b <= written' /\ files' = OneFile(Lines(b, written'), maxFiles)
        /\ ~turned' => Archived(archives', b, End(b, written', now'), maxFiles)
  <2>1. CASE ends
    <3>1. written' = written + 1 /\ now' = t
      BY <1>3, <2>1
    <3>2. Append(Lines(d, written), written + 1) = Lines(d, written + 1)
      <4>1. PICK w : w = written
        OBVIOUS
      <4>2. w \in Nat /\ d <= w
        BY <1>1, <1>5, <4>1
      <4>3. Append(Lines(d, w), w + 1) = Lines(d, w + 1)
        BY <4>2, LinesGrow
      <4> QED BY <4>1, <4>3
    <3>3. files' = OneFile(Lines(d, written'), maxFiles)
      <4>1. files' = [OneFile(Lines(base, written), maxFiles) EXCEPT ![0] = Lines(d, written + 1)]
        BY <1>2, <1>3, <1>5, <2>1, <3>2
      <4> QED BY <1>1, <3>1, <4>1, OneFileExcept
    <3>4. End(d, written', now') = t
      BY <1>1, <1>5, <3>1 DEF End
    <3>5. ASSUME ~turned' PROVE Archived(archives', d, t, maxFiles)
      <4>1. t = now + 1 /\ Archived(archives', d, End(d, written, now), maxFiles)
        BY <1>7, <3>5
      <4>2. PICK lo, hi : Filed(archives', lo, hi, d, End(d, written, now), maxFiles)
        BY <4>1 DEF Archived
      <4>3. PICK e, f, a : e = End(d, written, now) /\ f = t /\ a = archives'
        OBVIOUS
      <4>4. e \in Nat /\ f \in Nat /\ e <= f /\ Filed(a, lo, hi, d, e, maxFiles)
        BY <1>1, <4>1, <4>2, <4>3 DEF End
      <4>5. Filed(a, lo, hi, d, f, maxFiles)
        BY <4>4, FiledLater
      <4> QED BY <4>3, <4>5 DEF Archived
    <3>6. d <= written'
      BY <1>1, <1>5, <3>1
    <3> QED BY <3>3, <3>4, <3>5, <3>6
  <2>2. CASE ~ends
    <3>1. written' = written /\ now' = now
      BY <1>3, <2>2
    <3>2. files' = OneFile(Lines(d, written'), maxFiles)
      <4>1. files' = [OneFile(Lines(base, written), maxFiles) EXCEPT ![0] = Lines(d, written)]
        BY <1>2, <1>3, <1>5, <2>2
      <4> QED BY <1>1, <3>1, <4>1, OneFileExcept
    <3> QED BY <1>5, <1>7, <3>1, <3>2
  <2> QED BY <1>3, <2>1, <2>2
<1>9. StampedInv'
  BY <1>1, <1>8 DEF StampedInv
<1>10. LogTypes'
  <2>1. written' \in Nat /\ now' \in Nat
    BY <1>1, <1>3, <1>4
  <2>2. turned' \in BOOLEAN
    BY <1>1, <1>6
  <2> QED BY <1>1, <2>1, <2>2 DEF LogTypes
<1>11. NumberedInv'
  BY <1>1 DEF NumberedInv
<1> QED BY <1>9, <1>10, <1>11 DEF LogInv

(* initLogger, at the start: the rotation and another pruning.             *)
LEMMA OpenStampedKeeps == ASSUME LogInv, OpenStamped PROVE LogInv'
<1>1. /\ maxFiles \in Nat \ {0} /\ written \in Nat /\ now \in Nat /\ cuts \in Nat
      /\ sink = "stamped" /\ turned \in BOOLEAN
      /\ sink' = sink /\ maxFiles' = maxFiles /\ cuts' = cuts /\ now' = now /\ written' = written
  BY DEF LogInv, LogTypes, OpenStamped
<1>2. PICK base \in Nat :
           /\ base <= written /\ files = OneFile(Lines(base, written), maxFiles)
           /\ ~turned => Archived(archives, base, End(base, written, now), maxFiles)
  BY <1>1, StampedIs
<1>12. PICK t \in Times, fault \in Faults : \E r \in Rotations(t, fault) :
         /\ files' = [files EXCEPT ![0] = r.file]
         /\ archives' \in Prunings(r.archives, fault)
         /\ Used(0, fault, t <= now)
  BY DEF OpenStamped
<1>3. PICK r \in Rotations(t, fault) :
         /\ files' = [files EXCEPT ![0] = r.file]
         /\ archives' \in Prunings(r.archives, fault)
         /\ Used(0, fault, t <= now)
  BY <1>12
<1>4. fault \in BOOLEAN /\ (~(t <= now) => t = now + 1)
  <2>1. t = now + 1 \/ t \in 1 .. now
    BY DEF Times
  <2> QED BY <1>1, <2>1 DEF Faults
<1>5. PICK d \in Nat :
           /\ d <= written /\ r.file = Lines(d, written)
           /\ t = now + 1 /\ Archived(archives, base, End(base, written, now), maxFiles) =>
                Archived(r.archives, d, End(d, written, now), maxFiles)
  BY <1>1, <1>2, <1>4, RotationsKeep
<1>6. turned' = (turned \/ t <= now)
  BY <1>3 DEF Used
<1>7. ASSUME ~turned' PROVE Archived(archives', d, End(d, written, now), maxFiles)
  <2>1. Archived(r.archives, d, End(d, written, now), maxFiles)
    BY <1>2, <1>4, <1>5, <1>6, <1>7
  <2>2. PICK lo, hi : Filed(r.archives, lo, hi, d, End(d, written, now), maxFiles)
    BY <2>1 DEF Archived
  <2>3. PICK e, a, c : e = End(d, written, now) /\ a = r.archives /\ c = archives'
    OBVIOUS
  <2>4. e \in Nat /\ Filed(a, lo, hi, d, e, maxFiles) /\ c \in Prunings(a, fault)
    BY <1>1, <1>3, <2>2, <2>3 DEF End
  <2>5. Filed(c, lo, hi, d, e, maxFiles)
    BY <1>1, <2>4, PruningKeeps
  <2> QED BY <2>3, <2>5 DEF Archived
<1>8. files' = OneFile(Lines(d, written), maxFiles)
  <2>1. files' = [OneFile(Lines(base, written), maxFiles) EXCEPT ![0] = Lines(d, written)]
    BY <1>2, <1>3, <1>5
  <2> QED BY <1>1, <2>1, OneFileExcept
<1>9. StampedInv'
  BY <1>1, <1>5, <1>7, <1>8 DEF StampedInv
<1>10. LogTypes'
  <2>1. turned' \in BOOLEAN
    BY <1>1, <1>6
  <2> QED BY <1>1, <2>1 DEF LogTypes
<1>11. NumberedInv'
  BY <1>1 DEF NumberedInv
<1> QED BY <1>9, <1>10, <1>11 DEF LogInv

(* Archives of n lines or more that share none take n lines each.          *)
Apart(S, lo, hi, x, y) ==
  /\ IsFiniteSet(S)
  /\ \A t \in S : /\ lo[t] \in Nat /\ hi[t] \in Nat /\ hi[t] - lo[t] >= MaxLines
                  /\ x <= lo[t] /\ hi[t] <= y
  /\ \A t, u \in S : t # u => hi[t] <= lo[u] \/ hi[u] <= lo[t]

(* One of finitely many archives begins last.                              *)
LEMMA LastOfFinite ==
  ASSUME NEW S, IsFiniteSet(S), S # {}, NEW lo, \A t \in S : lo[t] \in Nat
  PROVE  \E t \in S : \A u \in S : lo[u] <= lo[t]
<1> DEFINE f == [t \in S |-> lo[t]]
           T == {f[t] : t \in S}
<1>1. DOMAIN f = S /\ \A t \in S : f[t] = lo[t]
  OBVIOUS
<1> HIDE DEF f
<1>2. IsFiniteSet(T)
  BY <1>1, ImageLemma
<1>3. T \in SUBSET Nat /\ T # {}
  BY <1>1
<1>4. Max(T) \in T /\ \A y \in T : y <= Max(T)
  <2> HIDE DEF T
  <2> QED BY <1>2, <1>3, MaxLemma
<1>5. PICK t \in S : f[t] = Max(T)
  BY <1>4
<1>6. \A u \in S : f[u] <= f[t]
  BY <1>4, <1>5
<1> QED BY <1>1, <1>6

(* By induction on their number, taking off the archive that begins last.  *)
LEMMA RunsTakeRoom ==
  ASSUME NEW lo, NEW hi, NEW x \in Nat
  PROVE  \A n \in Nat : \A S : \A y \in Nat :
           Apart(S, lo, hi, x, y) /\ Cardinality(S) = n /\ x <= y => y - x >= MaxLines * n
<1> DEFINE C == {n \in Nat : \A S : \A y \in Nat :
                   Apart(S, lo, hi, x, y) /\ Cardinality(S) = n /\ x <= y => y - x >= MaxLines * n}
<1>1. MaxLines \in Nat \ {0} /\ MaxLines * 0 = 0
  BY LogAssumption
<1>2. 0 \in C
  BY <1>1
<1>3. ASSUME NEW n \in Nat, n \in C PROVE n + 1 \in C
  <2> SUFFICES ASSUME NEW S, NEW y \in Nat, Apart(S, lo, hi, x, y), Cardinality(S) = n + 1, x <= y
               PROVE  y - x >= MaxLines * (n + 1)
    OBVIOUS
  <2>1. /\ IsFiniteSet(S)
        /\ \A t \in S : /\ lo[t] \in Nat /\ hi[t] \in Nat /\ hi[t] - lo[t] >= MaxLines
                        /\ x <= lo[t] /\ hi[t] <= y
        /\ \A t, u \in S : t # u => hi[t] <= lo[u] \/ hi[u] <= lo[t]
    BY DEF Apart
  <2>2. S # {}
    BY FS_EmptySet
  <2>3. PICK t \in S : \A u \in S : lo[u] <= lo[t]
    BY <2>1, <2>2, LastOfFinite
  <2> DEFINE W == S \ {t}
  <2>4. IsFiniteSet(W) /\ Cardinality(W) = n
    <3>1. IsFiniteSet(S \ {t}) /\ Cardinality(S \ {t}) = Cardinality(S) - 1
      BY <2>1, <2>3, FS_RemoveElement
    <3> QED BY <3>1
  <2>5. ASSUME NEW u \in W PROVE hi[u] <= lo[t]
    <3>1. u \in S /\ u # t /\ lo[u] <= lo[t]
      BY <2>3
    <3>2. hi[t] <= lo[u] \/ hi[u] <= lo[t]
      BY <2>1, <3>1
    <3>3. hi[t] \in Nat /\ lo[t] \in Nat /\ lo[u] \in Nat /\ hi[t] - lo[t] >= MaxLines
      BY <2>1, <3>1
    <3> QED BY <1>1, <3>1, <3>2, <3>3
  <2>6. Apart(W, lo, hi, x, lo[t])
    <3>1. \A u \in W : u \in S
      OBVIOUS
    <3> HIDE DEF W
    <3> QED BY <2>1, <2>4, <2>5, <3>1 DEF Apart
  <2>7. lo[t] \in Nat /\ x <= lo[t] /\ hi[t] \in Nat /\ hi[t] - lo[t] >= MaxLines /\ hi[t] <= y
    BY <2>1
  <2>8. lo[t] - x >= MaxLines * n
    <3> HIDE DEF W
    <3> QED BY <1>3, <2>4, <2>6, <2>7
  <2>9. MaxLines * n \in Int /\ MaxLines * (n + 1) = MaxLines * n + MaxLines
    BY <1>1, Multiples
  <2> QED BY <1>1, <2>7, <2>8, <2>9
<1>4. Nat \subseteq C
  <2> HIDE DEF C
  <2> QED BY <1>2, <1>3, Induction
<1> QED BY <1>4

(* Multiples are in the order of their factors.                            *)
LEMMA MultiplesOrder ==
  ASSUME NEW n \in Nat
  PROVE  \A d \in Nat : \A k \in Nat : n * k <= n * (k + d)
<1> DEFINE C == {d \in Nat : \A k \in Nat : n * k <= n * (k + d)}
<1>1. 0 \in C
  OBVIOUS
<1>2. ASSUME NEW d \in Nat, d \in C PROVE d + 1 \in C
  <2> SUFFICES ASSUME NEW k \in Nat PROVE n * k <= n * (k + (d + 1))
    OBVIOUS
  <2>1. n * k <= n * (k + d)
    BY <1>2
  <2>2. k + d \in Int /\ k \in Int /\ k + (d + 1) = (k + d) + 1
    OBVIOUS
  <2>3. n * ((k + d) + 1) = n * (k + d) + n /\ n * (k + d) \in Int /\ n * k \in Int
    BY <2>2, Multiples
  <2>4. n * k <= n * ((k + d) + 1)
    BY <2>1, <2>3
  <2> QED BY <2>2, <2>4
<1>3. Nat \subseteq C
  <2> HIDE DEF C
  <2> QED BY <1>1, <1>2, Induction
<1> QED BY <1>3

(* What has to be there is no more than was written, or than the archives   *)
(* in question hold.                                                        *)
LEMMA DueIs ==
  ASSUME LogTypes, NEW held \in Int,
         held = IF sink = "numbered" THEN maxFiles - cuts ELSE maxFiles - 1
  PROVE  /\ Due \in Int /\ Due <= written
         /\ held >= 0 => Due <= MaxLines * held
         /\ held < 0 => Due <= 0
<1>1. written \in Nat /\ MaxLines \in Nat
  BY LogAssumption DEF LogTypes
<1>2. PICK k \in Int : k = IF held <= 0 THEN 0 ELSE held
  OBVIOUS
<1>3. Max({held, 0}) = k
  <2>1. 0 \in Int
    OBVIOUS
  <2>2. Max({held, 0}) = IF held <= 0 THEN 0 ELSE held
    BY <2>1, MinMaxOfTwo
  <2> QED BY <1>2, <2>2
<1>4. MaxLines * k \in Int /\ MaxLines * 0 = 0
  BY <1>1, Multiples
<1>5. Due = Min({written, MaxLines * k})
  BY <1>3 DEF Due
<1>6. Min({written, MaxLines * k}) = IF written <= MaxLines * k THEN written ELSE MaxLines * k
  BY <1>1, <1>4, MinMaxOfTwo
<1>7. Due = IF written <= MaxLines * k THEN written ELSE MaxLines * k
  BY <1>5, <1>6
<1>8. held >= 0 => k = held
  BY <1>2
<1>9. held < 0 => k = 0
  BY <1>2
<1> QED BY <1>1, <1>4, <1>7, <1>8, <1>9

(* What one run says about the lines in the order of their files.          *)
LEMMA LinesConsecutive ==
  ASSUME NEW x \in Nat, written \in Nat, x <= written, InOrder = Lines(x, written)
  PROVE  /\ \A i \in 1 .. Len(InOrder) - 1 : InOrder[i + 1] = InOrder[i] + 1
         /\ Range(InOrder) = x + 1 .. written
<1>1. PICK w, s : w = written /\ s = InOrder
  OBVIOUS
<1>2. w \in Nat /\ x <= w /\ s = Lines(x, w)
  BY <1>1
<1>3. Len(s) = w - x /\ Range(s) = x + 1 .. w /\ \A k \in 1 .. w - x : s[k] = x + k
  BY <1>2, LinesFacts
<1>4. \A i \in 1 .. Len(s) - 1 : s[i + 1] = s[i] + 1
  <2> TAKE i \in 1 .. Len(s) - 1
  <2>1. i \in 1 .. w - x /\ i + 1 \in 1 .. w - x
    BY <1>2, <1>3
  <2>2. s[i] = x + i /\ s[i + 1] = x + (i + 1)
    BY <1>3, <2>1
  <2> QED BY <2>2
<1> QED BY <1>1, <1>3, <1>4

(* The logger: its files reach back as far as they have to.                *)
LEMMA NumberedKeepsLines == ASSUME LogInv, sink = "numbered" PROVE LatestLinesAreKept
<1>1. /\ maxFiles \in Nat \ {0} /\ written \in Nat /\ cuts \in Nat
  BY DEF LogInv, LogTypes
<1>2. PICK b : Holds(files, b, maxFiles) /\ Reaching(b, maxFiles, written, cuts)
  BY DEF LogInv, NumberedInv
<1>3. PICK x, y : x = b[maxFiles + 2] /\ y = b[1]
  OBVIOUS
<1>4. /\ b[0] = written /\ x = b[maxFiles + 1] /\ x \in Nat /\ y \in Nat /\ y <= written /\ x <= written
      /\ (x = 0 \/ y - x >= MaxLines * (maxFiles - cuts))
  <2>1. maxFiles \in 0 .. maxFiles
    BY <1>1
  <2>2. /\ b[0] = written /\ x = b[maxFiles + 1]
        /\ (x = 0 \/ y - x >= MaxLines * (maxFiles - cuts))
    BY <1>2, <1>3, <2>1 DEF Reaching
  <2>3. \A i \in 0 .. maxFiles + 2 : b[i] \in Nat
    BY <1>2 DEF Holds
  <2>4. 1 \in 0 .. maxFiles + 2 /\ maxFiles + 2 \in 0 .. maxFiles + 2 /\ 0 \in 0 .. maxFiles + 2
        /\ 0 <= 1 /\ 0 <= maxFiles + 2
    BY <1>1
  <2>5. x \in Nat /\ y \in Nat
    BY <1>3, <2>3, <2>4
  <2>6. b[1] <= b[0] /\ b[maxFiles + 2] <= b[0]
    <3>1. maxFiles \in Nat
      BY <1>1
    <3> QED BY <1>2, <2>4, <3>1, HoldsOrder
  <2> QED BY <1>3, <2>2, <2>5, <2>6
<1>5. InOrder = Lines(x, written)
  <2>1. maxFiles \in Nat
    BY <1>1
  <2>2. InOrder = Lines(b[maxFiles + 2], b[0])
    BY <1>2, <2>1, InOrderLines
  <2> QED BY <1>3, <1>4, <2>2
<1>6. /\ \A i \in 1 .. Len(InOrder) - 1 : InOrder[i + 1] = InOrder[i] + 1
      /\ Range(InOrder) = x + 1 .. written
  BY <1>1, <1>4, <1>5, LinesConsecutive
<1>7. written - Due >= x /\ Due \in Int
  <2>1. PICK held \in Int : held = maxFiles - cuts
    BY <1>1
  <2>2. /\ Due \in Int /\ Due <= written
        /\ held >= 0 => Due <= MaxLines * held
        /\ held < 0 => Due <= 0
    BY <2>1, DueIs DEF LogInv
  <2>3. MaxLines * held \in Int
    BY LogAssumption, Multiples
  <2>4. x = 0 \/ y - x >= MaxLines * held
    BY <1>4, <2>1
  <2> QED BY <1>1, <1>4, <2>2, <2>3, <2>4
<1>8. written - Due + 1 .. written \subseteq Range(InOrder)
  BY <1>1, <1>4, <1>6, <1>7
<1> QED BY <1>6, <1>8 DEF LatestLinesAreKept

(* The launcher: a line it may not lose is in the file, in an archive, or  *)
(* before as many archives as it keeps, which hold all lines it may not    *)
(* lose.                                                                   *)
LEMMA StampedKeepsLines == ASSUME LogInv, sink = "stamped" PROVE LatestLinesAreKept
<1>1. /\ maxFiles \in Nat \ {0} /\ written \in Nat /\ cuts \in Nat /\ now \in Nat
  BY DEF LogInv, LogTypes
<1>2. PICK base \in Nat :
           /\ base <= written /\ files = OneFile(Lines(base, written), maxFiles)
           /\ ~turned => Archived(archives, base, End(base, written, now), maxFiles)
  BY StampedIs
<1>3. InOrder = Lines(base, written)
  <2>1. PICK b : b = [i \in 0 .. maxFiles + 2 |-> IF i = 0 THEN written ELSE base]
    OBVIOUS
  <2>2. b \in [0 .. maxFiles + 2 -> Nat] /\ \A i \in 0 .. maxFiles + 1 : b[i + 1] <= b[i]
    BY <1>1, <1>2, <2>1
  <2>3. files = [i \in 0 .. maxFiles + 1 |-> Lines(b[i + 1], b[i])]
    <3>1. PICK d : d = base
      OBVIOUS
    <3>2. d \in Nat /\ d <= d
      BY <3>1
    <3>3. Lines(base, base) = NoLines
      BY <3>1, <3>2, LinesFacts
    <3>4. \A i \in 0 .. maxFiles + 1 :
            (IF i = 0 THEN Lines(base, written) ELSE NoLines) = Lines(b[i + 1], b[i])
      <4> TAKE i \in 0 .. maxFiles + 1
      <4>1. b[i + 1] = base /\ b[i] = IF i = 0 THEN written ELSE base
        BY <1>1, <2>1
      <4> QED BY <3>3, <4>1
    <3> QED BY <1>2, <3>4 DEF OneFile
  <2>4. Holds(files, b, maxFiles) /\ maxFiles \in Nat
    BY <1>1, <2>2, <2>3 DEF Holds
  <2>5. InOrder = Lines(b[maxFiles + 2], b[0])
    BY <2>4, InOrderLines
  <2>6. b[maxFiles + 2] = base /\ b[0] = written
    BY <1>1, <2>1
  <2> QED BY <2>5, <2>6
<1>4. /\ \A i \in 1 .. Len(InOrder) - 1 : InOrder[i + 1] = InOrder[i] + 1
      /\ Range(InOrder) = base + 1 .. written
  BY <1>1, <1>2, <1>3, LinesConsecutive
<1>5. ASSUME ~turned, NEW l \in written - Due + 1 .. written
      PROVE  l \in Range(InOrder) \union UNION {Range(archives[t].lines) : t \in DOMAIN archives}
  <2>1. PICK m \in Nat : m = maxFiles - 1
    BY <1>1
  <2>2. Due \in Int /\ Due <= written /\ Due <= MaxLines * m
    <3>1. m \in Int /\ m >= 0
      OBVIOUS
    <3>2. m = IF sink = "numbered" THEN maxFiles - cuts ELSE maxFiles - 1
      BY <2>1
    <3> QED BY <3>1, <3>2, DueIs DEF LogInv
  <2>3. l \in 1 .. written /\ l > written - Due
    BY <1>1, <2>2
  <2>4. CASE l > base
    <3>1. l \in base + 1 .. written
      BY <1>2, <2>3, <2>4
    <3> QED BY <1>4, <3>1
  <2>5. CASE l <= base
    <3>1. PICK lo, hi : Filed(archives, lo, hi, base, End(base, written, now), maxFiles)
      BY <1>2, <1>5 DEF Archived
    <3>2. l \in 1 .. base
      BY <2>3, <2>5
    <3>3. /\ DOMAIN archives \subseteq 1 .. End(base, written, now)
          /\ \A t \in DOMAIN archives :
               /\ archives[t].lines = Lines(lo[t], hi[t])
               /\ lo[t] \in Nat /\ hi[t] \in Nat /\ hi[t] - lo[t] >= MaxLines /\ hi[t] <= base
          /\ \A t, u \in DOMAIN archives : t # u => hi[t] <= lo[u] \/ hi[u] <= lo[t]
      BY <3>1 DEF Filed
    <3>4. \/ \E t \in DOMAIN archives : lo[t] < l /\ l <= hi[t]
          \/ Cardinality({t \in DOMAIN archives : l <= lo[t]}) >= maxFiles - 1
      BY <3>1, <3>2 DEF Filed
    <3>5. CASE \E t \in DOMAIN archives : lo[t] < l /\ l <= hi[t]
      <4>1. PICK t \in DOMAIN archives : lo[t] < l /\ l <= hi[t]
        BY <3>5
      <4>2. PICK x, y : x = lo[t] /\ y = hi[t]
        OBVIOUS
      <4>3. x \in Nat /\ y \in Nat /\ x <= y /\ archives[t].lines = Lines(x, y)
        BY <3>2, <3>3, <4>1, <4>2
      <4>4. Range(Lines(x, y)) = x + 1 .. y
        BY <4>3, LinesFacts
      <4>5. l \in Range(archives[t].lines)
        BY <3>2, <4>1, <4>2, <4>3, <4>4
      <4> QED BY <4>5
    <3>6. CASE Cardinality({t \in DOMAIN archives : l <= lo[t]}) >= maxFiles - 1
      <4> DEFINE N == {t \in DOMAIN archives : l <= lo[t]}
      <4>1. IsFiniteSet(N) /\ Cardinality(N) \in Nat
        <5>1. PICK e \in Nat : e = End(base, written, now)
          BY <1>1 DEF End
        <5>2. N \subseteq 1 .. e /\ IsFiniteSet(1 .. e)
          BY <3>3, <5>1, FS_Interval
        <5>3. IsFiniteSet(N)
          BY <5>2, FS_Subset
        <5> QED BY <5>3, FS_CardinalityType
      <4>2. Apart(N, lo, hi, l, base)
        <5>1. \A t \in N : t \in DOMAIN archives /\ l <= lo[t]
          OBVIOUS
        <5> HIDE DEF N
        <5> QED BY <3>3, <4>1, <5>1 DEF Apart
      <4>3. base - l >= MaxLines * Cardinality(N)
        <5> HIDE DEF N
        <5>1. PICK x, n, y : x = l /\ n = Cardinality(N) /\ y = base
          OBVIOUS
        <5>2. x \in Nat /\ n \in Nat /\ y \in Nat /\ Apart(N, lo, hi, x, y) /\ x <= y
          BY <3>2, <4>1, <4>2, <5>1
        <5>3. y - x >= MaxLines * n
          BY <5>1, <5>2, RunsTakeRoom
        <5> QED BY <5>1, <5>3
      <4>4. MaxLines * m <= MaxLines * Cardinality(N) /\ MaxLines * m \in Int
            /\ MaxLines * Cardinality(N) \in Int
        <5>1. Cardinality(N) >= m
          BY <2>1, <3>6
        <5> HIDE DEF N
        <5>2. PICK d \in Nat : Cardinality(N) = m + d
          <6>1. Cardinality(N) - m \in Nat
            BY <4>1, <5>1
          <6> QED BY <4>1, <6>1
        <5>3. MaxLines \in Nat
          BY LogAssumption
        <5>4. MaxLines * m <= MaxLines * (m + d)
          BY <5>3, MultiplesOrder
        <5>5. MaxLines * m \in Int /\ MaxLines * Cardinality(N) \in Int
          BY <4>1, <5>3, Multiples
        <5> QED BY <5>2, <5>4, <5>5
      <4> HIDE DEF N
      <4> QED BY <1>1, <1>2, <2>2, <2>3, <3>2, <4>3, <4>4
    <3> QED BY <3>4, <3>5, <3>6
  <2> QED BY <1>1, <2>3, <2>4, <2>5
<1>6. ~turned => written - Due + 1 .. written
                   \subseteq Range(InOrder)
                     \union UNION {Range(archives[t].lines) : t \in DOMAIN archives}
  BY <1>5
<1> QED BY <1>4, <1>6 DEF LatestLinesAreKept

(* A log begins with no lines.                                             *)
LEMMA LogBegins == LogInit => LogInv
<1> SUFFICES ASSUME LogInit PROVE LogInv
  OBVIOUS
<1>1. PICK s \in LogSituations :
        /\ sink = s.sink /\ maxFiles = s.files
        /\ files = [i \in 0 .. s.files + 1 |-> NoLines]
  BY DEF LogInit
<1>2. /\ sink \in {"numbered", "stamped"} /\ maxFiles \in Nat \ {0}
      /\ files = [i \in 0 .. maxFiles + 1 |-> NoLines]
  BY <1>1, LogAssumption
<1>3. now = 0 /\ written = 0 /\ cuts = 0 /\ turned = FALSE /\ archives = << >>
  BY DEF LogInit
<1>4. Lines(0, 0) = NoLines
  <2>1. 0 \in Nat /\ 0 <= 0
    OBVIOUS
  <2> QED BY <2>1, LinesFacts
<1>5. NumberedInv
  <2>1. PICK b : b = [i \in 0 .. maxFiles + 2 |-> 0]
    OBVIOUS
  <2>2. b \in [0 .. maxFiles + 2 -> Nat] /\ \A i \in 0 .. maxFiles + 2 : b[i] = 0
    BY <2>1
  <2>3. \A i \in 0 .. maxFiles + 1 : i \in 0 .. maxFiles + 2 /\ i + 1 \in 0 .. maxFiles + 2
    BY <1>2
  <2>4. Holds(files, b, maxFiles)
    <3>1. \A i \in 0 .. maxFiles + 1 : b[i + 1] <= b[i] /\ Lines(b[i + 1], b[i]) = NoLines
      BY <1>4, <2>2, <2>3
    <3> QED BY <1>2, <2>2, <3>1 DEF Holds
  <2>5. Reaching(b, maxFiles, written, cuts)
    <3>1. b[0] = 0 /\ b[maxFiles + 2] = 0 /\ b[maxFiles + 1] = 0
          /\ \A k \in 0 .. maxFiles : b[k + 1] = 0
      BY <1>2, <2>2
    <3> QED BY <1>3, <3>1 DEF Reaching
  <2> QED BY <2>4, <2>5 DEF NumberedInv
<1>6. StampedInv
  <2>1. files = OneFile(Lines(0, 0), maxFiles)
    BY <1>2, <1>4 DEF OneFile
  <2>2. Archived(archives, 0, End(0, written, now), maxFiles)
    <3>1. PICK a : a = archives
      OBVIOUS
    <3>2. DOMAIN a = {}
      BY <1>3, <3>1
    <3>3. \A e, lo, hi, m : Filed(a, lo, hi, 0, e, m)
      BY <3>2 DEF Filed
    <3> QED BY <3>1, <3>3 DEF Archived
  <2> QED BY <1>3, <2>1, <2>2 DEF StampedInv
<1> QED BY <1>2, <1>3, <1>5, <1>6 DEF LogInv, LogTypes

(* Every step of the node keeps what is known of its log.                  *)
LEMMA LogStep == LogInv /\ [NodeNext]_allVars => LogInv'
<1> SUFFICES ASSUME LogInv, [NodeNext]_allVars PROVE LogInv'
  OBVIOUS
<1>1. UNCHANGED logVars => LogInv'
  BY DEF logVars, LogInv, LogTypes, NumberedInv, StampedInv
<1>2. CASE StartNode
  <2>1. CASE OpenStamped
    BY <2>1, OpenStampedKeeps
  <2> QED BY <1>1, <1>2, <2>1 DEF StartNode, Open
<1>3. CASE Logs
  BY <1>3, WriteNumberedKeeps, WriteStampedKeeps DEF Logs, Write
<1>4. CASE Others /\ UNCHANGED logVars
  BY <1>1, <1>4
<1>5. CASE UNCHANGED allVars
  BY <1>1, <1>5 DEF allVars
<1> QED BY <1>2, <1>3, <1>4, <1>5 DEF NodeNext

(* LogFiles: whatever rotations fail, the files of the logger hold          *)
(* consecutive lines that reach back as far as they have to, and the        *)
(* launcher never removes an archive that is among its latest, unless the   *)
(* clock was set back.                                                      *)
THEOREM LatestLinesKept == NodeSpec => []LatestLinesAreKept
<1>1. LogInv => LatestLinesAreKept
  BY NumberedKeepsLines, StampedKeepsLines DEF LogInv, LogTypes
<1>2. NodeInit => LogInv
  BY LogBegins DEF NodeInit
<1> QED BY <1>1, <1>2, LogStep, PTL DEF NodeSpec
=============================================================================
