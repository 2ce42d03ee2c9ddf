--------------------------- MODULE DesktopProofs ---------------------------
(***************************************************************************)
(* Proofs about Desktop: the types, what the app does to Spotify's file    *)
(* and to the copy of it, that Spotify follows the tunnel, and that the    *)
(* checkbox tells what there is.  The first part is about the file: what   *)
(* set_key() keeps and what get_key() finds; for the first line of a key   *)
(* it takes the least element of a set of places.                          *)
(***************************************************************************)
EXTENDS Desktop, TLAPS, WellFoundedInduction

USE DesktopAssumption

-----------------------------------------------------------------------------
(* Lines. *)

Less == {ss \in Nat \X Nat : ss[1] < ss[2]}

LEMMA LessWellFounded == IsWellFoundedOn(Less, Nat)
BY NatLessThanWellFounded DEF OpToRel, Less

LEMMA Smallest ==
    ASSUME NEW S \in SUBSET Nat, S # {}
    PROVE  \E x \in S : \A y \in S : x <= y
<1>1. PICK x \in S : \A y \in S : ~(<<y, x>> \in Less)
  BY LessWellFounded, WFMin
<1>2. ASSUME NEW y \in S, ~(x <= y) PROVE FALSE
  <2>1. y < x /\ x \in Nat /\ y \in Nat
    BY <1>2
  <2>2. <<y, x>> \in Less
    BY <2>1 DEF Less
  <2> QED BY <1>1, <2>2
<1> QED BY <1>2

\* What set_key() leaves, changes and adds.
LEMMA SetKeyIs ==
    ASSUME NEW lines \in Seq(Line), NEW key \in Key, NEW val,
           [key |-> key, val |-> val] \in Line
    PROVE  LET new == SetKey(lines, key, val)
           IN  /\ new \in Seq(Line) /\ DOMAIN lines \subseteq DOMAIN new
               /\ \A i \in DOMAIN new :
                     IF i \in DOMAIN lines /\ lines[i].key # key
                     THEN new[i] = lines[i]
                     ELSE new[i] = [key |-> key, val |-> val]
               /\ \E i \in DOMAIN new : new[i].key = key
               /\ \A i \in DOMAIN new \ DOMAIN lines : \A j \in DOMAIN lines : j < i
<1> DEFINE line == [key |-> key, val |-> val]
           new  == SetKey(lines, key, val)
<1>1. DOMAIN lines = 1..Len(lines) /\ Len(lines) \in Nat
  OBVIOUS
<1>2. CASE \E i \in DOMAIN lines : lines[i].key = key
  <2>1. new = [i \in 1..Len(lines) |-> IF lines[i].key = key THEN line ELSE lines[i]]
    BY <1>1, <1>2 DEF SetKey
  <2>2. new \in Seq(Line) /\ DOMAIN new = DOMAIN lines
    BY <1>1, <2>1
  <2>3. \A i \in DOMAIN lines : new[i] = IF lines[i].key = key THEN line ELSE lines[i]
    BY <1>1, <2>1
  <2> HIDE DEF new
  <2>4. \E i \in DOMAIN new : new[i].key = key
    BY <1>2, <2>2, <2>3
  <2> QED BY <2>2, <2>3, <2>4 DEF new
<1>3. CASE ~\E i \in DOMAIN lines : lines[i].key = key
  <2>1. new = Append(lines, line)
    BY <1>3 DEF SetKey
  <2>2. new \in Seq(Line) /\ DOMAIN new = 1..(Len(lines) + 1)
    BY <1>1, <2>1
  <2>3. /\ \A i \in DOMAIN lines : new[i] = lines[i]
        /\ new[Len(lines) + 1] = line
    BY <1>1, <2>1
  <2> HIDE DEF new
  <2>4. \E i \in DOMAIN new : new[i].key = key
    <3>1. Len(lines) + 1 \in DOMAIN new /\ new[Len(lines) + 1].key = key
      BY <1>1, <2>2, <2>3
    <3> QED BY <3>1
  <2>5. \A i \in DOMAIN new : i \notin DOMAIN lines => i = Len(lines) + 1
    BY <1>1, <2>2
  <2>6. DOMAIN lines \subseteq DOMAIN new
    BY <1>1, <2>2
  <2>7. \A i \in DOMAIN new \ DOMAIN lines : \A j \in DOMAIN lines : j < i
    BY <1>1, <2>5
  <2>8. \A i \in DOMAIN new :
           IF i \in DOMAIN lines /\ lines[i].key # key THEN new[i] = lines[i] ELSE new[i] = line
    BY <1>3, <2>3, <2>5
  <2> QED BY <2>2, <2>4, <2>6, <2>7, <2>8 DEF new
<1> QED BY <1>2, <1>3

\* The lines that set_key() is given.
LEMMA LinesGiven ==
    /\ "mode" \in Key /\ "addr" \in Key /\ "other" \in Key
    /\ [key |-> "mode", val |-> "proxy"] \in Line
    /\ [key |-> "mode", val |-> "none"] \in Line
    /\ \A p \in Port : [key |-> "addr", val |-> p] \in Line
    /\ \A v \in Value : [key |-> "other", val |-> v] \in Line
    /\ \A lines \in Seq(Line) : \A i \in DOMAIN lines : lines[i] \in Line
<1>1. \A lines \in Seq(Line) : \A i \in DOMAIN lines : lines[i] \in Line
  OBVIOUS
<1> QED BY <1>1 DEF Line, Key

\* The same, key by key.
LEMMA SetKeyHas ==
    ASSUME NEW lines \in Seq(Line), NEW key \in Key, NEW val,
           [key |-> key, val |-> val] \in Line, NEW new, new = SetKey(lines, key, val)
    PROVE  /\ new \in Seq(Line) /\ DOMAIN lines \subseteq DOMAIN new
           /\ \A i \in DOMAIN new : new[i].key = key => new[i].val = val
           /\ \A i \in DOMAIN new : new[i].key # key => i \in DOMAIN lines /\ new[i] = lines[i]
           /\ \A i \in DOMAIN lines : new[i].key = lines[i].key
           /\ \A i \in DOMAIN lines : lines[i].key # key => new[i] = lines[i]
           /\ \E i \in DOMAIN new : new[i].key = key
BY SetKeyIs

LEMMA RestKept ==
    ASSUME NEW lines \in Seq(Line), NEW key \in {"mode", "addr"}, NEW val,
           [key |-> key, val |-> val] \in Line
    PROVE  Rest(SetKey(lines, key, val)) = Rest(lines)
<1> DEFINE new == SetKey(lines, key, val)
<1>1. /\ DOMAIN lines \subseteq DOMAIN new
      /\ \A i \in DOMAIN new :
            IF i \in DOMAIN lines /\ lines[i].key # key
            THEN new[i] = lines[i]
            ELSE new[i] = [key |-> key, val |-> val]
  BY SetKeyIs DEF Key
<1> HIDE DEF new
<1>2. {j \in DOMAIN new : ~IsOurs(new[j])} = {j \in DOMAIN lines : ~IsOurs(lines[j])}
  BY <1>1 DEF IsOurs
<1>3. \A j \in {j \in DOMAIN lines : ~IsOurs(lines[j])} : new[j] = lines[j]
  BY <1>1 DEF IsOurs
<1>4. Rest(new) = Rest(lines)
  BY <1>2, <1>3 DEF Rest
<1> QED BY <1>4 DEF new

LEMMA AppliedKeeps ==
    ASSUME NEW lines \in Seq(Line), NEW port \in Port
    PROVE  Applied(lines, port) \in Seq(Line) /\ Rest(Applied(lines, port)) = Rest(lines)
<1> DEFINE mid == SetKey(lines, "mode", "proxy")
<1>1. mid \in Seq(Line) /\ Rest(mid) = Rest(lines)
  <2>1. "mode" \in Key /\ [key |-> "mode", val |-> "proxy"] \in Line
    BY LinesGiven
  <2> QED BY <2>1, SetKeyIs, RestKept
<1> HIDE DEF mid
<1>2. /\ SetKey(mid, "addr", port) \in Seq(Line)
      /\ Rest(SetKey(mid, "addr", port)) = Rest(mid)
  <2>1. "addr" \in Key /\ [key |-> "addr", val |-> port] \in Line
    BY LinesGiven
  <2> QED BY <1>1, <2>1, SetKeyIs, RestKept
<1> QED BY <1>1, <1>2 DEF Applied, mid

LEMMA RestoredKeeps ==
    ASSUME NEW lines \in Seq(Line)
    PROVE  Restored(lines) \in Seq(Line) /\ Rest(Restored(lines)) = Rest(lines)
<1>1. "mode" \in Key /\ [key |-> "mode", val |-> "none"] \in Line
  BY LinesGiven
<1> QED BY <1>1, SetKeyIs, RestKept DEF Restored

\* The values of the key are those given, those of the others stay.
LEMMA ValsAre ==
    ASSUME NEW lines \in Seq(Line), NEW key \in Key, NEW val,
           [key |-> key, val |-> val] \in Line
    PROVE  /\ Vals(SetKey(lines, key, val), key) = {val}
           /\ \A k \in Key \ {key} : Vals(SetKey(lines, key, val), k) = Vals(lines, k)
<1> DEFINE new == SetKey(lines, key, val)
<1>1. /\ DOMAIN lines \subseteq DOMAIN new
      /\ \A i \in DOMAIN new : new[i].key = key => new[i].val = val
      /\ \A i \in DOMAIN new : new[i].key # key => i \in DOMAIN lines /\ new[i] = lines[i]
      /\ \A i \in DOMAIN lines : lines[i].key # key => new[i] = lines[i]
      /\ \E i \in DOMAIN new : new[i].key = key
  BY SetKeyHas
<1> HIDE DEF new
<1>2. Vals(new, key) = {val}
  BY <1>1 DEF Vals
<1>3. ASSUME NEW k \in Key \ {key} PROVE Vals(new, k) = Vals(lines, k)
  <2>1. {j \in DOMAIN new : new[j].key = k} = {j \in DOMAIN lines : lines[j].key = k}
    BY <1>1
  <2>2. \A j \in {j \in DOMAIN lines : lines[j].key = k} : new[j].val = lines[j].val
    BY <1>1
  <2> QED BY <2>1, <2>2 DEF Vals
<1> QED BY <1>2, <1>3 DEF new

\* What restore() and Spotify itself write is still the user's, or mode none.
LEMMA OfTheirsKept ==
    ASSUME NEW lines \in Seq(Line), OfTheirs(lines)
    PROVE  /\ OfTheirs(Restored(lines))
           /\ \A v \in Value : OfTheirs(SetKey(lines, "other", v))
<1>1. OfTheirs(Restored(lines))
  <2>1. "mode" \in Key /\ "addr" \in Key \ {"mode"} /\ [key |-> "mode", val |-> "none"] \in Line
    BY LinesGiven
  <2>2. Vals(Restored(lines), "mode") = {"none"}
    BY <2>1, ValsAre DEF Restored
  <2>3. Vals(Restored(lines), "addr") = Vals(lines, "addr")
    BY <2>1, ValsAre DEF Restored
  <2> QED BY <2>2, <2>3 DEF OfTheirs
<1>2. ASSUME NEW v \in Value PROVE OfTheirs(SetKey(lines, "other", v))
  <2>1. /\ "other" \in Key /\ [key |-> "other", val |-> v] \in Line
        /\ "mode" \in Key \ {"other"} /\ "addr" \in Key \ {"other"}
    BY LinesGiven
  <2>2. /\ Vals(SetKey(lines, "other", v), "mode") = Vals(lines, "mode")
        /\ Vals(SetKey(lines, "other", v), "addr") = Vals(lines, "addr")
    BY <2>1, ValsAre
  <2> QED BY <2>2 DEF OfTheirs
<1> QED BY <1>1, <1>2

LEMMA RestTypes ==
    ASSUME NEW lines \in Seq(Line)
    PROVE  DOMAIN Rest(lines) \subseteq Nat /\ Rest(lines) \in [DOMAIN Rest(lines) -> Line]
BY LinesGiven DEF Rest

\* What get_key() finds: nothing, or the first line of the key or without `='.
LEMMA GetKeyIs ==
    ASSUME NEW lines \in Seq(Line), NEW key \in Key
    PROVE  \/ /\ \A i \in DOMAIN lines : lines[i].key \notin {key, "keyless"}
              /\ GetKey(lines, key) = "none"
           \/ \E i \in DOMAIN lines :
                 /\ lines[i].key \in {key, "keyless"}
                 /\ \A j \in DOMAIN lines : lines[j].key \in {key, "keyless"} => i <= j
                 /\ GetKey(lines, key) =
                       IF lines[i].key = "keyless" THEN "none" ELSE lines[i].val
<1> DEFINE I  == {i \in 1..Len(lines) : lines[i].key \in {key, "keyless"}}
           at == SelectInSeq(lines, LAMBDA line : line.key \in {key, "keyless"})
<1>1. DOMAIN lines = 1..Len(lines) /\ Len(lines) \in Nat
  OBVIOUS
<1>2. GetKey(lines, key) =
         IF at = 0 \/ lines[at].key = "keyless" THEN "none" ELSE lines[at].val
  BY DEF GetKey
<1>3. at = IF I # {} THEN Min(I) ELSE 0
  BY DEF SelectInSeq
<1> HIDE DEF at
<1>4. CASE I = {}
  BY <1>1, <1>2, <1>3, <1>4
<1>5. CASE I # {}
  <2>1. I \in SUBSET Nat
    OBVIOUS
  <2>2. PICK m \in I : \A j \in I : m <= j
    <3> HIDE DEF I
    <3> QED BY <1>5, <2>1, Smallest
  <2>3. Min(I) \in I /\ \A j \in I : Min(I) <= j
    <3> HIDE DEF I
    <3> QED BY <2>2 DEF Min
  <2>4. at \in I /\ \A j \in I : at <= j
    BY <1>3, <1>5, <2>3
  <2>5. at \in DOMAIN lines /\ at # 0 /\ lines[at].key \in {key, "keyless"}
    BY <1>1, <2>4
  <2>6. \A j \in DOMAIN lines : lines[j].key \in {key, "keyless"} => at <= j
    BY <1>1, <2>4
  <2> QED BY <1>2, <2>5, <2>6
<1> QED BY <1>4, <1>5

\* What apply(), restore() and Spotify itself do to where Spotify points.
Follows(lines, to) ==
    Hidden(lines) \/ \A p \in Port : PointsAtUs(lines, p) <=> to = p

LEMMA AppliedFollows ==
    ASSUME NEW lines \in Seq(Line), NEW port \in Port
    PROVE  Follows(Applied(lines, port), port)
<1> DEFINE mid == SetKey(lines, "mode", "proxy")
           new == SetKey(mid, "addr", port)
<1>1. "mode" \in Key /\ [key |-> "mode", val |-> "proxy"] \in Line
  BY LinesGiven
<1>2. /\ mid \in Seq(Line)
      /\ \A i \in DOMAIN mid : mid[i].key = "mode" => mid[i].val = "proxy"
      /\ \E i \in DOMAIN mid : mid[i].key = "mode"
  BY <1>1, SetKeyHas
<1> HIDE DEF mid
<1>3. /\ "addr" \in Key /\ [key |-> "addr", val |-> port] \in Line
      /\ mid \in Seq(Line) /\ new = SetKey(mid, "addr", port)
  BY <1>2, LinesGiven
<1> HIDE DEF new
<1>4. /\ new \in Seq(Line) /\ DOMAIN mid \subseteq DOMAIN new
      /\ \A i \in DOMAIN new : new[i].key = "addr" => new[i].val = port
      /\ \A i \in DOMAIN new : new[i].key # "addr" => i \in DOMAIN mid /\ new[i] = mid[i]
      /\ \A i \in DOMAIN mid : new[i].key = mid[i].key
      /\ \E i \in DOMAIN new : new[i].key = "addr"
  <2>1. new \in Seq(Line) /\ DOMAIN mid \subseteq DOMAIN new
    BY <1>3, SetKeyHas
  <2>2. \A i \in DOMAIN new : new[i].key = "addr" => new[i].val = port
    BY <1>3, SetKeyHas, SMTT(20)
  <2>3. \A i \in DOMAIN new : new[i].key # "addr" => i \in DOMAIN mid /\ new[i] = mid[i]
    BY <1>3, SetKeyHas
  <2>4. \A i \in DOMAIN mid : new[i].key = mid[i].key
    BY <1>3, SetKeyHas, SMTT(20)
  <2>5. \E i \in DOMAIN new : new[i].key = "addr"
    BY <1>3, SetKeyHas
  <2> QED BY <2>1, <2>2, <2>3, <2>4, <2>5
<1>5. /\ \A i \in DOMAIN new : new[i].key = "mode" => new[i].val = "proxy"
      /\ \A i \in DOMAIN new : new[i].key = "addr" => new[i].val = port
      /\ \E i \in DOMAIN new : new[i].key = "mode"
  BY <1>2, <1>4
<1>6. ASSUME ~Hidden(new), NEW key \in {"mode", "addr"}
      PROVE  \E i \in DOMAIN new : new[i].key = key /\ GetKey(new, key) = new[i].val
  <2>1. PICK k \in DOMAIN new : new[k].key = key
    BY <1>4, <1>5
  <2>2. PICK i \in DOMAIN new :
           /\ new[i].key \in {key, "keyless"}
           /\ \A j \in DOMAIN new : new[j].key \in {key, "keyless"} => i <= j
           /\ GetKey(new, key) = IF new[i].key = "keyless" THEN "none" ELSE new[i].val
    <3>1. ~\A i \in DOMAIN new : new[i].key \notin {key, "keyless"}
      BY <2>1
    <3>2. new \in Seq(Line) /\ key \in Key
      BY <1>4 DEF Key
    <3> QED BY <3>1, <3>2, GetKeyIs
  <2>3. new[i].key # "keyless"
    <3> SUFFICES ASSUME new[i].key = "keyless" PROVE FALSE
      OBVIOUS
    <3>1. i <= k /\ i # k /\ i \in Nat /\ k \in Nat
      BY <1>4, <2>1, <2>2
    <3>2. k > i /\ IsOurs(new[k])
      BY <2>1, <3>1 DEF IsOurs
    <3> QED BY <1>6, <3>2 DEF Hidden
  <2> QED BY <2>2, <2>3
<1>7. ~Hidden(new) => GetKey(new, "mode") = "proxy" /\ GetKey(new, "addr") = port
  BY <1>5, <1>6
<1>8. Follows(new, port)
  BY <1>7 DEF Follows, PointsAtUs
<1> QED BY <1>8 DEF Applied, mid, new

\* A file whose mode is not "proxy" points nowhere.
LEMMA NoProxyFollows ==
    ASSUME NEW lines \in Seq(Line),
           \A i \in DOMAIN lines : lines[i].key = "mode" => lines[i].val # "proxy"
    PROVE  Follows(lines, Down)
<1>1. GetKey(lines, "mode") # "proxy"
  BY GetKeyIs DEF Key
<1> QED BY <1>1 DEF Follows, PointsAtUs

LEMMA RestoredFollows ==
    ASSUME NEW lines \in Seq(Line)
    PROVE  Follows(Restored(lines), Down)
<1> DEFINE new == SetKey(lines, "mode", "none")
<1>1. "mode" \in Key /\ [key |-> "mode", val |-> "none"] \in Line
  BY LinesGiven
<1>2. /\ new \in Seq(Line)
      /\ \A i \in DOMAIN new : new[i].key = "mode" => new[i].val = "none"
  BY <1>1, SetKeyHas
<1> HIDE DEF new
<1>3. Follows(new, Down)
  BY <1>2, NoProxyFollows
<1> QED BY <1>3 DEF Restored, new

LEMMA EmptyFollows == Follows(<<>>, Down)
<1>1. <<>> \in Seq(Line) /\ \A i \in DOMAIN <<>> : FALSE
  OBVIOUS
<1> QED BY <1>1, NoProxyFollows

\* A line of Spotify's own changes nothing of what get_key() finds of ours.
LEMMA OtherKeepsKeys ==
    ASSUME NEW lines \in Seq(Line), NEW v \in Value, NEW key \in {"mode", "addr"}
    PROVE  GetKey(SetKey(lines, "other", v), key) = GetKey(lines, key)
<1> DEFINE new == SetKey(lines, "other", v)
<1>0. "other" \in Key /\ [key |-> "other", val |-> v] \in Line
  BY LinesGiven
<1>1. /\ new \in Seq(Line) /\ DOMAIN lines \subseteq DOMAIN new
      /\ \A i \in DOMAIN new : new[i].key # "other" => i \in DOMAIN lines /\ new[i] = lines[i]
      /\ \A i \in DOMAIN lines : lines[i].key # "other" => new[i] = lines[i]
  BY <1>0, SetKeyHas
<1> HIDE DEF new
<1>2. \A i : (i \in DOMAIN new /\ new[i].key \in {key, "keyless"})
              <=> (i \in DOMAIN lines /\ lines[i].key \in {key, "keyless"})
  BY <1>1
<1>3. \A i \in DOMAIN lines : lines[i].key \in {key, "keyless"} => new[i] = lines[i]
  BY <1>1
<1>4. CASE \A i \in DOMAIN lines : lines[i].key \notin {key, "keyless"}
  <2>1. \A i \in DOMAIN new : new[i].key \notin {key, "keyless"}
    BY <1>2, <1>4
  <2>2. GetKey(lines, key) = "none"
    BY <1>4, GetKeyIs DEF Key
  <2>3. GetKey(new, key) = "none"
    BY <1>1, <2>1, GetKeyIs DEF Key
  <2> QED BY <2>2, <2>3 DEF new
<1>5. CASE ~\A i \in DOMAIN lines : lines[i].key \notin {key, "keyless"}
  <2>1. PICK i \in DOMAIN lines :
           /\ lines[i].key \in {key, "keyless"}
           /\ \A j \in DOMAIN lines : lines[j].key \in {key, "keyless"} => i <= j
           /\ GetKey(lines, key) = IF lines[i].key = "keyless" THEN "none" ELSE lines[i].val
    BY <1>5, GetKeyIs DEF Key
  <2>2. \E j \in DOMAIN new : new[j].key \in {key, "keyless"}
    BY <1>2, <2>1
  <2>3. PICK j \in DOMAIN new :
           /\ new[j].key \in {key, "keyless"}
           /\ \A k \in DOMAIN new : new[k].key \in {key, "keyless"} => j <= k
           /\ GetKey(new, key) = IF new[j].key = "keyless" THEN "none" ELSE new[j].val
    <3>1. ~\A k \in DOMAIN new : new[k].key \notin {key, "keyless"}
      BY <2>2
    <3>2. new \in Seq(Line) /\ key \in Key
      BY <1>1 DEF Key
    <3> QED BY <3>1, <3>2, GetKeyIs
  <2>4. i <= j /\ j <= i /\ i \in Nat /\ j \in Nat
    BY <1>1, <1>2, <2>1, <2>3
  <2>5. i = j
    BY <2>4
  <2>6. GetKey(new, key) = GetKey(lines, key)
    BY <1>3, <2>1, <2>3, <2>5
  <2> QED BY <2>6 DEF new
<1> QED BY <1>4, <1>5

LEMMA OtherFollows ==
    ASSUME NEW lines \in Seq(Line), NEW v \in Value, NEW to, Follows(lines, to)
    PROVE  Follows(SetKey(lines, "other", v), to)
<1> DEFINE new == SetKey(lines, "other", v)
<1>1. \A key \in {"mode", "addr"} : GetKey(new, key) = GetKey(lines, key)
  BY OtherKeepsKeys
<1>2. Hidden(lines) => Hidden(new)
  <2>1. /\ DOMAIN lines \subseteq DOMAIN new
        /\ \A i \in DOMAIN lines : new[i].key = lines[i].key
    BY SetKeyHas, LinesGiven
  <2> HIDE DEF new
  <2> QED BY <2>1 DEF Hidden, IsOurs
<1> HIDE DEF new
<1>3. Follows(new, to)
  BY <1>1, <1>2 DEF Follows, PointsAtUs
<1> QED BY <1>3 DEF new
-----------------------------------------------------------------------------
(* How a step leaves the controls. *)

LEMMA IdleType == Idle \in Job
BY DEF Idle, Job, Op, At

LEMMA GotoIs ==
    ASSUME TypeOK, NEW x \in Control, NEW at \in At, Goto(x, at)
    PROVE  /\ job' \in [Control -> Job]
           /\ job'[x].at = at /\ job'[x].op = job[x].op /\ job'[x].port = job[x].port
           /\ job'[x].body = job[x].body
           /\ \A y \in Control \ {x} : job'[y] = job[y]
BY DEF TypeOK, Goto, Job

LEMMA ReturnsIs ==
    ASSUME TypeOK, NEW x \in Control, Returns(x)
    PROVE  /\ job' \in [Control -> Job]
           /\ job'[x] = Idle
           /\ \A y \in Control \ {x} : job'[y] = job[y]
BY IdleType DEF TypeOK, Returns

LEMMA PressIs ==
    ASSUME TypeOK, NEW x \in Control, NEW op \in Op, NEW at \in At, Press(x, op, at)
    PROVE  /\ job' \in [Control -> Job] /\ presses' \in 0..MaxPress
           /\ job[x] = Idle
           /\ job'[x].op = op /\ job'[x].at = at /\ job'[x].port = cfg.port
           /\ \A y \in Control \ {x} : job'[y] = job[y]
<1> DEFINE new == [Idle EXCEPT !.op = op, !.at = at, !.port = cfg.port]
<1>1. cfg.port \in Port
  BY DEF TypeOK, Config
<1>2. new \in Job /\ new.op = op /\ new.at = at /\ new.port = cfg.port
  BY <1>1, IdleType DEF Idle, Job
<1>3. job' = [job EXCEPT ![x] = new] /\ job[x] = Idle
  BY DEF Press
<1> HIDE DEF new
<1>4. presses' \in 0..MaxPress
  BY DEF Press, TypeOK
<1> QED BY <1>2, <1>3, <1>4 DEF TypeOK

LEMMA PrefsDoneIs ==
    ASSUME TypeOK, NEW x \in Control, PrefsDone(x)
    PROVE  /\ job' \in [Control -> Job]
           /\ \A y \in Control \ {x} : job'[y] = job[y]
           /\ IF x = "reset" THEN job'[x].at = "purge" /\ job'[x].op = job[x].op
                             ELSE job'[x] = Idle
           /\ job'[x].at \notin {"backup", "copy", "read", "truncate", "write", "preflight"}
<1>1. CASE x = "reset"
  <2>1. Goto(x, "purge") /\ "purge" \in At
    BY <1>1 DEF PrefsDone, At
  <2> QED BY <1>1, <2>1, GotoIs
<1>2. CASE x # "reset"
  <2>1. Returns(x)
    BY <1>2 DEF PrefsDone
  <2> QED BY <1>2, <2>1, ReturnsIs DEF Idle
<1> QED BY <1>1, <1>2

LEMMA ControlsAre ==
    /\ {"fix", "off", "reset"} \subseteq Control /\ Box \subseteq Control
    /\ Toggle \subseteq Control \ (Box \cup {"reset"})
BY DEF Control

\* stop_tunnel() goes on to restore().
LEMMA DisconnectIs ==
    ASSUME TypeOK, NEW t \in Toggle, Disconnect(t)
    PROVE  /\ job' \in [Control -> Job]
           /\ \A y \in Control \ {t} : job'[y] = job[y]
           /\ IF cfg.manage THEN job'[t].at = "read" /\ job'[t].op = "restore"
                            ELSE job'[t] = Idle
<1>1. t \in Control
  BY ControlsAre
<1>2. CASE cfg.manage
  <2>1. job' = [job EXCEPT ![t] = [job[t] EXCEPT !.op = "restore", !.at = "read"]]
    BY <1>1, <1>2 DEF Disconnect, TypeOK
  <2>2. [job[t] EXCEPT !.op = "restore", !.at = "read"] \in Job
    BY <1>1 DEF TypeOK, Job, Op, At
  <2>3. [job[t] EXCEPT !.op = "restore", !.at = "read"].at = "read"
        /\ [job[t] EXCEPT !.op = "restore", !.at = "read"].op = "restore"
    BY <1>1 DEF TypeOK, Job
  <2> QED BY <1>1, <1>2, <2>1, <2>2, <2>3 DEF TypeOK
<1>3. CASE ~cfg.manage
  BY <1>1, <1>3, ReturnsIs DEF Disconnect
<1> QED BY <1>2, <1>3

LEMMA SeqNotMissing == \A lines \in Seq(Line) : lines # Missing
OBVIOUS

-----------------------------------------------------------------------------
(* Types. *)

LEMMA SavesTypes ==
    ASSUME TypeOK, SpotifySaves
    PROVE  TypeOK'
<1> DEFINE lines == IF prefs = Missing THEN <<>> ELSE prefs
<1>1. PICK v \in Value : prefs' = SetKey(lines, "other", v)
  BY DEF SpotifySaves
<1>2. lines \in Seq(Line)
  BY DEF TypeOK, Lines
<1>3. "other" \in Key /\ [key |-> "other", val |-> v] \in Line
  BY LinesGiven
<1> HIDE DEF lines
<1>4. prefs' \in Seq(Line)
  BY <1>1, <1>2, <1>3, SetKeyHas
<1>5. DOMAIN rest' \subseteq Nat /\ rest' \in [DOMAIN rest' -> Line]
  BY <1>4, RestTypes DEF SpotifySaves
<1>6. events' \in 0..MaxEvent
  BY DEF SpotifySaves, Befalls, TypeOK
<1>7. torn' \in BOOLEAN /\ sound' \in BOOLEAN
  BY DEF SpotifySaves, TypeOK
<1> QED
  BY <1>4, <1>5, <1>6, <1>7
  DEF SpotifySaves, TypeOK, Lines, startup

LEMMA PressedTypes ==
    ASSUME TypeOK,
           \/ PressFix \/ PressOff \/ PressReset
           \/ \E t \in Toggle : PressConnect(t) \/ PressDisconnect(t)
    PROVE  job' \in [Control -> Job] /\ presses' \in 0..MaxPress
<1> USE ControlsAre
<1>1. CASE PressFix
  BY <1>1, PressIs DEF PressFix, Op, At
<1>2. CASE PressOff
  BY <1>2, PressIs DEF PressOff, Op, At
<1>3. ASSUME NEW t \in Toggle, PressConnect(t) \/ PressDisconnect(t)
      PROVE  job' \in [Control -> Job] /\ presses' \in 0..MaxPress
  BY <1>3, PressIs DEF PressConnect, PressDisconnect, Op, At
<1>4. CASE PressReset
  BY <1>4, PressIs DEF PressReset, Op, At
<1> QED BY <1>1, <1>2, <1>3, <1>4

LEMMA PrefsStepTypes ==
    ASSUME TypeOK, NEW x \in Control, PrefsStep(x)
    PROVE  TypeOK'
<1> USE DEF spotify, startup, bounds, history
<1>1. ASSUME job' \in [Control -> Job], Lines(prefs'), Lines(backup'),
             UNCHANGED <<tunnel, cfg, startup, bounds, history>>
      PROVE  TypeOK'
  BY <1>1 DEF TypeOK, Lines
<1>2. CASE LookForBackup(x)
  <2>1. Returns(x) \/ Goto(x, "copy") \/ Goto(x, "read")
    BY <1>2 DEF LookForBackup
  <2>2. job' \in [Control -> Job]
    BY <2>1, ReturnsIs, GotoIs DEF At
  <2> QED BY <1>1, <1>2, <2>2 DEF LookForBackup, TypeOK
<1>3. CASE CopyPrefs(x)
  <2>1. job' \in [Control -> Job]
    BY <1>3, GotoIs DEF CopyPrefs, At
  <2> QED BY <1>1, <1>3, <2>1 DEF CopyPrefs, TypeOK
<1>4. CASE ReadPrefs(x)
  <2>1. CASE prefs = Missing
    <3>1. job' \in [Control -> Job]
      BY <1>4, <2>1, PrefsDoneIs DEF ReadPrefs
    <3> QED BY <1>1, <1>4, <3>1 DEF ReadPrefs, TypeOK
  <2>2. CASE prefs # Missing
    <3> DEFINE body == IF job[x].op = "apply" THEN Applied(prefs, job[x].port)
                                               ELSE Restored(prefs)
    <3>1. prefs \in Seq(Line) /\ job[x].port \in Port
      BY <2>2 DEF TypeOK, Lines, Job
    <3>2. body \in Seq(Line)
      BY <3>1, AppliedKeeps, RestoredKeeps
    <3>3. job' = [job EXCEPT ![x].at = "truncate", ![x].body = body]
      BY <1>4, <2>2 DEF ReadPrefs
    <3> HIDE DEF body
    <3>4. job \in [Control -> Job] /\ "truncate" \in At
      BY DEF TypeOK, At
    <3>5. [job[x] EXCEPT !.at = "truncate", !.body = body] \in Job
      BY <3>2, <3>4 DEF Job
    <3>6. job' = [job EXCEPT ![x] = [job[x] EXCEPT !.at = "truncate", !.body = body]]
      BY <3>3, <3>4
    <3>7. job' \in [Control -> Job]
      BY <3>4, <3>5, <3>6
    <3> QED BY <1>1, <1>4, <3>7 DEF ReadPrefs, TypeOK
  <2> QED BY <2>1, <2>2
<1>5. CASE TruncatePrefs(x)
  <2>1. job' \in [Control -> Job] /\ Lines(prefs')
    BY <1>5, GotoIs DEF TruncatePrefs, At, Lines
  <2> QED BY <1>1, <1>5, <2>1 DEF TruncatePrefs, TypeOK
<1>6. CASE WritePrefs(x)
  <2>1. job' \in [Control -> Job]
    BY <1>6, PrefsDoneIs DEF WritePrefs
  <2>2. Lines(prefs')
    BY <1>6 DEF WritePrefs, TypeOK, Lines, Job
  <2> QED BY <1>1, <1>6, <2>1, <2>2 DEF WritePrefs, TypeOK
<1>7. CASE PrefsFail(x)
  <2>1. job' \in [Control -> Job]
    BY <1>7, PrefsDoneIs DEF PrefsFail
  <2>2. events' \in 0..MaxEvent
    BY <1>7 DEF PrefsFail, Befalls, TypeOK
  <2>3. torn' \in BOOLEAN /\ sound' \in BOOLEAN
    BY <1>7 DEF PrefsFail, TypeOK
  <2> QED BY <1>7, <2>1, <2>2, <2>3 DEF PrefsFail, TypeOK, Lines
<1> QED BY <1>2, <1>3, <1>4, <1>5, <1>6, <1>7 DEF PrefsStep

LEMMA EntryStepTypes ==
    ASSUME TypeOK, NEW x \in Control, EntryStep(x)
    PROVE  TypeOK'
<1> USE DEF spotify, startup, bounds, history
<1>1. ASSUME job' \in [Control -> Job], entry' \subseteq Home, legacy' \subseteq Home,
             box' \in BOOLEAN, mixed' \in BOOLEAN, blind' \in BOOLEAN,
             UNCHANGED <<spotify, tunnel, cfg, policy, bounds, rest, theirs, torn, sound>>
      PROVE  TypeOK'
  BY <1>1 DEF TypeOK, Lines
<1>2. /\ entry \subseteq Home /\ legacy \subseteq Home /\ box \in BOOLEAN
      /\ mixed \in BOOLEAN /\ blind \in BOOLEAN
  BY DEF TypeOK
<1>3. CASE Purge(x)
  <2>1. Goto(x, "create") \/ Goto(x, "deleteTask")
    BY <1>3 DEF Purge
  <2>2. job' \in [Control -> Job]
    BY <2>1, GotoIs DEF At
  <2>3. mixed' \in BOOLEAN /\ legacy' \subseteq Home
    BY <1>2, <1>3 DEF Purge, Mixes
  <2> QED BY <1>1, <1>2, <1>3, <2>2, <2>3 DEF Purge
<1>4. CASE CreateTask(x)
  <2>1. policy.task \in {"allowed", "denied", "broken"}
    BY DEF TypeOK, Policy, Home
  <2>2. /\ Returns(x) \/ Goto(x, "query") \/ Goto(x, "add")
        /\ entry' \in {entry, entry \cup {"task"}} /\ box' \in {box, FALSE}
    BY <1>4, <2>1 DEF CreateTask
  <2>3. job' \in [Control -> Job]
    BY <2>2, GotoIs, ReturnsIs DEF At
  <2> QED BY <1>1, <1>2, <1>4, <2>2, <2>3 DEF CreateTask, Home
<1>5. CASE AddRunKey(x)
  <2>1. /\ Returns(x) \/ Goto(x, "query")
        /\ entry' \in {entry, entry \cup {"run"}} /\ box' \in {box, FALSE}
    BY <1>5 DEF AddRunKey
  <2>2. job' \in [Control -> Job]
    BY <2>1, GotoIs, ReturnsIs DEF At
  <2> QED BY <1>1, <1>2, <1>5, <2>1, <2>2 DEF AddRunKey, Home
<1>6. CASE DeleteTask(x) \/ DeleteRunKey(x)
  <2>1. Goto(x, "deleteRun") \/ Goto(x, "default") \/ Goto(x, "query")
    BY <1>6 DEF DeleteTask, DeleteRunKey
  <2>2. job' \in [Control -> Job]
    BY <2>1, GotoIs DEF At
  <2> QED BY <1>1, <1>2, <1>6, <2>2 DEF DeleteTask, DeleteRunKey
<1>7. CASE Query(x)
  <2>1. job' \in [Control -> Job]
    BY <1>7, ReturnsIs DEF Query
  <2>2. box' \in BOOLEAN /\ blind' \in BOOLEAN
    BY <1>2, <1>7 DEF Query, Look
  <2> QED BY <1>1, <1>2, <1>7, <2>1, <2>2 DEF Query
<1> QED BY <1>3, <1>4, <1>5, <1>6, <1>7 DEF EntryStep

LEMMA TypesStep == TypeOK /\ [Next]_vars => TypeOK'
<1> SUFFICES ASSUME TypeOK, [Next]_vars PROVE TypeOK'
  OBVIOUS
<1> USE DEF spotify, startup, bounds, history
<1>1. ASSUME \/ PressFix \/ PressOff \/ PressReset
             \/ \E t \in Toggle : PressConnect(t) \/ PressDisconnect(t)
      PROVE  TypeOK'
  <2>1. /\ tunnel' \in {tunnel, Down} /\ torn' \in BOOLEAN /\ sound' \in BOOLEAN
        /\ UNCHANGED <<spotify, cfg, startup, events, rest, theirs, mixed, blind>>
    BY <1>1
    DEF TypeOK, PressFix, PressOff, PressConnect, PressDisconnect, PressReset, Joins, Alone
  <2> QED BY <1>1, <2>1, PressedTypes DEF TypeOK, Lines
<1>2. ASSUME NEW t \in Toggle, ConnectFails(t) \/ Disconnect(t) PROVE TypeOK'
  <2>1. job' \in [Control -> Job]
    BY <1>2, ReturnsIs, DisconnectIs, ControlsAre DEF ConnectFails
  <2>2. tunnel' \in {tunnel, Down} /\ torn' \in BOOLEAN /\ sound' \in BOOLEAN
    BY <1>2 DEF TypeOK, ConnectFails, Disconnect, Joins, Alone
  <2> QED BY <1>2, <2>1, <2>2 DEF ConnectFails, Disconnect, TypeOK, Lines
<1>3. ASSUME NEW t \in Toggle, Connect(t) PROVE TypeOK'
  <2>1. job[t] \in Job
    BY ControlsAre DEF TypeOK
  <2>2. /\ tunnel' \in Port \cup {Down} /\ torn' \in BOOLEAN /\ sound' \in BOOLEAN
    BY <1>3, <2>1 DEF Connect, TypeOK, Joins, Alone, Job
  <2>3. Goto(t, "backup") \/ Returns(t)
    BY <1>3 DEF Connect
  <2>4. job' \in [Control -> Job]
    BY <2>3, GotoIs, ReturnsIs, ControlsAre DEF At
  <2> QED BY <1>3, <2>2, <2>4 DEF Connect, TypeOK, Lines
<1>4. CASE ResetDone
  <2>1. job' \in [Control -> Job]
    BY <1>4, ReturnsIs, ControlsAre DEF ResetDone
  <2>2. Default \in Config
    BY DEF Default, Config
  <2>3. box' \in BOOLEAN /\ blind' \in BOOLEAN
    BY <1>4 DEF ResetDone, Look, TypeOK
  <2> QED BY <1>4, <2>1, <2>2, <2>3 DEF ResetDone, TypeOK, Lines
<1>5. CASE TunnelEnds
  <2>1. events' \in 0..MaxEvent
    BY <1>5 DEF TunnelEnds, Befalls, TypeOK
  <2> QED BY <1>5, <2>1 DEF TunnelEnds, TypeOK, Lines
<1>6. CASE ChangeSettings
  <2>1. presses' \in 0..MaxPress /\ sound' \in BOOLEAN
    BY <1>6 DEF ChangeSettings, TypeOK
  <2> QED BY <1>6, <2>1 DEF ChangeSettings, TypeOK, Lines
<1>7. ASSUME NEW x \in Control, PrefsStep(x) \/ EntryStep(x) PROVE TypeOK'
  BY <1>7, PrefsStepTypes, EntryStepTypes
<1>8. ASSUME NEW b \in Box, PressBox(b) PROVE TypeOK'
  <2>1. job' \in [Control -> Job] /\ presses' \in 0..MaxPress
    BY <1>8, PressIs, ControlsAre DEF PressBox, Op, At
  <2>2. box' \in BOOLEAN /\ mixed' \in BOOLEAN
    BY <1>8 DEF PressBox, Mixes, TypeOK
  <2> QED BY <1>8, <2>1, <2>2 DEF PressBox, TypeOK, Lines
<1>9. CASE SpotifySaves
  BY <1>9, SavesTypes
<1>10. CASE PolicyChanges
  <2>1. events' \in 0..MaxEvent
    BY <1>10 DEF PolicyChanges, Befalls, TypeOK
  <2> QED BY <1>10, <2>1 DEF PolicyChanges, TypeOK, Lines
<1>11. CASE AppEnds
  <2>1. events' \in 0..MaxEvent
    BY <1>11 DEF AppEnds, Befalls, TypeOK
  <2>2. job' \in [Control -> Job]
    BY <1>11, IdleType DEF AppEnds
  <2>3. /\ torn' \in BOOLEAN /\ sound' \in BOOLEAN /\ mixed' \in BOOLEAN
        /\ box' \in BOOLEAN /\ blind' \in BOOLEAN /\ tunnel' = Down
    BY <1>11 DEF AppEnds, Look, TypeOK
  <2> QED BY <1>11, <2>1, <2>2, <2>3 DEF AppEnds, TypeOK, Lines
<1>12. CASE UNCHANGED vars
  BY <1>12 DEF vars, TypeOK, Lines
<1> QED
  BY <1>1, <1>2, <1>3, <1>4, <1>5, <1>6, <1>7, <1>8, <1>9, <1>10, <1>11, <1>12
  DEF Next, ToggleStep
-----------------------------------------------------------------------------
(* Which control comes to which step, and with which command. *)

StationOf(x) ==
    /\ job[x].at \in {"preflight", "stop"} => x \in Toggle
    /\ InPrefs(x) => x \notin Box /\ job[x].op \in {"apply", "restore"}
    /\ job[x].at \in {"backup", "copy"} => job[x].op = "apply"
    /\ job[x].at \in {"copy", "truncate", "write"} => prefs # Missing
    /\ InEntry(x) => x \in Box \cup {"reset"}
    /\ job[x].at = "default" => x = "reset"
    /\ x \in Box => job[x].op \in {"none", "enable", "disable"}
    /\ x = "reset" => job[x].op \in {"none", "restore"}

Stations == \A x \in Control : StationOf(x)

LEMMA IdleStation ==
    ASSUME NEW x \in Control, job'[x] = Idle
    PROVE  StationOf(x)'
BY DEF StationOf, Idle, InPrefs, InEntry

\* One control moves, and the file does not go.
LEMMA OneMoves ==
    ASSUME Stations, NEW x \in Control, \A y \in Control \ {x} : job'[y] = job[y],
           prefs # Missing => prefs' # Missing, StationOf(x)'
    PROVE  Stations'
<1>1. ASSUME NEW y \in Control, y # x PROVE StationOf(y)'
  <2>1. job'[y] = job[y] /\ StationOf(y)
    BY <1>1 DEF Stations
  <2> QED BY <2>1 DEF StationOf, InPrefs, InEntry
<1> QED BY <1>1 DEF Stations

LEMMA StationsStep == TypeOK /\ Stations /\ [Next]_vars => Stations'
<1> SUFFICES ASSUME TypeOK, Stations, [Next]_vars PROVE Stations'
  OBVIOUS
<1> USE DEF spotify, startup, bounds, history
<1>1. ASSUME NEW x \in Control, NEW op \in Op, NEW at \in At, Press(x, op, at),
             UNCHANGED prefs,
             \/ x \notin Box \cup {"reset"} /\ at = "backup" /\ op = "apply"
             \/ x \notin Box /\ at = "read" /\ op = "restore"
             \/ x \in Toggle /\ at \in {"preflight", "stop"}
             \/ x = "reset" /\ at = "purge" /\ op = "restore"
             \/ x \in Box /\ at = "purge" /\ op \in {"enable", "disable"}
      PROVE  Stations'
  <2>1. /\ job'[x].op = op /\ job'[x].at = at
        /\ \A y \in Control \ {x} : job'[y] = job[y]
    BY <1>1, PressIs
  <2>2. StationOf(x)'
    BY <1>1, <2>1, ControlsAre DEF StationOf, InPrefs, InEntry
  <2> QED BY <1>1, <2>1, <2>2, OneMoves
<1>2. CASE PressFix
  BY <1>1, <1>2, ControlsAre DEF PressFix, Op, At
<1>3. CASE PressOff
  BY <1>1, <1>3, ControlsAre DEF PressOff, Op, At
<1>4. ASSUME NEW t \in Toggle, PressConnect(t) \/ PressDisconnect(t) PROVE Stations'
  BY <1>1, <1>4, ControlsAre DEF PressConnect, PressDisconnect, Op, At
<1>5. ASSUME NEW t \in Toggle, Disconnect(t) PROVE Stations'
  <2>1. /\ t \in Control \ (Box \cup {"reset"}) /\ prefs' = prefs
        /\ \A y \in Control \ {t} : job'[y] = job[y]
        /\ job'[t] = Idle \/ (job'[t].at = "read" /\ job'[t].op = "restore")
    BY <1>5, DisconnectIs, ControlsAre DEF Disconnect
  <2>2. StationOf(t)'
    BY <2>1, IdleStation DEF StationOf, InPrefs, InEntry
  <2> QED BY <2>1, <2>2, OneMoves
<1>6. CASE PressReset
  BY <1>1, <1>6, ControlsAre DEF PressReset, Op, At
<1>7. ASSUME NEW b \in Box, PressBox(b) PROVE Stations'
  BY <1>1, <1>7, ControlsAre DEF PressBox, Op, At
\* A control goes on, and keeps its command.
<1>8. ASSUME NEW x \in Control, NEW at \in At, Goto(x, at),
             prefs # Missing => prefs' # Missing,
             \/ InPrefs(x) /\ at = "read"
             \/ job[x].at = "backup" /\ at = "copy" /\ prefs # Missing
             \/ InPrefs(x) /\ prefs # Missing /\ at \in {"truncate", "write"}
             \/ InEntry(x) /\ at \in {"create", "add", "deleteTask", "deleteRun", "query"}
             \/ x = "reset" /\ at \in {"purge", "default"}
      PROVE  Stations'
  <2>1. /\ job'[x].op = job[x].op /\ job'[x].at = at
        /\ \A y \in Control \ {x} : job'[y] = job[y]
    BY <1>8, GotoIs
  <2>2. StationOf(x)
    BY DEF Stations
  <2>3. StationOf(x)'
    BY <1>8, <2>1, <2>2 DEF StationOf, InPrefs, InEntry
  <2> QED BY <1>8, <2>1, <2>3, OneMoves
<1>9. ASSUME NEW x \in Control, Returns(x), prefs # Missing => prefs' # Missing
      PROVE  Stations'
  BY <1>9, ReturnsIs, IdleStation, OneMoves
<1>10. ASSUME NEW x \in Control, PrefsDone(x), prefs # Missing => prefs' # Missing
       PROVE  Stations'
  <2>1. Returns(x) \/ (x = "reset" /\ Goto(x, "purge"))
    BY <1>10 DEF PrefsDone
  <2> QED BY <1>8, <1>9, <1>10, <2>1 DEF At
<1>11. ASSUME NEW t \in Toggle, ConnectFails(t) PROVE Stations'
  BY <1>9, <1>11, ControlsAre DEF ConnectFails
<1>12. ASSUME NEW t \in Toggle, Connect(t) PROVE Stations'
  <2>1. CASE job[t].op = "apply"
    <3>1. Goto(t, "backup") /\ t \in Control \ (Box \cup {"reset"}) /\ prefs' = prefs
      BY <1>12, <2>1, ControlsAre DEF Connect
    <3>2. /\ job'[t].op = "apply" /\ job'[t].at = "backup"
          /\ \A y \in Control \ {t} : job'[y] = job[y]
      BY <2>1, <3>1, GotoIs DEF At
    <3>3. StationOf(t)'
      BY <3>1, <3>2 DEF StationOf, InPrefs, InEntry
    <3> QED BY <3>1, <3>2, <3>3, OneMoves
  <2>2. CASE job[t].op # "apply"
    BY <1>9, <1>12, <2>2, ControlsAre DEF Connect
  <2> QED BY <2>1, <2>2
<1>13. CASE ResetDone
  BY <1>9, <1>13, ControlsAre DEF ResetDone
<1>14. ASSUME NEW x \in Control, LookForBackup(x) PROVE Stations'
  <2>1. job[x].at = "backup" /\ InPrefs(x) /\ prefs' = prefs
    BY <1>14 DEF LookForBackup, InPrefs
  <2>2. Returns(x) \/ (prefs # Missing /\ (Goto(x, "copy") \/ Goto(x, "read")))
    BY <1>14 DEF LookForBackup
  <2> QED BY <1>8, <1>9, <2>1, <2>2 DEF At
<1>15. ASSUME NEW x \in Control, CopyPrefs(x) PROVE Stations'
  BY <1>8, <1>15 DEF CopyPrefs, At, InPrefs
<1>16. ASSUME NEW x \in Control, ReadPrefs(x) PROVE Stations'
  <2>1. CASE prefs = Missing
    BY <1>10, <1>16, <2>1 DEF ReadPrefs
  <2>2. CASE prefs # Missing
    <3>1. /\ job'[x].op = job[x].op /\ job'[x].at = "truncate"
          /\ \A y \in Control \ {x} : job'[y] = job[y]
      BY <1>16, <2>2 DEF ReadPrefs, TypeOK, Job
    <3>2. StationOf(x) /\ prefs' = prefs /\ InPrefs(x)
      BY <1>16 DEF Stations, ReadPrefs, InPrefs
    <3>3. StationOf(x)'
      BY <2>2, <3>1, <3>2 DEF StationOf, InPrefs, InEntry
    <3> QED BY <3>1, <3>2, <3>3, OneMoves
  <2> QED BY <2>1, <2>2
<1>17. ASSUME NEW x \in Control, TruncatePrefs(x) PROVE Stations'
  <2>1. prefs # Missing
    BY <1>17 DEF TruncatePrefs, Stations, StationOf
  <2>2. prefs' # Missing
    <3>1. <<>> \in Seq(Line)
      OBVIOUS
    <3> QED BY <1>17, <3>1, SeqNotMissing DEF TruncatePrefs
  <2> QED BY <1>8, <1>17, <2>1, <2>2 DEF TruncatePrefs, At, InPrefs
<1>18. ASSUME NEW x \in Control, WritePrefs(x) PROVE Stations'
  <2>1. prefs' # Missing
    BY <1>18, SeqNotMissing DEF WritePrefs, TypeOK, Job
  <2> QED BY <1>10, <1>18, <2>1 DEF WritePrefs
<1>19. ASSUME NEW x \in Control, PrefsFail(x) PROVE Stations'
  BY <1>10, <1>19 DEF PrefsFail
<1>20. ASSUME NEW x \in Control, Purge(x) \/ DeleteTask(x) \/ DeleteRunKey(x) PROVE Stations'
  <2>1. InEntry(x) /\ prefs' = prefs
    BY <1>20 DEF Purge, DeleteTask, DeleteRunKey, InEntry
  <2>2. \/ Goto(x, "create") \/ Goto(x, "deleteTask") \/ Goto(x, "deleteRun") \/ Goto(x, "query")
        \/ x = "reset" /\ Goto(x, "default")
    BY <1>20 DEF Purge, DeleteTask, DeleteRunKey
  <2> QED BY <1>8, <2>1, <2>2 DEF At
<1>21. ASSUME NEW x \in Control, CreateTask(x) \/ AddRunKey(x) \/ Query(x) PROVE Stations'
  <2>1. InEntry(x) /\ prefs' = prefs
    BY <1>21 DEF CreateTask, AddRunKey, Query, InEntry
  <2>2. policy.task \in {"allowed", "denied", "broken"}
    BY DEF TypeOK, Policy, Home
  <2>3. Returns(x) \/ Goto(x, "query") \/ Goto(x, "add")
    BY <1>21, <2>2 DEF CreateTask, AddRunKey, Query
  <2> QED BY <1>8, <1>9, <2>1, <2>3 DEF At
<1>22. CASE TunnelEnds \/ ChangeSettings \/ PolicyChanges
  BY <1>22
  DEF TunnelEnds, ChangeSettings, PolicyChanges, Stations, StationOf, InPrefs, InEntry
<1>23. CASE SpotifySaves
  <2>1. prefs' # Missing
    <3>1. PICK v \in Value :
             prefs' = SetKey(IF prefs = Missing THEN <<>> ELSE prefs, "other", v)
      BY <1>23 DEF SpotifySaves
    <3>2. (IF prefs = Missing THEN <<>> ELSE prefs) \in Seq(Line)
      BY DEF TypeOK, Lines
    <3>3. "other" \in Key /\ [key |-> "other", val |-> v] \in Line
      BY LinesGiven
    <3>4. prefs' \in Seq(Line)
      BY <3>1, <3>2, <3>3, SetKeyHas
    <3> QED BY <3>4, SeqNotMissing
  <2> QED BY <1>23, <2>1 DEF SpotifySaves, Stations, StationOf, InPrefs, InEntry
<1>24. CASE AppEnds
  BY <1>24, IdleStation DEF AppEnds, Stations
<1>25. CASE UNCHANGED vars
  BY <1>25 DEF vars, Stations, StationOf, InPrefs, InEntry
<1> QED
  BY <1>2, <1>3, <1>4, <1>5, <1>6, <1>7, <1>11, <1>12, <1>13, <1>14, <1>15, <1>16, <1>17,
     <1>18, <1>19, <1>20, <1>21, <1>22, <1>23, <1>24, <1>25
  DEF Next, ToggleStep, PrefsStep, EntryStep
-----------------------------------------------------------------------------
(* Spotify's own settings, and the copy of its file. *)

\* Unless a write was crossed: what a command is about to write has Spotify's own
\* settings, a copy is about to be made only while there is none, and while there
\* is none what is in the file, or about to be, is the user's or mode none.
Bodies ==
    \A x \in Control :
        /\ job[x].at \in {"truncate", "write"} =>
              Rest(job[x].body) = rest /\ (backup = Missing => OfTheirs(job[x].body))
        /\ job[x].at = "copy" => backup = Missing

CopyFirst ==
    \A x \in Control :
        job[x].at \in {"read", "truncate", "write"} /\ job[x].op = "apply" => backup # Missing

Held == IF prefs = Missing THEN <<>> ELSE prefs

NoCopyYet == backup = Missing /\ (\A x \in Control : job[x].at # "write") => OfTheirs(Held)

FileInv ==
    /\ OtherLinesKept /\ BackupIsTheirs /\ CopyFirst
    /\ ~torn => /\ Bodies
                /\ \A x, y \in Control : InPrefs(x) /\ InPrefs(y) => x = y
                /\ NoCopyYet

\* Nothing of the file moves.
LEMMA FileRests ==
    ASSUME FileInv, UNCHANGED <<prefs, backup, rest, theirs, torn>>,
           \A x \in Control : InPrefs(x) \/ InPrefs(x)' => job'[x] = job[x]
    PROVE  FileInv'
<1>1. \A x \in Control : InPrefs(x)' <=> InPrefs(x)
  BY DEF InPrefs
<1>2. \A x \in Control : InPrefs(x)' => job'[x] = job[x]
  OBVIOUS
<1>3. \A x \in Control : job[x].at = "write" => job'[x].at = "write"
  BY DEF InPrefs
<1>4. OtherLinesKept'
  BY <1>3 DEF FileInv, OtherLinesKept
<1>5. BackupIsTheirs'
  BY DEF FileInv, BackupIsTheirs, OfTheirs
<1>6. CopyFirst'
  BY <1>2 DEF FileInv, CopyFirst, InPrefs
<1>7. ~torn => Bodies'
  BY <1>2 DEF FileInv, Bodies, OfTheirs, InPrefs
<1>8. ~torn => NoCopyYet'
  BY <1>3 DEF FileInv, NoCopyYet, OfTheirs, Held
<1> QED BY <1>1, <1>4, <1>5, <1>6, <1>7, <1>8 DEF FileInv

\* A command comes to the file.
LEMMA FileJoined ==
    ASSUME FileInv, UNCHANGED <<prefs, backup, rest, theirs>>, NEW x \in Control,
           ~InPrefs(x), Joins(x),
           \A y \in Control \ {x} : job'[y] = job[y],
           \/ job'[x].at = "backup"
           \/ job'[x].at = "read" /\ job'[x].op # "apply"
    PROVE  FileInv'
<1>1. torn' = (torn \/ \E y \in Control \ {x} : InPrefs(y))
  BY DEF Joins
<1>2. job[x].at # "write"
  BY DEF InPrefs
<1>3. OtherLinesKept'
  BY <1>1, <1>2 DEF FileInv, OtherLinesKept
<1>4. BackupIsTheirs'
  BY <1>1 DEF FileInv, BackupIsTheirs, OfTheirs
<1>5. CopyFirst'
  BY DEF FileInv, CopyFirst
<1>6. ~torn' => Bodies'
  BY <1>1 DEF FileInv, Bodies, OfTheirs
<1>7. ~torn' => \A y, z \in Control : InPrefs(y)' /\ InPrefs(z)' => y = z
  BY <1>1 DEF InPrefs
<1>8. ~torn' => NoCopyYet'
  BY <1>1, <1>2 DEF FileInv, NoCopyYet, OfTheirs, Held
<1> QED BY <1>1, <1>3, <1>4, <1>5, <1>6, <1>7, <1>8 DEF FileInv

\* A command leaves the file, having written nothing.
LEMMA FileLeft ==
    ASSUME FileInv, UNCHANGED <<prefs, backup, rest, theirs>>, NEW x \in Control, ~InPrefs(x)',
           \A y \in Control \ {x} : job'[y] = job[y],
           torn' = (torn \/ job[x].at = "write")
    PROVE  FileInv'
<1>1. \A y \in Control : InPrefs(y)' => job'[y] = job[y]
  OBVIOUS
<1>2. OtherLinesKept'
  BY DEF FileInv, OtherLinesKept
<1>3. BackupIsTheirs'
  BY DEF FileInv, BackupIsTheirs, OfTheirs
<1>4. CopyFirst'
  BY <1>1 DEF FileInv, CopyFirst, InPrefs
<1>5. ~torn' => Bodies'
  BY <1>1 DEF FileInv, Bodies, OfTheirs, InPrefs
<1>6. ~torn' => \A y, z \in Control : InPrefs(y)' /\ InPrefs(z)' => y = z
  BY <1>1 DEF FileInv, InPrefs
<1>7. ~torn' => NoCopyYet'
  BY DEF FileInv, NoCopyYet, OfTheirs, Held
<1> QED BY <1>2, <1>3, <1>4, <1>5, <1>6, <1>7 DEF FileInv

LEMMA FilePrefsStep ==
    ASSUME TypeOK, Stations, FileInv, NEW x \in Control, PrefsStep(x)
    PROVE  FileInv'
<1> USE DEF spotify, history
<1>0. ~torn => \A y \in Control \ {x} : InPrefs(x) => ~InPrefs(y)
  BY DEF FileInv
<1>a. UNCHANGED theirs
  BY DEF PrefsStep, LookForBackup, CopyPrefs, ReadPrefs, TruncatePrefs, WritePrefs, PrefsFail
<1> USE <1>a
<1>1. CASE LookForBackup(x)
  <2>1. InPrefs(x) /\ job[x].at = "backup" /\ UNCHANGED <<prefs, backup, rest, torn>>
    BY <1>1 DEF LookForBackup, InPrefs
  <2>2. CASE Returns(x)
    <3>1. ~InPrefs(x)' /\ \A y \in Control \ {x} : job'[y] = job[y]
      BY <2>2, ReturnsIs DEF InPrefs, Idle
    <3>2. torn' = (torn \/ job[x].at = "write")
      BY <2>1 DEF TypeOK
    <3> QED BY <2>1, <3>1, <3>2, FileLeft
  <2>3. ASSUME NEW at \in At, Goto(x, at),
               \/ at = "copy" /\ backup = Missing
               \/ at = "read" /\ backup # Missing
        PROVE  FileInv'
    <3>1. job'[x].at = at /\ \A y \in Control \ {x} : job'[y] = job[y]
      BY <2>3, GotoIs
    <3>2. \A y \in Control : InPrefs(y)' <=> InPrefs(y)
      BY <2>1, <2>3, <3>1 DEF InPrefs
    <3>3. \A y \in Control : job[y].at = "write" <=> job'[y].at = "write"
      BY <2>1, <2>3, <3>1
    <3>4. OtherLinesKept'
      BY <2>1, <3>3 DEF FileInv, OtherLinesKept
    <3>5. BackupIsTheirs'
      BY <2>1 DEF FileInv, BackupIsTheirs, OfTheirs
    <3>6. CopyFirst'
      BY <2>1, <2>3, <3>1 DEF FileInv, CopyFirst
    <3>7. ~torn' => Bodies'
      BY <2>1, <2>3, <3>1 DEF FileInv, Bodies, OfTheirs
    <3>8. ~torn' => NoCopyYet'
      BY <2>1, <3>3 DEF FileInv, NoCopyYet, OfTheirs, Held
    <3> QED BY <2>1, <3>2, <3>4, <3>5, <3>6, <3>7, <3>8 DEF FileInv
  <2>4. \/ Returns(x)
        \/ Goto(x, "copy") /\ backup = Missing
        \/ Goto(x, "read") /\ backup # Missing
    BY <1>1 DEF LookForBackup
  <2> QED BY <2>2, <2>3, <2>4 DEF At
<1>2. CASE CopyPrefs(x)
  <2>1. /\ InPrefs(x) /\ job[x].at = "copy" /\ UNCHANGED <<prefs, rest, torn>>
        /\ backup' = prefs /\ prefs # Missing
    BY <1>2 DEF CopyPrefs, InPrefs, Stations, StationOf
  <2>2. job'[x].at = "read" /\ \A y \in Control \ {x} : job'[y] = job[y]
    BY <1>2, GotoIs DEF CopyPrefs, At
  <2>3. \A y \in Control : InPrefs(y)' <=> InPrefs(y)
    BY <2>1, <2>2 DEF InPrefs
  <2>4. OtherLinesKept'
    BY <2>1, <2>2 DEF FileInv, OtherLinesKept
  <2>5. BackupIsTheirs'
    <3>1. ~torn => \A y \in Control : job[y].at # "write"
      BY <1>0, <2>1 DEF InPrefs
    <3>2. ~torn => backup = Missing
      BY <2>1 DEF FileInv, Bodies
    <3>3. ~torn => OfTheirs(prefs)
      BY <2>1, <3>1, <3>2 DEF FileInv, NoCopyYet, Held
    <3> QED BY <2>1, <3>3 DEF BackupIsTheirs, OfTheirs
  <2>6. CopyFirst'
    BY <2>1 DEF CopyFirst
  <2>7. ~torn' => Bodies'
    BY <1>0, <2>1, <2>2 DEF Bodies, InPrefs
  <2> QED BY <2>1, <2>3, <2>4, <2>5, <2>6, <2>7 DEF FileInv, NoCopyYet
<1>3. CASE ReadPrefs(x)
  <2>1. InPrefs(x) /\ job[x].at = "read" /\ UNCHANGED <<prefs, backup, rest, torn>>
    BY <1>3 DEF ReadPrefs, InPrefs
  <2>2. CASE prefs = Missing
    <3>1. ~InPrefs(x)' /\ \A y \in Control \ {x} : job'[y] = job[y]
      BY <1>3, <2>2, PrefsDoneIs DEF ReadPrefs, InPrefs
    <3>2. torn' = (torn \/ job[x].at = "write")
      BY <2>1 DEF TypeOK
    <3> QED BY <2>1, <3>1, <3>2, FileLeft
  <2>3. CASE prefs # Missing
    <3> DEFINE body == IF job[x].op = "apply" THEN Applied(prefs, job[x].port)
                                               ELSE Restored(prefs)
    <3>1. /\ job'[x].op = job[x].op /\ job'[x].at = "truncate" /\ job'[x].body = body
          /\ \A y \in Control \ {x} : job'[y] = job[y]
      BY <1>3, <2>3 DEF ReadPrefs, TypeOK, Job
    <3>2. prefs \in Seq(Line) /\ job[x].port \in Port
      BY <2>3 DEF TypeOK, Lines, Job
    <3>3. Rest(body) = Rest(prefs)
      BY <3>2, AppliedKeeps, RestoredKeeps
    <3>4. ~torn => Rest(body) = rest
      <4>1. ~torn => \A y \in Control : job[y].at # "write"
        BY <1>0, <2>1 DEF InPrefs
      <4> QED BY <2>3, <3>3, <4>1 DEF FileInv, OtherLinesKept
    <3>5. ~torn /\ backup = Missing => OfTheirs(body)
      <4>1. backup = Missing => job[x].op # "apply"
        BY <2>1 DEF FileInv, CopyFirst
      <4>2. ~torn => \A y \in Control : job[y].at # "write"
        BY <1>0, <2>1 DEF InPrefs
      <4>3. ~torn /\ backup = Missing => OfTheirs(prefs)
        BY <2>3, <4>2 DEF FileInv, NoCopyYet, Held
      <4> QED BY <3>2, <4>1, <4>3, OfTheirsKept
    <3> HIDE DEF body
    <3>6. \A y \in Control : InPrefs(y)' <=> InPrefs(y)
      BY <2>1, <3>1 DEF InPrefs
    <3>7. OtherLinesKept'
      BY <2>1, <3>1 DEF FileInv, OtherLinesKept
    <3>8. BackupIsTheirs'
      BY <2>1 DEF FileInv, BackupIsTheirs, OfTheirs
    <3>9. CopyFirst'
      BY <2>1, <3>1 DEF FileInv, CopyFirst
    <3>10. ~torn' => Bodies'
      BY <2>1, <3>1, <3>4, <3>5 DEF FileInv, Bodies, OfTheirs
    <3>11. ~torn' => NoCopyYet'
      BY <2>1, <3>1 DEF FileInv, NoCopyYet, OfTheirs, Held
    <3> QED BY <2>1, <3>6, <3>7, <3>8, <3>9, <3>10, <3>11 DEF FileInv
  <2> QED BY <2>2, <2>3
<1>4. CASE TruncatePrefs(x)
  <2>1. /\ InPrefs(x) /\ job[x].at = "truncate" /\ UNCHANGED <<backup, rest, torn>>
        /\ prefs' = <<>>
    BY <1>4 DEF TruncatePrefs, InPrefs
  <2>2. /\ job'[x].at = "write" /\ job'[x].op = job[x].op /\ job'[x].body = job[x].body
        /\ \A y \in Control \ {x} : job'[y] = job[y]
    BY <1>4, GotoIs DEF TruncatePrefs, At
  <2>3. \A y \in Control : InPrefs(y)' <=> InPrefs(y)
    BY <2>1, <2>2 DEF InPrefs
  <2>4. OtherLinesKept'
    BY <2>2 DEF OtherLinesKept
  <2>5. BackupIsTheirs'
    BY <2>1 DEF FileInv, BackupIsTheirs, OfTheirs
  <2>6. CopyFirst'
    BY <2>1, <2>2 DEF FileInv, CopyFirst
  <2>7. ~torn' => Bodies'
    BY <2>1, <2>2 DEF FileInv, Bodies, OfTheirs
  <2>8. NoCopyYet'
    BY <2>2 DEF NoCopyYet
  <2> QED BY <2>1, <2>3, <2>4, <2>5, <2>6, <2>7, <2>8 DEF FileInv
<1>5. CASE WritePrefs(x)
  <2>1. /\ InPrefs(x) /\ job[x].at = "write" /\ UNCHANGED <<backup, rest, torn>>
        /\ prefs' = job[x].body
    BY <1>5 DEF WritePrefs, InPrefs
  <2>2. ~InPrefs(x)' /\ \A y \in Control \ {x} : job'[y] = job[y]
    BY <1>5, PrefsDoneIs DEF WritePrefs, InPrefs
  <2>3. \A y \in Control : InPrefs(y)' => InPrefs(y) /\ job'[y] = job[y]
    BY <2>1, <2>2 DEF InPrefs
  <2>4. ~torn => Rest(prefs') = rest /\ (backup = Missing => OfTheirs(prefs'))
    BY <2>1 DEF FileInv, Bodies
  <2>5. OtherLinesKept'
    BY <2>1, <2>4 DEF OtherLinesKept
  <2>6. BackupIsTheirs'
    BY <2>1 DEF FileInv, BackupIsTheirs, OfTheirs
  <2>7. CopyFirst'
    BY <2>1, <2>3 DEF FileInv, CopyFirst, InPrefs
  <2>8. ~torn' => Bodies'
    BY <2>1, <2>3 DEF FileInv, Bodies, OfTheirs, InPrefs
  <2>9. ~torn' => NoCopyYet'
    <3>1. prefs' # Missing
      BY <2>1, SeqNotMissing DEF TypeOK, Job
    <3> QED BY <2>1, <2>4, <3>1 DEF NoCopyYet, OfTheirs, Held
  <2> QED BY <2>1, <2>3, <2>4, <2>5, <2>6, <2>7, <2>8, <2>9 DEF FileInv
<1>6. CASE PrefsFail(x)
  <2>1. ~InPrefs(x)' /\ \A y \in Control \ {x} : job'[y] = job[y]
    BY <1>6, PrefsDoneIs DEF PrefsFail, InPrefs
  <2>2. UNCHANGED <<prefs, backup, rest>> /\ torn' = (torn \/ job[x].at = "write")
    BY <1>6 DEF PrefsFail
  <2> QED BY <2>1, <2>2, FileLeft
<1> QED BY <1>1, <1>2, <1>3, <1>4, <1>5, <1>6 DEF PrefsStep

LEMMA FileStep == TypeOK /\ Stations /\ FileInv /\ [Next]_vars => FileInv'
<1> SUFFICES ASSUME TypeOK, Stations, FileInv, [Next]_vars PROVE FileInv'
  OBVIOUS
<1> USE DEF spotify, startup, bounds, history
<1>1. ASSUME NEW x \in Control, NEW op \in Op, NEW at \in At, Press(x, op, at), Joins(x),
             UNCHANGED <<prefs, backup, rest, theirs>>,
             at = "backup" \/ (at = "read" /\ op = "restore")
      PROVE  FileInv'
  <2>1. /\ job[x] = Idle /\ job'[x].at = at /\ job'[x].op = op
        /\ \A y \in Control \ {x} : job'[y] = job[y]
    BY <1>1, PressIs
  <2>2. ~InPrefs(x)
    BY <2>1 DEF InPrefs, Idle
  <2> QED BY <1>1, <2>1, <2>2, FileJoined
\* A step that begins and ends away from the file.
<1>2. ASSUME NEW x \in Control, ~InPrefs(x), ~InPrefs(x)',
             \A y \in Control \ {x} : job'[y] = job[y],
             UNCHANGED <<prefs, backup, rest, theirs, torn>>
      PROVE  FileInv'
  BY <1>2, FileRests
<1>3. CASE PressFix
  <2>1. /\ Press("fix", "apply", "backup") /\ Joins("fix")
        /\ UNCHANGED <<prefs, backup, rest, theirs>>
        /\ "fix" \in Control /\ "apply" \in Op /\ "backup" \in At
    BY <1>3, ControlsAre DEF PressFix, Op, At
  <2> QED BY <1>1, <2>1
<1>4. CASE PressOff
  <2>1. /\ Press("off", "restore", "read") /\ Joins("off")
        /\ UNCHANGED <<prefs, backup, rest, theirs>>
        /\ "off" \in Control /\ "restore" \in Op /\ "read" \in At
    BY <1>4, ControlsAre DEF PressOff, Op, At
  <2> QED BY <1>1, <2>1
<1>5. ASSUME NEW c \in Toggle, PressConnect(c) \/ PressDisconnect(c) PROVE FileInv'
  <2>1. /\ job[c] = Idle /\ job'[c].at \in {"preflight", "stop"} /\ c \in Control
        /\ \A y \in Control \ {c} : job'[y] = job[y]
    BY <1>5, PressIs, ControlsAre DEF PressConnect, PressDisconnect, Op, At
  <2> QED BY <1>2, <1>5, <2>1 DEF PressConnect, PressDisconnect, InPrefs, Idle
<1>6. ASSUME NEW c \in Toggle, Disconnect(c) PROVE FileInv'
  <2>1. /\ ~InPrefs(c) /\ UNCHANGED <<prefs, backup, rest, theirs>> /\ c \in Control
        /\ \A y \in Control \ {c} : job'[y] = job[y]
    BY <1>6, DisconnectIs, ControlsAre DEF Disconnect, InPrefs
  <2>2. CASE cfg.manage
    <3>1. job'[c].at = "read" /\ job'[c].op = "restore" /\ Joins(c)
      BY <1>6, <2>2, DisconnectIs DEF Disconnect
    <3> QED BY <2>1, <3>1, FileJoined
  <2>3. CASE ~cfg.manage
    <3>1. job'[c] = Idle /\ UNCHANGED torn
      BY <1>6, <2>3, DisconnectIs DEF Disconnect
    <3> QED BY <1>2, <2>1, <3>1 DEF InPrefs, Idle
  <2> QED BY <2>2, <2>3
<1>7. CASE PressReset
  <2>1. CASE cfg.manage
    BY <1>1, <1>7, <2>1, ControlsAre DEF PressReset, Op, At
  <2>2. CASE ~cfg.manage
    <3>1. Press("reset", "restore", "purge") /\ UNCHANGED <<prefs, backup, rest, theirs, torn>>
      BY <1>7, <2>2 DEF PressReset
    <3>2. /\ job["reset"] = Idle /\ job'["reset"].at = "purge"
          /\ \A y \in Control \ {"reset"} : job'[y] = job[y]
      BY <3>1, PressIs, ControlsAre DEF Op, At
    <3> QED BY <1>2, <3>1, <3>2, ControlsAre DEF InPrefs, Idle
  <2> QED BY <2>1, <2>2
<1>8. ASSUME NEW x \in Control, ~InPrefs(x), Returns(x),
             UNCHANGED <<prefs, backup, rest, theirs, torn>>
      PROVE  FileInv'
  BY <1>2, <1>8, ReturnsIs DEF InPrefs, Idle
<1>9. ASSUME NEW c \in Toggle, ConnectFails(c) PROVE FileInv'
  BY <1>8, <1>9, ControlsAre DEF ConnectFails, InPrefs
<1>10. ASSUME NEW c \in Toggle, Connect(c) PROVE FileInv'
  <2>1. ~InPrefs(c) /\ UNCHANGED <<prefs, backup, rest, theirs>> /\ c \in Control
    BY <1>10, ControlsAre DEF Connect, InPrefs
  <2>2. CASE job[c].op = "apply"
    <3>1. Goto(c, "backup") /\ Joins(c)
      BY <1>10, <2>2 DEF Connect
    <3> QED BY <2>1, <3>1, GotoIs, FileJoined DEF At
  <2>3. CASE job[c].op # "apply"
    BY <1>8, <1>10, <2>1, <2>3 DEF Connect
  <2> QED BY <2>2, <2>3
<1>11. CASE ResetDone
  BY <1>8, <1>11, ControlsAre DEF ResetDone, InPrefs
<1>12. CASE TunnelEnds \/ ChangeSettings \/ PolicyChanges
  <2>1. UNCHANGED <<prefs, backup, rest, theirs, torn, job>>
    BY <1>12 DEF TunnelEnds, ChangeSettings, PolicyChanges
  <2> QED BY <2>1, FileRests
<1>13. ASSUME NEW x \in Control, EntryStep(x) PROVE FileInv'
  <2>1. ~InPrefs(x) /\ UNCHANGED <<prefs, backup, rest, theirs, torn>>
    BY <1>13
    DEF EntryStep, Purge, CreateTask, AddRunKey, DeleteTask, DeleteRunKey, Query, InPrefs
  <2>2. policy.task \in {"allowed", "denied", "broken"}
    BY DEF TypeOK, Policy, Home
  <2>3. Returns(x) \/ \E at \in {"create", "deleteTask", "query", "add", "deleteRun", "default"} :
                         Goto(x, at)
    BY <1>13, <2>2
    DEF EntryStep, Purge, CreateTask, AddRunKey, DeleteTask, DeleteRunKey, Query
  <2>4. ASSUME NEW at \in {"create", "deleteTask", "query", "add", "deleteRun", "default"},
               Goto(x, at)
        PROVE  FileInv'
    <3>1. job'[x].at = at /\ \A y \in Control \ {x} : job'[y] = job[y]
      BY <2>4, GotoIs DEF At
    <3>2. ~InPrefs(x)'
      BY <3>1 DEF InPrefs
    <3> QED BY <1>2, <2>1, <3>1, <3>2
  <2> QED BY <1>8, <2>1, <2>3, <2>4
<1>14. ASSUME NEW b \in Box, PressBox(b) PROVE FileInv'
  <2>1. /\ job[b] = Idle /\ job'[b].at = "purge" /\ b \in Control
        /\ \A y \in Control \ {b} : job'[y] = job[y]
    BY <1>14, PressIs, ControlsAre DEF PressBox, Op, At
  <2> QED BY <1>2, <1>14, <2>1 DEF PressBox, InPrefs, Idle
<1>15. CASE SpotifySaves
  <2> DEFINE lines == IF prefs = Missing THEN <<>> ELSE prefs
  <2>1. PICK v \in Value : prefs' = SetKey(lines, "other", v)
    BY <1>15 DEF SpotifySaves
  <2>2. lines \in Seq(Line)
    BY DEF TypeOK, Lines
  <2>3. "other" \in Key /\ [key |-> "other", val |-> v] \in Line
    BY LinesGiven
  <2>4. torn' = (torn \/ \E x \in Control : InPrefs(x))
    BY <1>15 DEF SpotifySaves
  <2>5. rest' = Rest(prefs') /\ UNCHANGED <<backup, theirs, job>>
    BY <1>15 DEF SpotifySaves
  <2>6. prefs' # Missing
    BY <2>1, <2>2, <2>3, SetKeyHas, SeqNotMissing
  <2>7. ~torn' => NoCopyYet'
    <3>1. ~torn' => NoCopyYet /\ \A x \in Control : job[x].at # "write"
      BY <2>4 DEF FileInv, InPrefs
    <3>2. ~torn' /\ backup = Missing => OfTheirs(lines)
      BY <3>1 DEF NoCopyYet, Held
    <3>3. OfTheirs(lines) => OfTheirs(prefs')
      <4> HIDE DEF lines
      <4> QED BY <2>1, <2>2, OfTheirsKept
    <3> HIDE DEF lines
    <3> QED BY <2>5, <2>6, <3>2, <3>3 DEF NoCopyYet, OfTheirs, Held
  <2>8. OtherLinesKept'
    BY <2>5 DEF OtherLinesKept
  <2>9. BackupIsTheirs'
    BY <2>4, <2>5 DEF FileInv, BackupIsTheirs, OfTheirs
  <2>10. CopyFirst'
    BY <2>5 DEF FileInv, CopyFirst
  <2>11. ~torn' => /\ Bodies'
                   /\ \A x, y \in Control : InPrefs(x)' /\ InPrefs(y)' => x = y
    BY <2>4, <2>5 DEF Bodies, InPrefs
  <2> QED BY <2>7, <2>8, <2>9, <2>10, <2>11 DEF FileInv
<1>16. CASE AppEnds
  <2>1. /\ \A x \in Control : job'[x] = Idle
        /\ UNCHANGED <<prefs, backup, rest, theirs>>
        /\ torn' = (torn \/ \E x \in Control : job[x].at = "write")
    BY <1>16 DEF AppEnds
  <2>2. \A x \in Control : job'[x].at = "idle"
    BY <2>1 DEF Idle
  <2>3. OtherLinesKept'
    BY <2>1 DEF FileInv, OtherLinesKept
  <2>4. BackupIsTheirs'
    BY <2>1 DEF FileInv, BackupIsTheirs, OfTheirs
  <2>5. CopyFirst' /\ Bodies' /\ \A x \in Control : ~InPrefs(x)'
    BY <2>2 DEF CopyFirst, Bodies, InPrefs
  <2>6. ~torn' => NoCopyYet'
    BY <2>1 DEF FileInv, NoCopyYet, OfTheirs, Held
  <2> QED BY <2>1, <2>3, <2>4, <2>5, <2>6 DEF FileInv
<1>17. CASE UNCHANGED vars
  <2>1. UNCHANGED <<prefs, backup, rest, theirs, torn, job>>
    BY <1>17 DEF vars
  <2> QED BY <2>1, FileRests
<1>18. ASSUME NEW x \in Control, PrefsStep(x) PROVE FileInv'
  BY <1>18, FilePrefsStep
<1> QED
  BY <1>3, <1>4, <1>5, <1>6, <1>7, <1>9, <1>10, <1>11, <1>12, <1>13, <1>14, <1>15, <1>16,
     <1>17, <1>18
  DEF Next, ToggleStep
-----------------------------------------------------------------------------
(* The start-up entry. *)

\* A control whose command changes the entry, or decided to when the checkbox
\* turned; and one whose command is to add it.
Changing(x) ==
    \/ job[x].at \in {"create", "add", "deleteTask", "deleteRun", "query", "default"}
    \/ x \in Box /\ job[x].at = "purge"

Adding(x) ==
    \/ job[x].at \in {"create", "add"}
    \/ job[x].at = "purge" /\ job[x].op = "enable"

EntryInv ==
    ~mixed =>
        /\ \A x, y \in Control : Changing(x) /\ Changing(y) => x = y
        /\ (\A x \in Control : ~Changing(x)) => (box => entry # {})
        /\ ~blind =>
              /\ entry # Home
              /\ (\A x \in Control : ~Changing(x)) => (entry # {} => box)
              /\ \A x \in Control : Adding(x) => entry = {}

LEMMA AddingChanges == Stations => \A y \in Control : Adding(y) => Changing(y)
<1> SUFFICES ASSUME Stations, NEW x \in Control, Adding(x) PROVE Changing(x)
  OBVIOUS
<1>1. StationOf(x)
  BY DEF Stations
<1>2. job[x].at = "purge" /\ job[x].op = "enable" => x \in Box
  BY <1>1 DEF StationOf, InEntry
<1> QED BY <1>2 DEF Adding, Changing

LEMMA AddingChangesNext == Stations' => \A y \in Control : Adding(y)' => Changing(y)'
<1>1. (Stations => \A y \in Control : Adding(y) => Changing(y))'
  BY AddingChanges, PTL
<1> QED BY <1>1

\* Nobody moves who changes the entry.
LEMMA EntryRests ==
    ASSUME EntryInv, Stations', UNCHANGED <<entry, box, mixed, blind>>,
           \A x \in Control : Changing(x) \/ Changing(x)' => job'[x] = job[x]
    PROVE  EntryInv'
<1>1. \A x \in Control : Changing(x)' <=> Changing(x)
  BY DEF Changing
<1>2. \A x \in Control : Adding(x)' => Adding(x)
  <2>1. \A y \in Control : Adding(y)' => Changing(y)'
    BY AddingChangesNext
  <2> QED BY <2>1 DEF Adding
<1> QED BY <1>1, <1>2 DEF EntryInv

\* One control moves, and no other changes the entry.
LEMMA EntryMoves ==
    ASSUME Stations', NEW x \in Control,
           ~mixed' => \A y \in Control \ {x} : ~Changing(y) /\ job'[y] = job[y],
           ~mixed' => Changing(x)' \/ (box' => entry' # {}),
           ~mixed' /\ ~blind' => /\ entry' # Home
                                 /\ Changing(x)' \/ (entry' # {} => box')
                                 /\ Adding(x)' => entry' = {}
    PROVE  EntryInv'
<1> SUFFICES ASSUME ~mixed' PROVE EntryInv'
  BY DEF EntryInv
<1>1. \A y \in Control \ {x} : ~Changing(y)'
  BY DEF Changing
<1>2. \A y \in Control : Adding(y)' => Changing(y)'
  BY AddingChangesNext
<1>3. ~blind' => \A y \in Control : Adding(y)' => entry' = {}
  BY <1>1, <1>2
<1>4. (\A y \in Control : ~Changing(y)') => (box' => entry' # {})
  OBVIOUS
<1>5. ~blind' => ((\A y \in Control : ~Changing(y)') => (entry' # {} => box'))
  OBVIOUS
<1> QED BY <1>1, <1>3, <1>4, <1>5 DEF EntryInv

\* What is_enabled() finds: an entry that is there, and where every home answers
\* all there is.
LEMMA LookIs ==
    ASSUME TypeOK, Look, UNCHANGED entry
    PROVE  /\ box' => entry' # {}
           /\ ~blind' => /\ entry' # {} => box'
                         /\ ~blind \/ entry' # Home
<1>1. entry \subseteq Home
  BY DEF TypeOK
<1>2. box' => entry' # {}
  BY DEF Look
<1>3. ~blind' => (entry' # {} => box')
  BY <1>1 DEF Look
<1>4. ~blind' => ~blind \/ entry' # Home
  BY DEF Look
<1> QED BY <1>2, <1>3, <1>4

LEMMA EntryEntryStep ==
    ASSUME TypeOK, Stations, Stations', EntryInv, NEW x \in Control, EntryStep(x)
    PROVE  EntryInv'
<1> USE DEF startup, history
<1>1. /\ entry \subseteq Home /\ box \in BOOLEAN /\ mixed \in BOOLEAN /\ blind \in BOOLEAN
      /\ policy.task \in {"allowed", "denied", "broken"}
  BY DEF TypeOK, Policy, Home
<1>2. ASSUME ~mixed, Changing(x)
      PROVE  (~blind => entry # Home) /\ \A y \in Control \ {x} : ~Changing(y)
  BY <1>2 DEF EntryInv
\* x changed the entry before, and goes on.
<1>3. ASSUME Changing(x), UNCHANGED <<mixed, blind>>, \A y \in Control \ {x} : job'[y] = job[y],
             ~mixed /\ ~blind => entry' # Home,
             job'[x].at \in {"add", "query", "deleteRun", "default"},
             ~mixed /\ ~blind /\ job'[x].at = "add" => entry' = {}
      PROVE  EntryInv'
  <2>1. Changing(x)'
    BY <1>3 DEF Changing
  <2>2. ~mixed' /\ ~blind' /\ Adding(x)' => entry' = {}
    BY <1>3 DEF Adding
  <2>3. ~mixed' => \A y \in Control \ {x} : ~Changing(y) /\ job'[y] = job[y]
    BY <1>2, <1>3
  <2> QED BY <1>3, <2>1, <2>2, <2>3, EntryMoves
\* x changed the entry before, and is done.
<1>a. ASSUME Changing(x), UNCHANGED mixed, Returns(x),
             ~mixed => (box' => entry' # {}),
             ~mixed /\ ~blind' => entry' # Home /\ (entry' # {} => box')
      PROVE  EntryInv'
  <2>1. job'[x] = Idle /\ \A y \in Control \ {x} : job'[y] = job[y]
    BY <1>a, ReturnsIs
  <2>2. ~Adding(x)'
    BY <2>1 DEF Adding, Idle
  <2>3. ~mixed' => \A y \in Control \ {x} : ~Changing(y) /\ job'[y] = job[y]
    BY <1>2, <1>a, <2>1
  <2> QED BY <1>a, <2>2, <2>3, EntryMoves
<1>4. CASE Purge(x)
  <2>1. /\ mixed' = (mixed \/ \E y \in Control \ {x} : InEntry(y) \/ job[y].at = "default")
        /\ job[x].at = "purge" /\ UNCHANGED <<entry, box, blind>>
    BY <1>4 DEF Purge, Mixes
  <2>2. /\ \A y \in Control \ {x} : job'[y] = job[y]
        /\ job'[x].at = IF job[x].op = "enable" THEN "create" ELSE "deleteTask"
    BY <1>4, GotoIs DEF Purge, At
  <2> SUFFICES ASSUME ~mixed' PROVE EntryInv'
    BY DEF EntryInv
  <2>3. \A y \in Control \ {x} : ~Changing(y)
    BY <2>1 DEF Changing, InEntry
  <2>4. ~blind' => entry' # Home
    BY <2>1 DEF EntryInv
  <2>5. Changing(x)'
    BY <2>2 DEF Changing
  <2>6. ~blind' => (Adding(x)' => entry' = {})
    BY <2>1, <2>2 DEF Adding, EntryInv
  <2> QED BY <2>2, <2>3, <2>4, <2>5, <2>6, EntryMoves
<1>5. ASSUME CreateTask(x) \/ AddRunKey(x) PROVE EntryInv'
  <2>1. /\ Changing(x) /\ UNCHANGED <<mixed, blind>>
        /\ (~mixed /\ ~blind => entry = {})
    BY <1>5 DEF CreateTask, AddRunKey, Changing, Adding, EntryInv
  <2>2. \/ Goto(x, "query") /\ entry' \in {entry \cup {"task"}, entry \cup {"run"}}
        \/ Goto(x, "add") /\ entry' = entry
        \/ Returns(x) /\ entry' = entry /\ box' = FALSE
    BY <1>1, <1>5 DEF CreateTask, AddRunKey
  <2>3. ~mixed /\ ~blind => entry' # Home
    BY <2>1, <2>2 DEF Home
  <2>4. CASE Goto(x, "query")
    BY <1>3, <2>1, <2>3, <2>4, GotoIs DEF At
  <2>5. CASE Goto(x, "add") /\ entry' = entry
    BY <1>3, <2>1, <2>3, <2>5, GotoIs DEF At
  <2>6. CASE Returns(x) /\ entry' = entry /\ box' = FALSE
    BY <1>a, <2>1, <2>3, <2>6
  <2> QED BY <2>2, <2>4, <2>5, <2>6
<1>6. ASSUME DeleteTask(x) \/ DeleteRunKey(x) PROVE EntryInv'
  <2>1. Changing(x) /\ UNCHANGED <<mixed, blind>> /\ entry' \subseteq entry
    BY <1>6 DEF DeleteTask, DeleteRunKey, Changing
  <2>2. ~mixed /\ ~blind => entry' # Home
    BY <1>1, <1>2, <2>1
  <2>3. Goto(x, "deleteRun") \/ Goto(x, "default") \/ Goto(x, "query")
    BY <1>6 DEF DeleteTask, DeleteRunKey
  <2>4. /\ job'[x].at \in {"deleteRun", "default", "query"}
        /\ \A y \in Control \ {x} : job'[y] = job[y]
    BY <2>3, GotoIs DEF At
  <2> QED BY <1>3, <2>1, <2>2, <2>4
<1>7. CASE Query(x)
  <2>1. Changing(x) /\ UNCHANGED <<mixed, entry>> /\ Look /\ Returns(x)
    BY <1>7 DEF Query, Changing
  <2>2. /\ box' => entry' # {}
        /\ ~blind' => (entry' # {} => box') /\ (~blind \/ entry' # Home)
    BY <2>1, LookIs
  <2>3. ~mixed /\ ~blind => entry' # Home
    BY <1>2, <2>1
  <2> QED BY <1>a, <2>1, <2>2, <2>3
<1> QED BY <1>4, <1>5, <1>6, <1>7 DEF EntryStep

LEMMA EntryNext == TypeOK /\ Stations /\ Stations' /\ EntryInv /\ [Next]_vars => EntryInv'
<1> SUFFICES ASSUME TypeOK, Stations, Stations', EntryInv, [Next]_vars PROVE EntryInv'
  OBVIOUS
<1> USE DEF startup, history
<1>1. box \in BOOLEAN /\ mixed \in BOOLEAN /\ blind \in BOOLEAN /\ entry \subseteq Home
  BY DEF TypeOK
\* A step of a control that is not at the entry, before or after.
<1>2. ASSUME NEW x \in Control, \A y \in Control \ {x} : job'[y] = job[y],
             ~Changing(x), ~Changing(x)', UNCHANGED <<entry, box, mixed, blind>>
      PROVE  EntryInv'
  BY <1>2, EntryRests
<1>3. ASSUME NEW x \in Control \ Box, NEW op \in Op, NEW at \in At, Press(x, op, at),
             at \in {"backup", "read", "preflight", "stop", "purge"},
             UNCHANGED <<entry, box, mixed, blind>>
      PROVE  EntryInv'
  <2>1. /\ job[x] = Idle /\ job'[x].at = at
        /\ \A y \in Control \ {x} : job'[y] = job[y]
    BY <1>3, PressIs
  <2>2. ~Changing(x) /\ ~Changing(x)'
    BY <1>3, <2>1 DEF Changing, Idle
  <2> QED BY <1>2, <1>3, <2>1, <2>2
<1>4. {"fix", "off", "reset"} \cup Toggle \subseteq Control \ Box
  BY DEF Control
<1>5. CASE PressFix \/ PressOff \/ PressReset
  BY <1>3, <1>4, <1>5 DEF PressFix, PressOff, PressReset, Op, At
<1>6. ASSUME NEW c \in Toggle, PressConnect(c) \/ PressDisconnect(c) PROVE EntryInv'
  BY <1>3, <1>4, <1>6 DEF PressConnect, PressDisconnect, Op, At
<1>7. ASSUME NEW c \in Toggle, ConnectFails(c) \/ Connect(c) \/ Disconnect(c) PROVE EntryInv'
  <2>1. /\ c \in Control \ Box /\ job[c].at \in {"preflight", "stop"}
        /\ UNCHANGED <<entry, box, mixed, blind>>
    BY <1>4, <1>7 DEF ConnectFails, Connect, Disconnect
  <2>2. /\ job'[c].at \in {"backup", "read", "idle"}
        /\ \A y \in Control \ {c} : job'[y] = job[y]
    <3>1. CASE ConnectFails(c) \/ Connect(c)
      <4>1. Goto(c, "backup") \/ Returns(c)
        BY <3>1 DEF ConnectFails, Connect
      <4> QED BY <2>1, <4>1, GotoIs, ReturnsIs DEF At, Idle
    <3>2. CASE Disconnect(c)
      BY <3>2, DisconnectIs DEF Idle
    <3> QED BY <1>7, <3>1, <3>2
  <2>3. ~Changing(c) /\ ~Changing(c)'
    BY <2>1, <2>2 DEF Changing
  <2> QED BY <1>2, <2>1, <2>2, <2>3
<1>8. CASE ResetDone
  <2>1. Changing("reset") /\ UNCHANGED <<mixed, entry>> /\ Look /\ Returns("reset")
    BY <1>8 DEF ResetDone, Changing
  <2>2. job'["reset"] = Idle /\ \A y \in Control \ {"reset"} : job'[y] = job[y]
    BY <1>4, <2>1, ReturnsIs
  <2> SUFFICES ASSUME ~mixed' PROVE EntryInv'
    BY DEF EntryInv
  <2>3. (~blind => entry' # Home) /\ \A y \in Control \ {"reset"} : ~Changing(y)
    BY <1>4, <2>1 DEF EntryInv
  <2>4. ~Adding("reset")'
    BY <2>2 DEF Adding, Idle
  <2>5. /\ box' => entry' # {}
        /\ ~blind' => (entry' # {} => box') /\ (~blind \/ entry' # Home)
    BY <2>1, LookIs
  <2> QED BY <1>4, <2>2, <2>3, <2>4, <2>5, EntryMoves
<1>9. CASE TunnelEnds \/ ChangeSettings \/ PolicyChanges \/ SpotifySaves \/ UNCHANGED vars
  <2>1. UNCHANGED <<entry, box, mixed, blind, job>>
    BY <1>9 DEF TunnelEnds, ChangeSettings, PolicyChanges, SpotifySaves, vars
  <2> QED BY <2>1, EntryRests
<1>10. ASSUME NEW x \in Control, PrefsStep(x) PROVE EntryInv'
  <2>1. /\ InPrefs(x) /\ UNCHANGED <<entry, box, mixed, blind>>
    BY <1>10
    DEF PrefsStep, LookForBackup, CopyPrefs, ReadPrefs, TruncatePrefs, WritePrefs, PrefsFail,
        InPrefs
  <2>2. x \notin Box
    BY <2>1 DEF Stations, StationOf
  <2>3. /\ \A y \in Control \ {x} : job'[y] = job[y]
        /\ job'[x].at \in {"idle", "copy", "read", "truncate", "write", "purge"}
    <3>1. CASE \E at \in {"copy", "read", "write"} : Goto(x, at)
      BY <3>1, GotoIs DEF At
    <3>2. CASE Returns(x) \/ PrefsDone(x)
      BY <3>2, ReturnsIs, PrefsDoneIs DEF Idle
    <3>3. CASE ReadPrefs(x)
      BY <3>3, PrefsDoneIs DEF ReadPrefs, TypeOK, Job, Idle
    <3> QED BY <1>10, <3>1, <3>2, <3>3
        DEF PrefsStep, LookForBackup, CopyPrefs, TruncatePrefs, WritePrefs, PrefsFail
  <2>4. ~Changing(x) /\ ~Changing(x)'
    BY <2>1, <2>2, <2>3 DEF Changing, InPrefs
  <2> QED BY <1>2, <2>1, <2>3, <2>4
<1>11. ASSUME NEW b \in Box, PressBox(b) PROVE EntryInv'
  <2>1. /\ job[b] = Idle /\ job'[b].at = "purge" /\ b \in Control
        /\ job'[b].op = IF box THEN "disable" ELSE "enable"
        /\ \A y \in Control \ {b} : job'[y] = job[y]
    BY <1>11, PressIs, ControlsAre DEF PressBox, Op, At
  <2>2. /\ mixed' = (mixed \/ \E y \in Control \ {b} : InEntry(y) \/ job[y].at = "default")
        /\ entry' = entry /\ blind' = blind
    BY <1>11 DEF PressBox, Mixes
  <2> SUFFICES ASSUME ~mixed' PROVE EntryInv'
    BY DEF EntryInv
  <2>3. \A y \in Control \ {b} : ~Changing(y)
    BY <2>2 DEF Changing, InEntry
  <2>4. ~Changing(b)
    BY <2>1 DEF Changing, Idle
  <2>5. ~blind => entry # Home /\ (entry # {} => box)
    BY <2>2, <2>3, <2>4 DEF EntryInv
  <2>6. ~blind' => (Adding(b)' => entry' = {})
    BY <2>1, <2>2, <2>5 DEF Adding
  <2>7. Changing(b)'
    BY <2>1 DEF Changing
  <2> QED BY <2>1, <2>2, <2>3, <2>5, <2>6, <2>7, EntryMoves
<1>12. CASE AppEnds
  <2>1. /\ \A x \in Control : job'[x].at = "idle"
        /\ Look /\ UNCHANGED entry /\ mixed' = (entry = Home)
    BY <1>12 DEF AppEnds, Idle
  <2>2. \A x \in Control : ~Changing(x)' /\ ~Adding(x)'
    BY <2>1 DEF Changing, Adding
  <2>3. (box' => entry' # {}) /\ (~blind' => (entry' # {} => box'))
    BY <2>1, LookIs
  <2> QED BY <2>1, <2>2, <2>3 DEF EntryInv
<1>13. ASSUME NEW x \in Control, EntryStep(x) PROVE EntryInv'
  BY <1>13, EntryEntryStep
<1> QED
  BY <1>5, <1>6, <1>7, <1>8, <1>9, <1>10, <1>11, <1>12, <1>13 DEF Next, ToggleStep
-----------------------------------------------------------------------------
(* Spotify follows the tunnel. *)

\* While nothing but lone commands moved the tunnel and Spotify: one command is
\* at the file at most; it works for the tunnel as it is, and what it is about to
\* write says so; and with none at the file, the file does.
Lone == \A x, y \in Control : InPrefs(x) /\ InPrefs(y) => x = y

Fits(x) ==
    /\ tunnel = IF job[x].op = "apply" THEN job[x].port ELSE Down
    /\ job[x].at \in {"truncate", "write"} => Follows(job[x].body, tunnel)

TunnelInv ==
    sound =>
        /\ Lone
        /\ \A x \in Control : InPrefs(x) => Fits(x)
        /\ (\A x \in Control : ~InPrefs(x)) /\ prefs # Missing => Follows(prefs, tunnel)

\* Nothing of the file moves.
LEMMA TunnelRests ==
    ASSUME TunnelInv, sound' => sound, UNCHANGED <<prefs, tunnel>>,
           \A x \in Control : InPrefs(x) \/ InPrefs(x)' => job'[x] = job[x]
    PROVE  TunnelInv'
<1> SUFFICES ASSUME sound' PROVE TunnelInv'
  BY DEF TunnelInv
<1>1. \A x \in Control : InPrefs(x)' <=> InPrefs(x)
  BY DEF InPrefs
<1>2. Lone'
  BY <1>1 DEF TunnelInv, Lone
<1>3. \A x \in Control : InPrefs(x)' => Fits(x)'
  BY <1>1 DEF TunnelInv, Fits
<1>4. (\A x \in Control : ~InPrefs(x)') /\ prefs' # Missing => Follows(prefs', tunnel')
  BY <1>1 DEF TunnelInv
<1> QED BY <1>2, <1>3, <1>4 DEF TunnelInv

\* One control moves, and no other is at the file.
LEMMA TunnelMoves ==
    ASSUME NEW x \in Control, \A y \in Control \ {x} : job'[y] = job[y],
           sound' => /\ \A y \in Control \ {x} : ~InPrefs(y)
                     /\ InPrefs(x)' => Fits(x)'
                     /\ ~InPrefs(x)' /\ prefs' # Missing => Follows(prefs', tunnel')
    PROVE  TunnelInv'
<1> SUFFICES ASSUME sound' PROVE TunnelInv'
  BY DEF TunnelInv
<1>1. \A y \in Control \ {x} : ~InPrefs(y)'
  BY DEF InPrefs
<1>2. Lone'
  BY <1>1 DEF Lone
<1> QED BY <1>1, <1>2 DEF TunnelInv

LEMMA TunnelPrefsStep ==
    ASSUME TypeOK, TunnelInv, NEW x \in Control, PrefsStep(x)
    PROVE  TunnelInv'
<1> USE DEF spotify, history
<1>1. InPrefs(x)
  BY DEF PrefsStep, LookForBackup, CopyPrefs, ReadPrefs, TruncatePrefs, WritePrefs, PrefsFail,
         InPrefs
<1>3. ASSUME sound
      PROVE  Fits(x) /\ \A y \in Control \ {x} : ~InPrefs(y)
  BY <1>1, <1>3 DEF TunnelInv, Lone
\* x goes on, and the tunnel is as it was.
<1>4. ASSUME \A y \in Control \ {x} : job'[y] = job[y], UNCHANGED <<tunnel, sound>>,
             sound /\ InPrefs(x)' => Fits(x)',
             sound /\ ~InPrefs(x)' /\ prefs' # Missing => Follows(prefs', tunnel')
      PROVE  TunnelInv'
  BY <1>3, <1>4, TunnelMoves
<1>5. CASE LookForBackup(x)
  <2>1. /\ UNCHANGED <<prefs, tunnel, sound>> /\ job[x].at = "backup"
        /\ (Returns(x) /\ prefs = Missing) \/ (Goto(x, "copy") \/ Goto(x, "read"))
    BY <1>5 DEF LookForBackup
  <2>2. CASE Returns(x) /\ prefs = Missing
    BY <1>4, <2>1, <2>2, ReturnsIs DEF InPrefs, Idle
  <2>3. CASE Goto(x, "copy") \/ Goto(x, "read")
    <3>1. /\ job'[x].at \in {"copy", "read"} /\ job'[x].op = job[x].op
          /\ job'[x].port = job[x].port /\ \A y \in Control \ {x} : job'[y] = job[y]
      BY <2>3, GotoIs DEF At
    <3>2. InPrefs(x)' /\ (sound => Fits(x)')
      BY <1>3, <2>1, <3>1 DEF InPrefs, Fits
    <3> QED BY <1>4, <2>1, <3>1, <3>2
  <2> QED BY <2>1, <2>2, <2>3
<1>6. CASE CopyPrefs(x)
  <2>1. /\ job'[x].at = "read" /\ job'[x].op = job[x].op /\ job'[x].port = job[x].port
        /\ \A y \in Control \ {x} : job'[y] = job[y]
    BY <1>6, GotoIs DEF CopyPrefs, At
  <2>2. UNCHANGED <<prefs, tunnel, sound>>
    BY <1>6 DEF CopyPrefs
  <2>3. InPrefs(x)' /\ (sound => Fits(x)')
    BY <1>3, <2>1, <2>2 DEF InPrefs, Fits
  <2> QED BY <1>4, <2>1, <2>2, <2>3
<1>7. CASE ReadPrefs(x)
  <2>1. UNCHANGED <<prefs, tunnel, sound>>
    BY <1>7 DEF ReadPrefs
  <2>2. CASE prefs = Missing
    <3>1. ~InPrefs(x)' /\ \A y \in Control \ {x} : job'[y] = job[y]
      BY <1>7, <2>2, PrefsDoneIs DEF ReadPrefs, InPrefs
    <3> QED BY <1>4, <2>1, <2>2, <3>1
  <2>3. CASE prefs # Missing
    <3> DEFINE body == IF job[x].op = "apply" THEN Applied(prefs, job[x].port)
                                               ELSE Restored(prefs)
    <3>1. /\ job'[x].op = job[x].op /\ job'[x].at = "truncate" /\ job'[x].body = body
          /\ job'[x].port = job[x].port /\ \A y \in Control \ {x} : job'[y] = job[y]
      BY <1>7, <2>3 DEF ReadPrefs, TypeOK, Job
    <3>2. prefs \in Seq(Line) /\ job[x].port \in Port
      BY <2>3 DEF TypeOK, Lines, Job
    <3>3. Follows(body, IF job[x].op = "apply" THEN job[x].port ELSE Down)
      BY <3>2, AppliedFollows, RestoredFollows
    <3> HIDE DEF body
    <3>4. InPrefs(x)' /\ (sound => Fits(x)')
      BY <1>3, <2>1, <3>1, <3>3 DEF InPrefs, Fits
    <3> QED BY <1>4, <2>1, <3>1, <3>4
  <2> QED BY <2>2, <2>3
<1>8. CASE TruncatePrefs(x)
  <2>1. /\ job'[x].at = "write" /\ job'[x].op = job[x].op /\ job'[x].body = job[x].body
        /\ job'[x].port = job[x].port /\ \A y \in Control \ {x} : job'[y] = job[y]
    BY <1>8, GotoIs DEF TruncatePrefs, At
  <2>2. UNCHANGED <<tunnel, sound>> /\ job[x].at = "truncate"
    BY <1>8 DEF TruncatePrefs
  <2>3. InPrefs(x)' /\ (sound => Fits(x)')
    BY <1>3, <2>1, <2>2 DEF InPrefs, Fits
  <2> QED BY <1>4, <2>1, <2>2, <2>3
<1>9. CASE WritePrefs(x)
  <2>1. ~InPrefs(x)' /\ \A y \in Control \ {x} : job'[y] = job[y]
    BY <1>9, PrefsDoneIs DEF WritePrefs, InPrefs
  <2>2. UNCHANGED <<tunnel, sound>> /\ job[x].at = "write" /\ prefs' = job[x].body
    BY <1>9 DEF WritePrefs
  <2>3. sound => Follows(prefs', tunnel')
    BY <1>3, <2>2 DEF Fits
  <2> QED BY <1>4, <2>1, <2>2, <2>3
<1>10. CASE PrefsFail(x)
  BY <1>10 DEF PrefsFail, TunnelInv
<1> QED BY <1>5, <1>6, <1>7, <1>8, <1>9, <1>10 DEF PrefsStep

LEMMA TunnelNext == TypeOK /\ TunnelInv /\ [Next]_vars => TunnelInv'
<1> SUFFICES ASSUME TypeOK, TunnelInv, [Next]_vars PROVE TunnelInv'
  OBVIOUS
<1> USE DEF spotify, startup, bounds, history
<1>1. {"fix", "off", "reset"} \cup Toggle \subseteq Control /\ Box \subseteq Control
  BY DEF Control
<1>3. CASE PressFix \/ PressOff \/ TunnelEnds
  <2>1. ~sound'
    BY <1>3 DEF PressFix, PressOff, TunnelEnds
  <2> QED BY <2>1 DEF TunnelInv
<1>4. ASSUME NEW x \in Control, \A y \in Control \ {x} : job'[y] = job[y],
             ~InPrefs(x), ~InPrefs(x)', UNCHANGED <<prefs, tunnel, sound>>
      PROVE  TunnelInv'
  BY <1>4, TunnelRests
<1>5. ASSUME NEW t \in Toggle, PressConnect(t) \/ PressDisconnect(t) \/ ConnectFails(t)
      PROVE  TunnelInv'
  <2>1. UNCHANGED <<prefs, tunnel, sound>> /\ t \in Control
    BY <1>1, <1>5 DEF PressConnect, PressDisconnect, ConnectFails
  <2>2. /\ job[t].at \in {"idle", "preflight"} /\ job'[t].at \in {"idle", "preflight", "stop"}
        /\ \A y \in Control \ {t} : job'[y] = job[y]
    BY <1>5, <2>1, PressIs, ReturnsIs
    DEF PressConnect, PressDisconnect, ConnectFails, Op, At, Idle
  <2> QED BY <1>4, <2>1, <2>2 DEF InPrefs
<1>6. ASSUME NEW t \in Toggle, Connect(t) PROVE TunnelInv'
  <2>1. /\ sound' => /\ Alone(t) /\ job[t].op = "apply"
                     /\ tunnel' = job[t].port /\ Goto(t, "backup")
        /\ t \in Control
    BY <1>1, <1>6 DEF Connect
  <2> SUFFICES ASSUME sound' PROVE TunnelInv'
    BY DEF TunnelInv
  <2>2. /\ job'[t].at = "backup" /\ job'[t].op = "apply" /\ job'[t].port = tunnel'
        /\ \A y \in Control \ {t} : job'[y] = job[y]
    BY <2>1, GotoIs DEF At
  <2>3. InPrefs(t)' /\ Fits(t)'
    BY <2>2 DEF InPrefs, Fits
  <2> QED BY <2>1, <2>2, <2>3, TunnelMoves DEF Alone
\* A lone disconnect or reset comes to the file.
<1>7. ASSUME NEW x \in Control, job'[x].at = "read", job'[x].op = "restore",
             \A y \in Control \ {x} : job'[y] = job[y], tunnel' = Down, sound' => Alone(x)
      PROVE  TunnelInv'
  <2>1. InPrefs(x)' /\ Fits(x)'
    BY <1>7 DEF InPrefs, Fits
  <2> QED BY <1>7, <2>1, TunnelMoves DEF Alone
<1>8. ASSUME NEW t \in Toggle, Disconnect(t) PROVE TunnelInv'
  <2>1. CASE cfg.manage
    <3>1. /\ job'[t].at = "read" /\ job'[t].op = "restore" /\ t \in Control
          /\ \A y \in Control \ {t} : job'[y] = job[y]
      BY <1>1, <1>8, <2>1, DisconnectIs
    <3>2. tunnel' = Down /\ (sound' => Alone(t))
      BY <1>8 DEF Disconnect
    <3> QED BY <1>7, <3>1, <3>2
  <2>2. CASE ~cfg.manage
    BY <1>8, <2>2 DEF Disconnect, TunnelInv
  <2> QED BY <2>1, <2>2
<1>9. CASE PressReset
  <2>1. CASE cfg.manage
    <3>1. Press("reset", "restore", "read") /\ tunnel' = Down /\ (sound' => Alone("reset"))
      BY <1>9, <2>1 DEF PressReset
    <3>2. /\ job'["reset"].at = "read" /\ job'["reset"].op = "restore"
          /\ \A y \in Control \ {"reset"} : job'[y] = job[y]
      BY <1>1, <3>1, PressIs DEF Op, At
    <3> QED BY <1>1, <1>7, <3>1, <3>2
  <2>2. CASE ~cfg.manage
    BY <1>9, <2>2 DEF PressReset, TunnelInv
  <2> QED BY <2>1, <2>2
<1>10. CASE ResetDone
  <2>1. job["reset"].at = "default" /\ UNCHANGED <<prefs, tunnel, sound>>
    BY <1>10 DEF ResetDone
  <2>2. job'["reset"] = Idle /\ \A y \in Control \ {"reset"} : job'[y] = job[y]
    BY <1>1, <1>10, ReturnsIs DEF ResetDone
  <2> QED BY <1>1, <1>4, <2>1, <2>2 DEF InPrefs, Idle
<1>11. CASE ChangeSettings \/ PolicyChanges \/ UNCHANGED vars
  <2>1. UNCHANGED <<prefs, tunnel, job>> /\ sound' = sound
    BY <1>11 DEF ChangeSettings, PolicyChanges, vars
  <2> QED BY <2>1, TunnelRests
<1>12. ASSUME NEW x \in Control, PrefsStep(x) PROVE TunnelInv'
  BY <1>12, TunnelPrefsStep
<1>13. ASSUME NEW x \in Control, EntryStep(x) PROVE TunnelInv'
  <2>1. InEntry(x) /\ UNCHANGED <<prefs, tunnel, sound>>
    BY <1>13
    DEF EntryStep, Purge, CreateTask, AddRunKey, DeleteTask, DeleteRunKey, Query, InEntry
  <2>2. policy.task \in {"allowed", "denied", "broken"}
    BY DEF TypeOK, Policy, Home
  <2>3. Returns(x) \/ \E at \in {"create", "deleteTask", "query", "add", "deleteRun", "default"} :
                         Goto(x, at)
    BY <1>13, <2>2
    DEF EntryStep, Purge, CreateTask, AddRunKey, DeleteTask, DeleteRunKey, Query
  <2>4. /\ job'[x].at \in {"idle", "create", "deleteTask", "query", "add", "deleteRun", "default"}
        /\ \A y \in Control \ {x} : job'[y] = job[y]
    <3>1. CASE Returns(x)
      BY <3>1, ReturnsIs DEF Idle
    <3>2. ASSUME NEW at \in {"create", "deleteTask", "query", "add", "deleteRun", "default"},
                 Goto(x, at)
          PROVE  /\ job'[x].at = at
                 /\ \A y \in Control \ {x} : job'[y] = job[y]
      BY <3>2, GotoIs DEF At
    <3> QED BY <2>3, <3>1, <3>2
  <2>5. ~InPrefs(x) /\ ~InPrefs(x)'
    BY <2>1, <2>4 DEF InPrefs, InEntry
  <2> QED BY <1>4, <2>1, <2>4, <2>5
<1>14. ASSUME NEW b \in Box, PressBox(b) PROVE TunnelInv'
  <2>1. /\ job[b] = Idle /\ job'[b].at = "purge" /\ UNCHANGED <<prefs, tunnel, sound>>
        /\ \A y \in Control \ {b} : job'[y] = job[y]
    BY <1>1, <1>14, PressIs DEF PressBox, Op, At
  <2>2. ~InPrefs(b) /\ ~InPrefs(b)'
    BY <2>1 DEF InPrefs, Idle
  <2> QED BY <1>1, <1>4, <2>1, <2>2
<1>15. CASE SpotifySaves
  <2> DEFINE lines == IF prefs = Missing THEN <<>> ELSE prefs
  <2>1. PICK v \in Value : prefs' = SetKey(lines, "other", v)
    BY <1>15 DEF SpotifySaves
  <2>2. lines \in Seq(Line)
    BY DEF TypeOK, Lines
  <2>3. UNCHANGED <<job, tunnel>> /\ sound' = (sound /\ (prefs = Missing => tunnel = Down))
    BY <1>15 DEF SpotifySaves
  <2> SUFFICES ASSUME sound' PROVE TunnelInv'
    BY DEF TunnelInv
  <2>4. /\ Lone /\ \A x \in Control : InPrefs(x) => Fits(x)
        /\ (\A x \in Control : ~InPrefs(x)) /\ prefs # Missing => Follows(prefs, tunnel)
        /\ prefs = Missing => tunnel = Down
    BY <2>3 DEF TunnelInv
  <2>6. (\A x \in Control : ~InPrefs(x)) => Follows(lines, tunnel)
    BY <2>4, EmptyFollows
  <2> HIDE DEF lines
  <2>7. (\A x \in Control : ~InPrefs(x)) => Follows(prefs', tunnel)
    BY <2>1, <2>2, <2>6, OtherFollows
  <2>8. Lone'
    BY <2>3, <2>4 DEF Lone, InPrefs
  <2>9. \A x \in Control : (InPrefs(x)' <=> InPrefs(x)) /\ (Fits(x)' <=> Fits(x))
    BY <2>3 DEF InPrefs, Fits
  <2> QED BY <2>3, <2>4, <2>7, <2>8, <2>9 DEF TunnelInv
<1>16. CASE AppEnds
  <2>1. /\ \A x \in Control : job'[x] = Idle
        /\ tunnel' = Down /\ prefs' = prefs
        /\ sound' = (sound /\ tunnel = Down /\ \A x \in Control : ~InPrefs(x))
    BY <1>16 DEF AppEnds
  <2> SUFFICES ASSUME sound' PROVE TunnelInv'
    BY DEF TunnelInv
  <2>4. prefs' # Missing => Follows(prefs', tunnel')
    BY <2>1 DEF TunnelInv
  <2>5. Lone' /\ \A x \in Control : ~InPrefs(x)'
    BY <2>1 DEF Lone, InPrefs, Idle
  <2> QED BY <2>4, <2>5 DEF TunnelInv
<1> QED
  BY <1>3, <1>4, <1>5, <1>6, <1>8, <1>9, <1>10, <1>11, <1>12, <1>13, <1>14, <1>15, <1>16
  DEF Next, ToggleStep
-----------------------------------------------------------------------------
(* The theorems. *)

IInv == TypeOK /\ Stations /\ FileInv /\ TunnelInv /\ EntryInv

LEMMA InitIInv == Init => IInv
<1> SUFFICES ASSUME Init PROVE IInv
  OBVIOUS
<1>1. /\ \A x \in Control : job[x] = Idle
      /\ \A x \in Control : job[x].at = "idle" /\ job[x].op = "none"
  BY DEF Init, Idle
<1>2. \A x \in Control : ~InPrefs(x) /\ ~InEntry(x) /\ ~Changing(x) /\ ~Adding(x)
  BY <1>1 DEF InPrefs, InEntry, Changing, Adding
<1>3. prefs = Missing \/ prefs \in Seq(Line)
  BY DEF Init
<1>4. TypeOK
  <2> DEFINE lines == IF prefs = Missing THEN <<>> ELSE prefs
  <2>1. lines \in Seq(Line) /\ rest = Rest(lines)
    BY <1>3 DEF Init
  <2>6. \A key \in {"mode", "addr"} : theirs[key] = Vals(lines, key)
    BY DEF Init
  <2> HIDE DEF lines
  <2>7. \A key \in {"mode", "addr"} : theirs[key] \subseteq {line.val : line \in Line}
    BY <2>1, <2>6, LinesGiven DEF Vals
  <2>2. DOMAIN rest \subseteq Nat /\ rest \in [DOMAIN rest -> Line]
    BY <2>1, RestTypes
  <2>3. job \in [Control -> Job]
    BY IdleType DEF Init
  <2>4. cfg \in Config /\ legacy \subseteq Home /\ policy \in Policy
    BY DEF Init, Home
  <2>5. presses \in 0..MaxPress /\ events \in 0..MaxEvent
    BY DEF Init
  <2> QED BY <1>3, <2>2, <2>3, <2>4, <2>5, <2>7 DEF Init, TypeOK, Lines
<1>5. Stations
  BY <1>1, <1>2 DEF Stations, StationOf
<1>6. FileInv
  <2>1. OtherLinesKept
    BY DEF Init, OtherLinesKept
  <2>2. BackupIsTheirs /\ CopyFirst /\ Bodies
    BY <1>1 DEF Init, BackupIsTheirs, CopyFirst, Bodies
  <2>3. NoCopyYet
    BY DEF Init, NoCopyYet, OfTheirs, Held
  <2> QED BY <1>2, <2>1, <2>2, <2>3 DEF FileInv
<1>7. TunnelInv
  <2>1. sound /\ prefs # Missing => Follows(prefs, tunnel)
    BY DEF Init, Follows
  <2> QED BY <1>1, <1>2, <2>1 DEF TunnelInv, Lone
<1>8. EntryInv
  BY <1>2 DEF EntryInv, Init, Home
<1> QED BY <1>4, <1>5, <1>6, <1>7, <1>8 DEF IInv

LEMMA Inductive == Spec => []IInv
<1>1. IInv /\ [Next]_vars => IInv'
  BY TypesStep, StationsStep, FileStep, TunnelNext, EntryNext DEF IInv
<1> QED BY <1>1, InitIInv, PTL DEF Spec

\* Every variable has its type: Spotify's file and the copy are lines, whatever
\* set_key() and the crossed writes made of them, and each control is at a step
\* of its command (spotify.rs, autostart.rs).
THEOREM TypeCorrect == Spec => []TypeOK
<1>1. IInv => TypeOK
  BY DEF IInv
<1> QED BY <1>1, Inductive, PTL

\* "leaving the rest of prefs alone" (spotify.rs:157): for every file Spotify may
\* have, and any number of lines in it, apply() and restore() leave each of its
\* own settings in its place, unless a write was crossed or cut short.
THEOREM RestOfPrefsAlone == Spec => []OtherLinesKept
<1>1. IInv => OtherLinesKept
  BY DEF IInv, FileInv
<1> QED BY <1>1, Inductive, PTL

\* "the user's safety net" (main.rs:178): for every file Spotify may have, unless
\* two calls crossed, the copy that apply() makes once has the address the user
\* had there, and the user's mode or the mode none that a restore() before it wrote.
THEOREM SafetyNet == Spec => []BackupIsTheirs
<1>1. IInv => BackupIsTheirs
  BY DEF IInv, FileInv
<1> QED BY <1>1, Inductive, PTL

\* After lone connects, disconnects and resets, Spotify points at the tunnel that
\* runs and at none when none does, for every port and every file it may have, and
\* any number of presses of the same button (start_tunnel(), stop_tunnel() and
\* reset_all() in main.rs).
THEOREM SpotifyFollows == Spec => []SpotifyFollowsTunnel
<1>1. IInv => SpotifyFollowsTunnel
  <2> SUFFICES ASSUME IInv, Quiet, sound, prefs # Missing PROVE Follows(prefs, tunnel)
    BY DEF SpotifyFollowsTunnel, Follows
  <2>1. \A x \in Control : ~InPrefs(x)
    BY DEF Quiet, InPrefs, Idle
  <2> QED BY <2>1 DEF IInv, TunnelInv
<1> QED BY <1>1, Inductive, PTL

\* Unless two commands changed the start-up entry together, a set checkbox at rest
\* means that there is one; and unless a home did not answer when it was read, a
\* clear one means that there is none, and it is never in the Task Scheduler and
\* in the Run key (enable(), disable() and is_enabled() in autostart.rs).
THEOREM CheckboxTells == Spec => []EntryIsKnown
<1>1. IInv => EntryIsKnown
  <2> SUFFICES ASSUME IInv, Quiet, ~mixed
               PROVE  /\ box => entry # {}
                      /\ ~blind => (entry # {} => box) /\ entry # Home
    BY DEF EntryIsKnown
  <2>1. \A x \in Control : ~Changing(x)
    BY DEF Quiet, Changing, Idle
  <2> QED BY <2>1 DEF IInv, EntryInv
<1> QED BY <1>1, Inductive, PTL
=============================================================================
