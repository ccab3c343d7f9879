------------------------------ MODULE Reports_proofs ------------------------------
(* Reports of any length: a statement that is given out has the amounts of one table     *)
(* and its own unit, a line of text is part of one name at most, and a figure that is    *)
(* used has the scale of what the third party says.                                      *)
EXTENDS ReportReader, StatementLines, WellFoundedInduction, TLAPS

\* A set of natural numbers that is not empty has a least one.
LEMMA LeastNatural ==
    ASSUME NEW S \in SUBSET Nat, S # {}
    PROVE  \E n \in S : \A m \in S : n <= m
<1> DEFINE R == OpToRel(<, Nat)
<1>1. IsWellFoundedOn(R, Nat)
  BY NatLessThanWellFounded
<1>2. PICK n \in S : \A y \in S : ~(<<y, n>> \in R)
  BY <1>1, WFMin
<1>3. \A y \in S : ~(y < n)
  BY <1>2 DEF OpToRel
<1>. QED BY <1>3

(* Finding the statements in the lines of a report.                                      *)

TableNames == Wanted \cup {"none", "other"}
Kinds == {"title", "other", "unit", "declaration", "amounts"}

PrintedLine ==
    [kind : Kinds, page : Nat \ {0}, table : [number : Nat, name : TableNames]]

OpenedSection ==
    [start : Nat \ {0}, above : Nat, declared : Nat, unit : Nat, header : BOOLEAN, lines : Seq(Nat)]

ReaderTypeOK ==
    /\ printed \in Seq(PrintedLine) /\ page \in Nat \ {0}
    /\ section \in [Wanted -> {NoSection} \cup OpenedSection]
    /\ current \in Wanted \cup {"none"}
    /\ ended \in SUBSET Wanted /\ tooLong \in SUBSET Wanted
    /\ above \in Nat /\ declared \in Nat

\* The statements with a section, and the lines in it.
Found == {s \in Wanted : section[s] # NoSection}
LinesOf(s) == RangeOf(section[s].lines)

\* A table has the number of the line where it begins.
TablesBegin == \A k \in 1 .. Len(printed) : printed[k].table.number \in 0 .. k

\* A section is open under its own title, and neither ended nor given up.
OpenUnderTitle ==
    /\ current # "none" => current \in Found \ (ended \cup tooLong) /\ Table.name = current
    /\ current = "none" /\ Table.name \in Wanted => Table.name \in Found \cup ended
    /\ ended \subseteq Found \ tooLong /\ tooLong \subseteq Found

\* A section has lines of the table of one title; while it is open and when it has ended, it
\* has all amounts of the table.  Its unit was the first before any amount.
Titled(s, t) ==
    /\ printed[t].table = [number |-> t, name |-> s]
    /\ section[s].declared < t
    /\ \A k \in LinesOf(s) :
          k \in t .. Len(printed) /\ printed[k].table = [number |-> t, name |-> s]
    /\ s \in ended \/ s = current => AmountLines(t) \subseteq LinesOf(s)
    /\ s = current => Table = [number |-> t, name |-> s]
    /\ s \in ended => t < Table.number
    /\ section[s].header => \A k \in LinesOf(s) : printed[k].kind # "amounts"
    /\ section[s].unit # 0 => /\ section[s].unit \in LinesOf(s)
                              /\ \A k \in AmountLines(t) : section[s].unit < k

SectionsTitled == \A s \in Found : \E t \in 1 .. Len(printed) : Titled(s, t)

\* The unit above the next title stands on this page and belongs to no section but the open one.
AboveIsFree ==
    above # 0 => /\ above \in 1 .. Len(printed)
                 /\ printed[above].kind = "unit" /\ printed[above].page = page
                 /\ \A s \in Found : above \notin LinesOf(s)
                 /\ \A s \in Found \ {current} : section[s].above # above
                 /\ current # "none" => section[current].start = page

\* The unit above a title stands on its page and in no section, and serves no other section.
AboveIsOwn ==
    \A s \in Found : section[s].above # 0 =>
        /\ section[s].above \in 1 .. Len(printed)
        /\ printed[section[s].above].kind = "unit"
        /\ printed[section[s].above].page = section[s].start
        /\ \A other \in Found : /\ section[s].above \notin LinesOf(other)
                                /\ other # s => section[other].above # section[s].above

DeclarationsRead ==
    /\ declared # 0 => declared \in 1 .. Len(printed) /\ printed[declared].kind = "declaration"
    /\ \A s \in Found : section[s].declared # 0 =>
            /\ section[s].declared \in 1 .. Len(printed)
            /\ printed[section[s].declared].kind = "declaration"

GivenOut ==
    extracted # NotYet => \A s \in extracted : s \in ended \ tooLong /\ Buildable(section[s])

ReaderInv ==
    /\ ReaderTypeOK /\ TablesBegin /\ OpenUnderTitle /\ SectionsTitled
    /\ AboveIsFree /\ AboveIsOwn /\ DeclarationsRead /\ GivenOut

--------------------------------------------------------------------------------

LEMMA ReaderInitInv == ReaderInit => ReaderInv
<1> SUFFICES ASSUME ReaderInit PROVE ReaderInv
  OBVIOUS
<1>1. printed = <<>> /\ Len(printed) = 0 /\ printed \in Seq(PrintedLine)
  BY DEF ReaderInit
<1>2. Table.name = "none"
  BY <1>1 DEF Table
<1>3. Found = {}
  BY DEF ReaderInit, Found
<1>4. ReaderTypeOK
  BY <1>1 DEF ReaderInit, ReaderTypeOK
<1>5. OpenUnderTitle
  BY <1>2, <1>3, ReaderAssumption DEF ReaderInit, OpenUnderTitle
<1>6. AboveIsFree /\ AboveIsOwn /\ DeclarationsRead
  BY <1>3 DEF ReaderInit, AboveIsFree, AboveIsOwn, DeclarationsRead
<1>. QED BY <1>1, <1>3, <1>4, <1>5, <1>6
         DEF ReaderInit, ReaderInv, TablesBegin, SectionsTitled, GivenOut

\* A section has the fields of one, an opened one is not NoSection.
LEMMA FoundHaveSections ==
    ASSUME ReaderTypeOK
    PROVE  /\ \A s \in Found : s \in Wanted /\ section[s] \in OpenedSection
           /\ \A s \in Wanted : section[s].start # 0 <=> s \in Found
           /\ \A x \in OpenedSection : x # NoSection
<1>1. \A x \in OpenedSection : x.start # 0
  BY DEF OpenedSection
<1>2. NoSection.start = 0
  BY DEF NoSection
<1>3. \A s \in Wanted : section[s] \in {NoSection} \cup OpenedSection
  BY DEF ReaderTypeOK
<1>. QED BY <1>1, <1>2, <1>3 DEF Found

\* The table of the last line begins before the next line.
LEMMA TableNow ==
    ASSUME ReaderTypeOK, TablesBegin
    PROVE  /\ Table \in [number : Nat, name : TableNames]
           /\ Table.number \in 0 .. Len(printed)
           /\ printed # <<>> => Table = printed[Len(printed)].table
           /\ Len(printed) \in Nat /\ Here \in Nat /\ Here = Len(printed) + 1
<1>1. Len(printed) \in Nat /\ Here \in Nat /\ Here = Len(printed) + 1
  BY DEF ReaderTypeOK, Here
<1>2. CASE printed = <<>>
  <2>1. Table = [number |-> 0, name |-> "none"]
    BY <1>2 DEF Table
  <2>2. Len(printed) = 0
    BY <1>2
  <2>. QED BY <2>1, <2>2, <1>1, <1>2 DEF TableNames
<1>3. CASE printed # <<>>
  <2>1. Len(printed) \in 1 .. Len(printed)
    BY <1>1, <1>3 DEF ReaderTypeOK
  <2>2. Table = printed[Len(printed)].table
    BY <1>3 DEF Table
  <2>3. printed[Len(printed)] \in PrintedLine
    BY <2>1 DEF ReaderTypeOK
  <2>. QED BY <2>1, <2>2, <2>3, <1>1 DEF PrintedLine, TablesBegin
<1>. QED BY <1>2, <1>3

\* What a line that is printed changes of the report.
LEMMA LinePrinted ==
    ASSUME ReaderTypeOK, TablesBegin, NEW kind \in Kinds, NEW name \in TableNames,
           PrintLine(kind, name)
    PROVE  /\ printed' \in Seq(PrintedLine) /\ Len(printed') = Here
           /\ \A k \in 1 .. Len(printed) : printed'[k] = printed[k]
           /\ printed'[Here].kind = kind /\ printed'[Here].page = page
           /\ printed'[Here].table = TableOf(kind, name) /\ Table' = TableOf(kind, name)
           /\ TableOf(kind, name) = Table \/ TableOf(kind, name).number = Here
           /\ extracted = NotYet
           /\ TablesBegin'
<1> DEFINE line == [kind |-> kind, page |-> page, table |-> TableOf(kind, name)]
<1>1. Table \in [number : Nat, name : TableNames] /\ Here \in Nat
      /\ Table.number \in 0 .. Len(printed) /\ Len(printed) \in Nat /\ Here = Len(printed) + 1
  BY TableNow
<1>2. TableOf(kind, name) \in [number : Nat, name : TableNames]
  BY <1>1 DEF TableOf, TableNames
<1>3. TableOf(kind, name) = Table \/ TableOf(kind, name).number = Here
  BY DEF TableOf
<1>4. line \in PrintedLine
  BY <1>2 DEF PrintedLine, ReaderTypeOK
<1>5. printed' = Append(printed, line) /\ extracted = NotYet
  BY DEF PrintLine
<1>6. line.kind = kind /\ line.page = page /\ line.table = TableOf(kind, name)
  OBVIOUS
<1> HIDE DEF line
<1>7. /\ printed' \in Seq(PrintedLine) /\ Len(printed') = Here /\ printed'[Here] = line
      /\ \A k \in 1 .. Len(printed) : printed'[k] = printed[k]
  BY <1>1, <1>4, <1>5 DEF ReaderTypeOK
<1>8. Table' = printed'[Here].table
  <2>1. printed' # <<>>
    BY <1>1, <1>7
  <2>. QED BY <2>1, <1>7 DEF Table
<1>9. TablesBegin'
  <2>1. line.table.number \in 0 .. Here
    BY <1>1, <1>3, <1>6
  <2>2. \A k \in 1 .. Here : k \in 1 .. Len(printed) \/ k = Here
    BY <1>1
  <2>. QED BY <2>1, <2>2, <1>7 DEF TablesBegin
<1>. QED BY <1>3, <1>5, <1>6, <1>7, <1>8, <1>9
LEMMA TablesPrinted ==
    /\ \A kind \in {"unit", "declaration", "amounts"} : \A name : TableOf(kind, name) = Table
    /\ \A name : /\ name # Table.name => TableOf("title", name) = [number |-> Here, name |-> name]
                 /\ name = Table.name => TableOf("title", name) = Table
                 /\ TableOf("other", name) = [number |-> Here, name |-> "other"]
BY DEF TableOf

\* The amounts of a table are those it had, and the line if it is one.
LEMMA AmountsPrinted ==
    ASSUME ReaderTypeOK, TablesBegin, NEW kind \in Kinds, NEW name \in TableNames,
           PrintLine(kind, name), NEW t
    PROVE  /\ \A k \in AmountLines(t) : k \in 1 .. Len(printed) /\ k \in AmountLines(t)'
           /\ \A k \in AmountLines(t)' :
                 \/ k \in AmountLines(t)
                 \/ k = Here /\ kind = "amounts" /\ TableOf(kind, name).number = t
<1>1. Len(printed) \in Nat /\ Here = Len(printed) + 1
  BY TableNow
<1>2. /\ Len(printed') = Here /\ printed'[Here].kind = kind
      /\ printed'[Here].table = TableOf(kind, name)
      /\ \A k \in 1 .. Len(printed) : printed'[k] = printed[k]
  BY LinePrinted
<1>3. AmountLines(t)' =
        {k \in 1 .. Here : printed'[k].kind = "amounts" /\ printed'[k].table.number = t}
  BY <1>2 DEF AmountLines
<1>4. \A k \in 1 .. Here : k \in 1 .. Len(printed) \/ k = Here
  BY <1>1
<1>5. \A k \in 1 .. Len(printed) : k \in 1 .. Here
  BY <1>1
<1>. QED BY <1>2, <1>3, <1>4, <1>5 DEF AmountLines

\* A section stays under its title if what is printed is not an amount it misses.
LEMMA TitledKept ==
    ASSUME ReaderTypeOK, TablesBegin, NEW kind \in Kinds, NEW name \in TableNames,
           PrintLine(kind, name),
           NEW s \in Found, NEW t \in 1 .. Len(printed), Titled(s, t), section'[s] = section[s],
           s \in ended' \/ s = current' =>
               /\ s \in ended \/ s = current
               /\ kind # "amounts" \/ TableOf(kind, name).number # t,
           s = current' => TableOf(kind, name) = [number |-> t, name |-> s],
           s \in ended' => t < TableOf(kind, name).number
    PROVE  Titled(s, t)'
<1>1. Len(printed) \in Nat /\ Here = Len(printed) + 1 /\ t \in 1 .. Here
  BY TableNow
<1>2. /\ Len(printed') = Here /\ Table' = TableOf(kind, name)
      /\ \A k \in 1 .. Len(printed) : printed'[k] = printed[k]
  BY LinePrinted
<1>3. /\ \A k \in AmountLines(t) : k \in AmountLines(t)'
      /\ \A k \in AmountLines(t)' :
            \/ k \in AmountLines(t)
            \/ k = Here /\ kind = "amounts" /\ TableOf(kind, name).number = t
  BY AmountsPrinted
<1>4. LinesOf(s)' = LinesOf(s)
  BY DEF LinesOf
<1>5. \A k \in LinesOf(s) : /\ k \in 1 .. Len(printed) /\ k \in t .. Here
                            /\ printed[k].table = [number |-> t, name |-> s]
  BY <1>1 DEF Titled
<1>6. s \in ended' \/ s = current' => AmountLines(t)' \subseteq LinesOf(s)
  BY <1>3 DEF Titled
<1>7. section[s].unit # 0 => /\ section[s].unit \in LinesOf(s)
                             /\ \A k \in AmountLines(t)' : section[s].unit < k
  BY <1>1, <1>3, <1>5 DEF Titled
<1>8. section[s].header => \A k \in LinesOf(s) : printed'[k].kind # "amounts"
  BY <1>2, <1>5 DEF Titled
<1>. QED BY <1>1, <1>2, <1>4, <1>5, <1>6, <1>7, <1>8 DEF Titled

\* A section that is not the open one stays under its title.
LEMMA TitledElsewhere ==
    ASSUME ReaderTypeOK, TablesBegin, NEW kind \in Kinds, NEW name \in TableNames,
           PrintLine(kind, name),
           NEW s \in Found, NEW t \in 1 .. Len(printed), Titled(s, t), section'[s] = section[s],
           s # current, s # current', s \in ended' => s \in ended
    PROVE  Titled(s, t)'
<1>1. Table.number \in Nat /\ Here \in Nat /\ Here = Len(printed) + 1 /\ Len(printed) \in Nat
  BY TableNow
<1>2. TableOf(kind, name) = Table \/ TableOf(kind, name).number = Here
  BY LinePrinted
<1>3. s \in ended' => t < TableOf(kind, name).number
  BY <1>1, <1>2 DEF Titled
<1>4. s \in ended' => TableOf(kind, name).number # t
  BY <1>1, <1>2, <1>3
<1>. QED BY <1>3, <1>4, TitledKept

\* A section that is opened stands under the title that is read.
LEMMA TitledOpened ==
    ASSUME ReaderTypeOK, TablesBegin, DeclarationsRead, NEW name \in Wanted,
           PrintLine("title", name), name # Table.name,
           section'[name].declared = declared, section'[name].unit = 0,
           section'[name].lines = <<>>, name \notin ended'
    PROVE  \A t : t = Here => Titled(name, t)' /\ t \in 1 .. Len(printed')
<1>0. "title" \in Kinds /\ name \in TableNames
  BY DEF Kinds, TableNames
<1>1. Len(printed) \in Nat /\ Here \in Nat /\ Here = Len(printed) + 1
  BY TableNow
<1>2. /\ Len(printed') = Here /\ Table' = TableOf("title", name)
      /\ printed'[Here].table = TableOf("title", name)
  BY <1>0, LinePrinted
<1>3. TableOf("title", name) = [number |-> Here, name |-> name]
  BY TablesPrinted
<1>4. \A t : t = Here => \A k \in AmountLines(t)' : k \in AmountLines(t)
  BY <1>0, AmountsPrinted
<1>5. \A t : t = Here => AmountLines(t) = {}
  BY <1>1 DEF AmountLines, TablesBegin
<1>6. LinesOf(name)' = {}
  BY DEF LinesOf, RangeOf
<1>7. declared < Here
  BY <1>1 DEF DeclarationsRead
<1>8. Here \in 1 .. Here
  BY <1>1
<1>9. \A t : t = Here => AmountLines(t)' = {}
  BY <1>4, <1>5
<1> SUFFICES ASSUME NEW t, t = Here
             PROVE  Titled(name, t)' /\ t \in 1 .. Len(printed')
  OBVIOUS
<1> HIDE DEF Here
<1>10. AmountLines(t)' = {}
  BY <1>9
<1>. QED BY <1>2, <1>3, <1>6, <1>7, <1>8, <1>10 DEF Titled

\* What an action that prints a line does to a section there is afterwards: it may have one
\* more line, or it has just been opened.
Kept(s) ==
    /\ s \in Found
    /\ section'[s].start = section[s].start /\ section'[s].above = section[s].above
    /\ section'[s].declared = section[s].declared
    /\ LinesOf(s)' \subseteq LinesOf(s) \cup {Here}

Fresh(s) ==
    /\ s = current' /\ s \notin Found
    /\ section'[s].start = page /\ section'[s].declared = declared /\ section'[s].lines = <<>>
    /\ \/ section'[s].above = 0
       \/ section'[s].above = above /\ current = "none"

\* Lines are in sections after they were printed.
LEMMA LinesArePrinted ==
    ASSUME SectionsTitled, ReaderTypeOK
    PROVE  \A s \in Found : \A k \in LinesOf(s) : k \in 1 .. Len(printed)
<1> SUFFICES ASSUME NEW s \in Found, NEW k \in LinesOf(s) PROVE k \in 1 .. Len(printed)
  OBVIOUS
<1>1. PICK t \in 1 .. Len(printed) : Titled(s, t)
  BY DEF SectionsTitled
<1>2. k \in t .. Len(printed)
  BY <1>1 DEF Titled
<1>. QED BY <1>2 DEF ReaderTypeOK

\* A unit above a title stays the section's own.
LEMMA UnitsStayOwn ==
    ASSUME ReaderInv, NEW kind \in Kinds, NEW name \in TableNames, PrintLine(kind, name),
           \A s \in Found' : Kept(s) \/ Fresh(s)
    PROVE  AboveIsOwn'
<1>1. Len(printed) \in Nat /\ Here = Len(printed) + 1
  BY TableNow DEF ReaderInv
<1>2. Len(printed') = Here /\ \A k \in 1 .. Len(printed) : printed'[k] = printed[k]
  BY LinePrinted DEF ReaderInv
<1>3. \A k \in 1 .. Len(printed) : k \in 1 .. Here /\ k # Here
  BY <1>1
<1> SUFFICES ASSUME NEW s \in Found', section'[s].above # 0
             PROVE  /\ section'[s].above \in 1 .. Here
                    /\ printed'[section'[s].above].kind = "unit"
                    /\ printed'[section'[s].above].page = section'[s].start
                    /\ \A other \in Found' :
                          /\ section'[s].above \notin LinesOf(other)'
                          /\ other # s => section'[other].above # section'[s].above
  BY <1>2 DEF AboveIsOwn
<1> DEFINE a == section'[s].above
<1>4. \A other \in Found' : Fresh(other) => LinesOf(other)' = {}
  BY DEF Fresh, LinesOf, RangeOf
<1>5. CASE Kept(s)
  <2>1. s \in Found /\ a = section[s].above /\ section'[s].start = section[s].start
    BY <1>5 DEF Kept
  <2>2. /\ a \in 1 .. Len(printed) /\ printed[a].kind = "unit"
        /\ printed[a].page = section[s].start
        /\ \A other \in Found : a \notin LinesOf(other) /\ (other # s => section[other].above # a)
    BY <2>1 DEF ReaderInv, AboveIsOwn
  <2> HIDE DEF a
  <2>3. ASSUME NEW other \in Found', Kept(other)
        PROVE  a \notin LinesOf(other)' /\ (other # s => section'[other].above # a)
    BY <2>2, <2>3, <1>3 DEF Kept
  <2>4. ASSUME NEW other \in Found', Fresh(other)
        PROVE  a \notin LinesOf(other)' /\ section'[other].above # a
    <3>1. a # 0
      BY DEF a
    <3>2. above # 0 /\ current = "none" => section[s].above # above
      BY <2>1, ReaderAssumption DEF ReaderInv, AboveIsFree, Found
    <3>. QED BY <3>1, <3>2, <2>1, <2>4, <1>4 DEF Fresh
  <2>5. a \in 1 .. Here /\ printed'[a] = printed[a]
    BY <2>2, <1>2, <1>3
  <2>. QED BY <2>1, <2>2, <2>3, <2>4, <2>5 DEF a
<1>6. CASE Fresh(s)
  <2>1. /\ a = above /\ above # 0 /\ current = "none" /\ section'[s].start = page /\ s = current'
        /\ s \notin Found
    BY <1>6 DEF Fresh
  <2>2. /\ a \in 1 .. Len(printed) /\ printed[a].kind = "unit" /\ printed[a].page = page
        /\ \A other \in Found : a \notin LinesOf(other) /\ section[other].above # a
    BY <2>1, ReaderAssumption DEF ReaderInv, AboveIsFree, Found
  <2> HIDE DEF a
  <2>3. ASSUME NEW other \in Found', Kept(other)
        PROVE  a \notin LinesOf(other)' /\ section'[other].above # a
    BY <2>2, <2>3, <1>3 DEF Kept
  <2>4. ASSUME NEW other \in Found', Fresh(other)
        PROVE  a \notin LinesOf(other)' /\ other = s
    BY <2>1, <2>4, <1>4 DEF Fresh
  <2>5. a \in 1 .. Here /\ printed'[a] = printed[a]
    BY <2>2, <1>2, <1>3
  <2>. QED BY <2>1, <2>2, <2>3, <2>4, <2>5 DEF a
<1>. QED BY <1>5, <1>6

LEMMA DeclarationsStayRead ==
    ASSUME ReaderInv, NEW kind \in Kinds, NEW name \in TableNames, PrintLine(kind, name),
           \A s \in Found' : Kept(s) \/ Fresh(s),
           declared' = IF kind = "declaration" THEN Here ELSE declared
    PROVE  DeclarationsRead'
<1>1. Len(printed) \in Nat /\ Here = Len(printed) + 1
  BY TableNow DEF ReaderInv
<1>2. /\ Len(printed') = Here /\ printed'[Here].kind = kind
      /\ \A k \in 1 .. Len(printed) : printed'[k] = printed[k]
  BY LinePrinted DEF ReaderInv
<1>3. Here \in 1 .. Here /\ \A k \in 1 .. Len(printed) : k \in 1 .. Here
  BY <1>1
<1>4. declared # 0 => declared \in 1 .. Len(printed) /\ printed[declared].kind = "declaration"
  BY DEF ReaderInv, DeclarationsRead
<1>5. ASSUME NEW s \in Found', section'[s].declared # 0
      PROVE  /\ section'[s].declared \in 1 .. Here
             /\ printed'[section'[s].declared].kind = "declaration"
  <2>1. CASE Kept(s)
    BY <2>1, <1>2, <1>3, <1>5 DEF Kept, ReaderInv, DeclarationsRead
  <2>2. CASE Fresh(s)
    BY <2>2, <1>2, <1>3, <1>4, <1>5 DEF Fresh
  <2>. QED BY <2>1, <2>2
<1>6. declared' # 0 => declared' \in 1 .. Here /\ printed'[declared'].kind = "declaration"
  BY <1>2, <1>3, <1>4
<1>. QED BY <1>2, <1>5, <1>6 DEF DeclarationsRead

LEMMA OthersStayTitled ==
    ASSUME ReaderInv, NEW kind \in Kinds, NEW name \in TableNames, PrintLine(kind, name)
    PROVE  \A s \in Found :
             /\ s # current /\ s # current' /\ section'[s] = section[s]
             /\ s \in ended' => s \in ended
             => \E t \in 1 .. Len(printed') : Titled(s, t)'
<1> SUFFICES ASSUME NEW s \in Found, s # current, s # current', section'[s] = section[s],
                    s \in ended' => s \in ended
             PROVE  \E t \in 1 .. Len(printed') : Titled(s, t)'
  OBVIOUS
<1>1. PICK t \in 1 .. Len(printed) : Titled(s, t)
  BY DEF ReaderInv, SectionsTitled
<1>2. Titled(s, t)'
  BY <1>1, TitledElsewhere DEF ReaderInv
<1>3. Len(printed) \in Nat /\ Here = Len(printed) + 1 /\ Len(printed') = Here
  BY TableNow, LinePrinted DEF ReaderInv
<1>. QED BY <1>2, <1>3

--------------------------------------------------------------------------------
(* The steps of the reading.                                                            *)

\* A title with no section open.
LEMMA ReaderTitleOutside ==
    ASSUME ReaderInv, NEW name \in Wanted, TitleOutside(name)
    PROVE  ReaderInv'
<1>0. /\ ReaderTypeOK /\ TablesBegin /\ OpenUnderTitle /\ SectionsTitled
      /\ AboveIsFree /\ AboveIsOwn /\ DeclarationsRead /\ GivenOut
  BY DEF ReaderInv
<1>1. /\ "title" \in Kinds /\ name \in TableNames /\ "none" # name
      /\ current = "none" /\ PrintLine("title", name)
      /\ ended' = ended /\ UNCHANGED <<page, above, declared, tooLong, extracted>>
  BY ReaderAssumption DEF TitleOutside, Kinds, TableNames
<1>2. Len(printed) \in Nat /\ Here = Len(printed) + 1 /\ Table.number \in 0 .. Len(printed)
  BY <1>0, TableNow
<1>3. /\ printed' \in Seq(PrintedLine) /\ Len(printed') = Here /\ TablesBegin'
      /\ \A k \in 1 .. Len(printed) : printed'[k] = printed[k]
      /\ printed'[Here].kind = "title" /\ Table' = TableOf("title", name) /\ extracted = NotYet
  BY <1>0, <1>1, LinePrinted
<1>4. Table'.name = name
  BY <1>3, TablesPrinted
<1>5. GivenOut'
  BY <1>1, <1>3 DEF GivenOut
<1>6. CASE CanOpen(name, section)
  <2>1. section' = [section EXCEPT ![name] = Opened(name)] /\ current' = name
    BY <1>6 DEF TitleOutside
  <2>2. name \notin ended /\ section[name] = NoSection /\ name \notin Found
    BY <1>1, <1>6 DEF CanOpen, Found
  <2>3. /\ Opened(name) \in OpenedSection /\ Opened(name).start = page
        /\ Opened(name).above = above /\ Opened(name).declared = declared
        /\ Opened(name).unit = 0 /\ Opened(name).lines = <<>>
    BY <1>0 DEF Opened, OpenedSection, ReaderTypeOK
  <2>4. /\ section'[name] = Opened(name)
        /\ \A s \in Wanted \ {name} : section'[s] = section[s]
    BY <1>0, <2>1 DEF ReaderTypeOK
  <2>5. Found' = Found \cup {name}
    BY <1>0, <2>3, <2>4, FoundHaveSections DEF Found
  <2>6. ReaderTypeOK'
    BY <1>0, <1>1, <1>3, <2>1, <2>3 DEF ReaderTypeOK
  <2>7. \A s \in Found : s # name /\ section'[s] = section[s] /\ LinesOf(s)' = LinesOf(s)
    BY <2>2, <2>4 DEF LinesOf, Found
  <2>8. \A s \in Found' : Kept(s) \/ Fresh(s)
    BY <1>1, <2>1, <2>2, <2>3, <2>4, <2>5, <2>7 DEF Kept, Fresh
  <2>9. name # Table.name
    BY <1>0, <1>1, <2>2 DEF OpenUnderTitle
  <2>10. OpenUnderTitle'
    BY <1>0, <1>1, <1>4, <2>1, <2>2, <2>5 DEF OpenUnderTitle
  <2>11. SectionsTitled'
    <3>1. \E t \in 1 .. Len(printed') : Titled(name, t)'
      BY <1>0, <1>1, <2>2, <2>3, <2>4, <2>9, TitledOpened
    <3>2. \A s \in Found : s # current /\ s # current' /\ section'[s] = section[s]
      BY <1>1, <2>1, <2>7, ReaderAssumption DEF Found
    <3>3. \A s \in Found : \E t \in 1 .. Len(printed') : Titled(s, t)'
      BY <1>1, <3>2, OthersStayTitled
    <3>. QED BY <2>5, <3>1, <3>3 DEF SectionsTitled
  <2>12. AboveIsFree'
    <3>1. LinesOf(name)' = {}
      BY <2>3, <2>4 DEF LinesOf, RangeOf
    <3>2. \A s \in Found : s # "none"
      BY ReaderAssumption DEF Found
    <3>. QED BY <1>0, <1>1, <1>2, <1>3, <2>1, <2>3, <2>4, <2>5, <2>7, <3>1, <3>2 DEF AboveIsFree
  <2>13. AboveIsOwn' /\ DeclarationsRead'
    BY <1>1, <2>8, UnitsStayOwn, DeclarationsStayRead
  <2>. QED BY <1>3, <1>5, <2>6, <2>10, <2>11, <2>12, <2>13 DEF ReaderInv
<1>7. CASE ~CanOpen(name, section)
  <2>1. UNCHANGED <<section, current>>
    BY <1>7 DEF TitleOutside
  <2>2. Found' = Found /\ \A s \in Found : LinesOf(s)' = LinesOf(s)
    BY <2>1 DEF Found, LinesOf
  <2>3. ReaderTypeOK'
    BY <1>0, <1>1, <1>3, <2>1 DEF ReaderTypeOK
  <2>4. \A s \in Found' : Kept(s) \/ Fresh(s)
    BY <2>1, <2>2 DEF Kept
  <2>5. name \in ended \cup Found
    BY <1>1, <1>7 DEF CanOpen, Found
  <2>6. OpenUnderTitle'
    BY <1>0, <1>1, <1>4, <2>1, <2>2, <2>5 DEF OpenUnderTitle
  <2>7. SectionsTitled'
    <3>1. \A s \in Found : s # current /\ s # current' /\ section'[s] = section[s]
      BY <1>1, <2>1, ReaderAssumption DEF Found
    <3>. QED BY <1>1, <2>2, <3>1, OthersStayTitled DEF SectionsTitled
  <2>8. AboveIsFree'
    BY <1>0, <1>1, <1>2, <1>3, <2>1, <2>2 DEF AboveIsFree
  <2>9. AboveIsOwn' /\ DeclarationsRead'
    BY <1>1, <2>4, UnitsStayOwn, DeclarationsStayRead
  <2>. QED BY <1>3, <1>5, <2>3, <2>6, <2>7, <2>8, <2>9 DEF ReaderInv
<1>. QED BY <1>6, <1>7

\* The title of the open section, again.
LEMMA ReaderTitleRepeated ==
    ASSUME ReaderInv, NEW name \in Wanted, TitleRepeated(name)
    PROVE  ReaderInv'
<1>0. /\ ReaderTypeOK /\ TablesBegin /\ OpenUnderTitle /\ SectionsTitled
      /\ AboveIsFree /\ AboveIsOwn /\ DeclarationsRead /\ GivenOut
  BY DEF ReaderInv
<1>1. /\ "title" \in Kinds /\ name \in TableNames /\ name = current /\ current # "none"
      /\ PrintLine("title", name)
      /\ UNCHANGED <<page, section, current, ended, above, declared, tooLong, extracted>>
  BY DEF TitleRepeated, Kinds, TableNames
<1>2. Len(printed) \in Nat /\ Here = Len(printed) + 1
  BY <1>0, TableNow
<1>3. name = Table.name
  BY <1>0, <1>1 DEF OpenUnderTitle
<1>4. /\ printed' \in Seq(PrintedLine) /\ Len(printed') = Here /\ TablesBegin'
      /\ \A k \in 1 .. Len(printed) : printed'[k] = printed[k]
      /\ Table' = Table /\ TableOf("title", name) = Table /\ extracted = NotYet
  BY <1>0, <1>1, <1>3, LinePrinted, TablesPrinted
<1>5. Found' = Found /\ \A s \in Found : LinesOf(s)' = LinesOf(s)
  BY <1>1 DEF Found, LinesOf
<1>6. ReaderTypeOK' /\ GivenOut'
  BY <1>0, <1>1, <1>4 DEF ReaderTypeOK, GivenOut
<1>7. \A s \in Found' : Kept(s) \/ Fresh(s)
  BY <1>1, <1>5 DEF Kept
<1>8. OpenUnderTitle'
  BY <1>0, <1>1, <1>4, <1>5 DEF OpenUnderTitle
<1>9. SectionsTitled'
  <2>1. \A s \in Found : s # current => \E t \in 1 .. Len(printed') : Titled(s, t)'
    BY <1>1, OthersStayTitled
  <2>2. current \in Found
    BY <1>0, <1>1 DEF OpenUnderTitle
  <2>3. PICK t \in 1 .. Len(printed) : Titled(current, t)
    BY <1>0, <2>2 DEF SectionsTitled
  <2>4. Table = [number |-> t, name |-> current] /\ current \notin ended
    BY <1>0, <1>1, <2>3 DEF Titled, OpenUnderTitle
  <2>5. \A s : s = current => Titled(s, t)'
    BY <1>0, <1>1, <1>4, <2>2, <2>3, <2>4, TitledKept
  <2>6. t \in 1 .. Len(printed')
    BY <1>2, <1>4
  <2>. QED BY <1>5, <2>1, <2>5, <2>6 DEF SectionsTitled
<1>10. AboveIsFree'
  BY <1>0, <1>1, <1>2, <1>4, <1>5 DEF AboveIsFree
<1>11. AboveIsOwn' /\ DeclarationsRead'
  BY <1>1, <1>7, UnitsStayOwn, DeclarationsStayRead
<1>. QED BY <1>4, <1>6, <1>8, <1>9, <1>10, <1>11 DEF ReaderInv

\* A unit, a declaration, an amount or another title with no section open.
LEMMA ReaderLineOutside ==
    ASSUME ReaderInv, NEW kind \in Kinds \ {"title"}, LineOutside(kind)
    PROVE  ReaderInv'
<1>0. /\ ReaderTypeOK /\ TablesBegin /\ OpenUnderTitle /\ SectionsTitled
      /\ AboveIsFree /\ AboveIsOwn /\ DeclarationsRead /\ GivenOut
  BY DEF ReaderInv
<1>1. /\ kind \in Kinds /\ "none" \in TableNames /\ current = "none"
      /\ PrintLine(kind, "none")
      /\ declared' = IF kind = "declaration" THEN Here ELSE declared
      /\ above' = IF kind = "unit" THEN Here ELSE above
      /\ UNCHANGED <<page, section, current, ended, tooLong, extracted>>
  BY DEF LineOutside, TableNames
<1>2. Len(printed) \in Nat /\ Here \in Nat /\ Here = Len(printed) + 1
  BY <1>0, TableNow
<1>3. /\ printed' \in Seq(PrintedLine) /\ Len(printed') = Here /\ TablesBegin'
      /\ \A k \in 1 .. Len(printed) : printed'[k] = printed[k]
      /\ printed'[Here].kind = kind /\ printed'[Here].page = page
      /\ Table' = TableOf(kind, "none") /\ extracted = NotYet
  BY <1>0, <1>1, LinePrinted
<1>4. Found' = Found /\ \A s \in Found : LinesOf(s)' = LinesOf(s)
  BY <1>1 DEF Found, LinesOf
<1>5. ReaderTypeOK' /\ GivenOut'
  BY <1>0, <1>1, <1>2, <1>3 DEF ReaderTypeOK, GivenOut
<1>6. \A s \in Found' : Kept(s) \/ Fresh(s)
  BY <1>1, <1>4 DEF Kept
<1>7. Table' = Table \/ Table'.name = "other"
  BY <1>3, TablesPrinted DEF Kinds
<1>8. OpenUnderTitle'
  BY <1>0, <1>1, <1>4, <1>7, ReaderAssumption DEF OpenUnderTitle
<1>9. SectionsTitled'
  <2>1. \A s \in Found : s # current
    BY <1>1, ReaderAssumption DEF Found
  <2>. QED BY <1>1, <1>4, <2>1, OthersStayTitled DEF SectionsTitled
<1>10. AboveIsFree'
  <2>1. CASE kind = "unit"
    <3>1. \A s \in Found : Here \notin LinesOf(s)
      BY <1>0, <1>2, LinesArePrinted
    <3>2. \A s \in Found : section[s].above # Here
      BY <1>0, <1>2 DEF AboveIsOwn
    <3>3. Here \in 1 .. Here
      BY <1>2
    <3>. QED BY <1>1, <1>3, <1>4, <2>1, <3>1, <3>2, <3>3 DEF AboveIsFree
  <2>2. CASE kind # "unit"
    BY <1>0, <1>1, <1>2, <1>3, <1>4, <2>2 DEF AboveIsFree
  <2>. QED BY <2>1, <2>2
<1>11. AboveIsOwn' /\ DeclarationsRead'
  BY <1>1, <1>6, UnitsStayOwn, DeclarationsStayRead
<1>. QED BY <1>3, <1>5, <1>8, <1>9, <1>10, <1>11 DEF ReaderInv

\* A line of a section that is given up.
LEMMA ReaderLineTooFar ==
    ASSUME ReaderInv, NEW kind \in {"unit", "declaration", "amounts"}, LineTooFar(kind)
    PROVE  ReaderInv'
<1>0. /\ ReaderTypeOK /\ TablesBegin /\ OpenUnderTitle /\ SectionsTitled
      /\ AboveIsFree /\ AboveIsOwn /\ DeclarationsRead /\ GivenOut
  BY DEF ReaderInv
<1>1. /\ kind \in Kinds /\ "none" \in TableNames /\ current # "none" /\ current' = "none"
      /\ PrintLine(kind, "none")
      /\ declared' = IF kind = "declaration" THEN Here ELSE declared
      /\ tooLong' = tooLong \cup {current}
      /\ UNCHANGED <<page, section, ended, above, extracted>>
  BY DEF LineTooFar, TableNames, Kinds
<1>2. Len(printed) \in Nat /\ Here \in Nat /\ Here = Len(printed) + 1
  BY <1>0, TableNow
<1>3. /\ printed' \in Seq(PrintedLine) /\ Len(printed') = Here /\ TablesBegin'
      /\ \A k \in 1 .. Len(printed) : printed'[k] = printed[k]
      /\ Table' = Table /\ TableOf(kind, "none") = Table /\ extracted = NotYet
  BY <1>0, <1>1, LinePrinted, TablesPrinted
<1>4. Found' = Found /\ \A s \in Found : LinesOf(s)' = LinesOf(s)
  BY <1>1 DEF Found, LinesOf
<1>5. current \in Found /\ current \in Wanted /\ current \notin ended
  BY <1>0, <1>1 DEF OpenUnderTitle, Found
<1>6. ReaderTypeOK' /\ GivenOut'
  BY <1>0, <1>1, <1>2, <1>3, <1>5 DEF ReaderTypeOK, GivenOut
<1>7. \A s \in Found' : Kept(s) \/ Fresh(s)
  BY <1>1, <1>4 DEF Kept
<1>8. OpenUnderTitle'
  BY <1>0, <1>1, <1>3, <1>4, <1>5 DEF OpenUnderTitle
<1>9. SectionsTitled'
  <2>1. \A s \in Found : s # current /\ s # current' => \E t \in 1 .. Len(printed') : Titled(s, t)'
    BY <1>1, OthersStayTitled
  <2>2. \A s \in Found : s # current'
    BY <1>1, ReaderAssumption DEF Found
  <2>3. PICK t \in 1 .. Len(printed) : Titled(current, t)
    BY <1>0, <1>5 DEF SectionsTitled
  <2>4. \A s : s = current => Titled(s, t)'
    BY <1>0, <1>1, <1>5, <2>2, <2>3, TitledKept
  <2>5. t \in 1 .. Len(printed')
    BY <1>2, <1>3
  <2>. QED BY <1>4, <2>1, <2>2, <2>4, <2>5 DEF SectionsTitled
<1>10. above = 0
  <2>1. page - section[current].start >= MaxSectionPages /\ MaxSectionPages >= 1
    BY ReaderAssumption DEF LineTooFar, TooLong
  <2>2. section[current].start # page
    BY <1>0, <2>1, ReaderAssumption DEF ReaderTypeOK
  <2>. QED BY <1>0, <1>1, <2>2 DEF AboveIsFree
<1>11. AboveIsFree'
  BY <1>1, <1>10 DEF AboveIsFree
<1>12. AboveIsOwn' /\ DeclarationsRead'
  BY <1>1, <1>7, UnitsStayOwn, DeclarationsStayRead
<1>. QED BY <1>3, <1>6, <1>8, <1>9, <1>11, <1>12 DEF ReaderInv

LEMMA ReaderNextPage ==
    ASSUME ReaderInv, NextPage
    PROVE  ReaderInv'
<1>0. /\ ReaderTypeOK /\ TablesBegin /\ OpenUnderTitle /\ SectionsTitled
      /\ AboveIsFree /\ AboveIsOwn /\ DeclarationsRead /\ GivenOut
  BY DEF ReaderInv
<1>1. /\ page' = page + 1 /\ above' = 0
      /\ UNCHANGED <<printed, section, current, ended, declared, tooLong, extracted>>
  BY DEF NextPage
<1>2. Found' = Found /\ Table' = Table /\ \A s : LinesOf(s)' = LinesOf(s)
  BY <1>1 DEF Found, Table, LinesOf
<1>3. \A t : AmountLines(t)' = AmountLines(t)
  BY <1>1 DEF AmountLines
<1>4. \A s, t : Titled(s, t) => Titled(s, t)'
  BY <1>1, <1>2, <1>3 DEF Titled
<1>5. SectionsTitled'
  BY <1>0, <1>1, <1>2, <1>4 DEF SectionsTitled
<1>6. ReaderTypeOK' /\ TablesBegin' /\ OpenUnderTitle' /\ AboveIsFree'
  BY <1>0, <1>1, <1>2 DEF ReaderTypeOK, TablesBegin, OpenUnderTitle, AboveIsFree
<1>7. AboveIsOwn' /\ DeclarationsRead'
  BY <1>0, <1>1, <1>2 DEF AboveIsOwn, DeclarationsRead
<1>8. GivenOut'
  BY <1>1 DEF NextPage, GivenOut
<1>. QED BY <1>5, <1>6, <1>7, <1>8 DEF ReaderInv

\* A line of the open section.
LEMMA ReaderLineInside ==
    ASSUME ReaderInv, NEW kind \in {"unit", "declaration", "amounts"}, LineInside(kind)
    PROVE  ReaderInv'
<1> DEFINE old == section[current]
           new == section'[current]
           sets == old.header /\ old.unit = 0 /\ kind \in {"unit", "declaration"}
<1>0. /\ ReaderTypeOK /\ TablesBegin /\ OpenUnderTitle /\ SectionsTitled
      /\ AboveIsFree /\ AboveIsOwn /\ DeclarationsRead /\ GivenOut
  BY DEF ReaderInv
<1>1. /\ kind \in Kinds /\ "none" \in TableNames /\ current # "none"
      /\ PrintLine(kind, "none")
      /\ declared' = IF kind = "declaration" THEN Here ELSE declared
      /\ UNCHANGED <<page, current, ended, above, tooLong, extracted>>
  BY DEF LineInside, TableNames, Kinds
<1>2. Len(printed) \in Nat /\ Here \in Nat /\ Here = Len(printed) + 1
  BY <1>0, TableNow
<1>3. /\ printed' \in Seq(PrintedLine) /\ Len(printed') = Here /\ TablesBegin'
      /\ \A k \in 1 .. Len(printed) : printed'[k] = printed[k]
      /\ printed'[Here].kind = kind /\ printed'[Here].table = Table
      /\ Table' = Table /\ TableOf(kind, "none") = Table /\ extracted = NotYet
  BY <1>0, <1>1, LinePrinted, TablesPrinted
<1>4. current \in Found /\ current \in Wanted /\ current \notin ended /\ old \in OpenedSection
  BY <1>0, <1>1, FoundHaveSections DEF OpenUnderTitle, Found
<1>5. /\ new = [old EXCEPT !.lines = Append(old.lines, Here),
                           !.header = old.header /\ kind # "amounts",
                           !.unit = IF sets THEN Here ELSE old.unit]
      /\ \A s \in Wanted \ {current} : section'[s] = section[s]
      /\ section' = [section EXCEPT ![current] = new]
  <2> DEFINE r == [old EXCEPT !.lines = Append(old.lines, Here),
                              !.header = old.header /\ kind # "amounts",
                              !.unit = IF sets THEN Here ELSE old.unit]
  <2>1. section' = [section EXCEPT ![current] = r]
    BY DEF LineInside
  <2>2. section \in [Wanted -> {NoSection} \cup OpenedSection]
    BY <1>0 DEF ReaderTypeOK
  <2> HIDE DEF r, old
  <2>3. section'[current] = r /\ \A s \in Wanted \ {current} : section'[s] = section[s]
    BY <1>4, <2>1, <2>2
  <2>. QED BY <2>1, <2>3 DEF r
<1>6. /\ new.start = old.start /\ new.above = old.above /\ new.declared = old.declared
      /\ new.lines = Append(old.lines, Here)
      /\ new.header = (old.header /\ kind # "amounts")
      /\ new.unit = IF sets THEN Here ELSE old.unit
  BY <1>4, <1>5 DEF OpenedSection
<1>7. new \in OpenedSection
  <2>1. /\ Append(old.lines, Here) \in Seq(Nat)
        /\ (IF sets THEN Here ELSE old.unit) \in Nat
    BY <1>2, <1>4 DEF OpenedSection
  <2>2. (old.header /\ kind # "amounts") \in BOOLEAN
    BY <1>4 DEF OpenedSection
  <2> HIDE DEF new, sets
  <2>. QED BY <1>4, <1>5, <2>1, <2>2 DEF OpenedSection
<1>8. /\ LinesOf(current)' = LinesOf(current) \cup {Here}
      /\ RangeOf(new.lines) = RangeOf(old.lines) \cup {Here}
  <2>1. old.lines \in Seq(Nat)
    BY <1>4 DEF OpenedSection
  <2>2. LinesOf(current)' = RangeOf(new.lines)
    BY <1>1 DEF LinesOf
  <2>3. RangeOf(Append(old.lines, Here)) = RangeOf(old.lines) \cup {Here}
    <3> DEFINE q == old.lines
    <3>1. q \in Seq(Nat) /\ Here \in Nat
      BY <2>1, <1>2
    <3> HIDE DEF q, Here
    <3>2. /\ Len(q) \in Nat /\ Len(Append(q, Here)) = Len(q) + 1
          /\ Append(q, Here)[Len(q) + 1] = Here
          /\ \A k \in 1 .. Len(q) : Append(q, Here)[k] = q[k]
      BY <3>1
    <3>3. \A k \in 1 .. Len(q) + 1 : k \in 1 .. Len(q) \/ k = Len(q) + 1
      BY <3>2
    <3>4. Len(q) + 1 \in 1 .. Len(q) + 1 /\ \A k \in 1 .. Len(q) : k \in 1 .. Len(q) + 1
      BY <3>2
    <3>. QED BY <3>2, <3>3, <3>4 DEF RangeOf, q
  <2>. QED BY <2>2, <2>3, <1>6 DEF LinesOf
<1>9. \A s \in Wanted : s # current => section'[s] = section[s] /\ LinesOf(s)' = LinesOf(s)
  BY <1>5 DEF LinesOf
<1> HIDE DEF new, old, sets
<1>10. Found' = Found
  <2>1. new # NoSection
    BY <1>0, <1>7, FoundHaveSections
  <2>. QED BY <1>4, <1>9, <2>1 DEF Found, new
<1>11. ReaderTypeOK' /\ GivenOut'
  BY <1>0, <1>1, <1>2, <1>3, <1>4, <1>5, <1>7 DEF ReaderTypeOK, GivenOut
<1>12. \A s \in Found' : Kept(s) \/ Fresh(s)
  <2>1. ASSUME NEW s \in Found PROVE Kept(s)
    <3>1. CASE s = current
      BY <1>6, <1>8, <3>1 DEF Kept, LinesOf, new, old
    <3>2. CASE s # current
      BY <1>9, <3>2 DEF Kept, Found
    <3>. QED BY <3>1, <3>2
  <2>. QED BY <1>10, <2>1
<1>13. OpenUnderTitle'
  BY <1>0, <1>1, <1>3, <1>10 DEF OpenUnderTitle
<1>14. SectionsTitled'
  <2>1. \A s \in Found : s # current => \E t \in 1 .. Len(printed') : Titled(s, t)'
    BY <1>1, <1>9, OthersStayTitled DEF Found
  <2>2. PICK t \in 1 .. Len(printed) : Titled(current, t)
    BY <1>0, <1>4 DEF SectionsTitled
  <2>3. /\ printed[t].table = [number |-> t, name |-> current]
        /\ old.declared < t
        /\ \A k \in LinesOf(current) :
              k \in t .. Len(printed) /\ printed[k].table = [number |-> t, name |-> current]
        /\ AmountLines(t) \subseteq LinesOf(current)
        /\ Table = [number |-> t, name |-> current]
        /\ old.header => \A k \in LinesOf(current) : printed[k].kind # "amounts"
        /\ old.unit # 0 => /\ old.unit \in LinesOf(current)
                           /\ \A k \in AmountLines(t) : old.unit < k
    BY <2>2 DEF Titled, old
  <2>4. /\ t \in 1 .. Here /\ Here \in t .. Here
        /\ \A k \in LinesOf(current) : k \in 1 .. Len(printed) /\ k \in t .. Here /\ k < Here
    BY <1>2, <2>3
  <2>5. /\ \A k \in AmountLines(t)' : k \in AmountLines(t) \/ k = Here
        /\ kind # "amounts" => AmountLines(t)' \subseteq AmountLines(t)
    BY <1>0, <1>1, AmountsPrinted
  <2>6. \A k \in LinesOf(current)' :
          k \in t .. Here /\ printed'[k].table = [number |-> t, name |-> current]
    BY <1>3, <1>8, <2>3, <2>4
  <2>7. AmountLines(t)' \subseteq LinesOf(current)'
    BY <1>8, <2>3, <2>5
  <2>8. new.header => \A k \in LinesOf(current)' : printed'[k].kind # "amounts"
    BY <1>3, <1>6, <1>8, <2>3, <2>4
  <2>9. new.unit # 0 => /\ new.unit \in LinesOf(current)'
                        /\ \A k \in AmountLines(t)' : new.unit < k
    <3>1. CASE sets
      <4>1. kind # "amounts" /\ old.header
        BY <3>1 DEF sets
      <4>2. AmountLines(t) = {}
        BY <2>3, <4>1 DEF AmountLines
      <4>. QED BY <1>6, <1>8, <2>5, <3>1, <4>1, <4>2
    <3>2. CASE ~sets
      BY <1>6, <1>8, <2>3, <2>4, <2>5, <3>2
    <3>. QED BY <3>1, <3>2
  <2>10. \A s : s = current => Titled(s, t)'
    BY <1>1, <1>3, <1>4, <1>6, <2>3, <2>4, <2>6, <2>7, <2>8, <2>9 DEF Titled, new
  <2>. QED BY <1>3, <1>10, <2>1, <2>4, <2>10 DEF SectionsTitled
<1>15. AboveIsFree'
  <2>1. above \in 1 .. Len(printed) => above \in 1 .. Here /\ above # Here
    BY <1>2
  <2>2. \A s \in Found : /\ section'[s].above = section[s].above
                         /\ section'[s].start = section[s].start
                         /\ LinesOf(s)' \subseteq LinesOf(s) \cup {Here}
    <3>1. \A s \in Found : Kept(s) \/ Fresh(s)
      BY <1>10, <1>12
    <3>. QED BY <3>1 DEF Kept, Fresh
  <2>. QED BY <1>0, <1>1, <1>3, <1>4, <1>10, <2>1, <2>2 DEF AboveIsFree
<1>16. AboveIsOwn' /\ DeclarationsRead'
  BY <1>1, <1>12, UnitsStayOwn, DeclarationsStayRead
<1>. QED BY <1>3, <1>11, <1>13, <1>14, <1>15, <1>16 DEF ReaderInv

\* Another title ends the open section, and may open its own.
LEMMA ReaderTitleEnds ==
    ASSUME ReaderInv, NEW kind \in {"title", "other"}, NEW name \in TableNames,
           kind = "title" => name \in Wanted, kind = "other" => name = "other",
           TitleEnds(kind, name)
    PROVE  ReaderInv'
<1> DEFINE left == IF section[current].header
                   THEN [section EXCEPT ![current] = NoSection] ELSE section
           opens == kind = "title" /\ CanOpen(name, left)
           opened == [Opened(name) EXCEPT !.above = 0]
<1>0. /\ ReaderTypeOK /\ TablesBegin /\ OpenUnderTitle /\ SectionsTitled
      /\ AboveIsFree /\ AboveIsOwn /\ DeclarationsRead /\ GivenOut
  BY DEF ReaderInv
<1>1. /\ kind \in Kinds /\ current # "none" /\ name # current /\ PrintLine(kind, name)
      /\ above' = 0
      /\ ended' = IF section[current].header THEN ended ELSE ended \cup {current}
      /\ UNCHANGED <<page, declared, tooLong, extracted>>
  BY DEF TitleEnds, Kinds
<1>2. IF opens THEN section' = [left EXCEPT ![name] = opened] /\ current' = name
      ELSE section' = left /\ current' = "none"
  BY DEF TitleEnds
<1>3. Len(printed) \in Nat /\ Here \in Nat /\ Here = Len(printed) + 1
      /\ Table.number \in 0 .. Len(printed)
  BY <1>0, TableNow
<1>4. current \in Found /\ current \in Wanted /\ current \notin ended /\ current \notin tooLong
      /\ Table.name = current
  BY <1>0, <1>1 DEF OpenUnderTitle, Found
<1>5. TableOf(kind, name) = [number |-> Here, name |-> name]
  BY <1>1, <1>4, TablesPrinted
<1>6. /\ printed' \in Seq(PrintedLine) /\ Len(printed') = Here /\ TablesBegin'
      /\ \A k \in 1 .. Len(printed) : printed'[k] = printed[k]
      /\ Table' = [number |-> Here, name |-> name] /\ extracted = NotYet
  BY <1>0, <1>1, <1>5, LinePrinted
<1>7. /\ opened \in OpenedSection /\ opened.start = page /\ opened.above = 0
      /\ opened.declared = declared /\ opened.unit = 0 /\ opened.lines = <<>>
  <2> DEFINE o == Opened(name)
  <2>1. /\ o \in OpenedSection /\ o.start = page /\ o.declared = declared
        /\ o.unit = 0 /\ o.lines = <<>>
    BY <1>0 DEF Opened, OpenedSection, ReaderTypeOK
  <2>2. opened = [o EXCEPT !.above = 0]
    OBVIOUS
  <2> HIDE DEF o, opened
  <2>. QED BY <2>1, <2>2 DEF OpenedSection
<1>8. /\ left \in [Wanted -> {NoSection} \cup OpenedSection]
      /\ \A s \in Wanted \ {current} : left[s] = section[s]
      /\ left[current] = IF section[current].header THEN NoSection ELSE section[current]
  BY <1>0, <1>4 DEF ReaderTypeOK
<1>9. opens => name \in Wanted /\ name \notin ended' /\ section[name] = NoSection /\ name \notin Found
  BY <1>1, <1>8 DEF CanOpen, Found
<1> HIDE DEF left, opened
<1>10. /\ section' \in [Wanted -> {NoSection} \cup OpenedSection]
       /\ opens => section'[name] = opened /\ current' = name
       /\ \A s \in Wanted : s # current /\ ~(opens /\ s = name) => section'[s] = section[s]
       /\ section'[current] = left[current]
  BY <1>1, <1>2, <1>4, <1>7, <1>8, <1>9
<1> HIDE DEF opens
<1>11. \A s \in Found' : \/ s \in Found /\ section'[s] = section[s] /\ ~(opens /\ s = name)
                         \/ opens /\ s = name
  BY <1>4, <1>8, <1>10 DEF Found
<1>12. /\ \A s \in Found : s # current => s \in Found' /\ section'[s] = section[s] /\ ~(opens /\ s = name)
       /\ ~section[current].header => current \in Found'
       /\ opens => name \in Found'
  <2>1. opened # NoSection
    BY <1>0, <1>7, FoundHaveSections
  <2>. QED BY <1>4, <1>8, <1>9, <1>10, <2>1 DEF Found
<1>13. current' = (IF opens THEN name ELSE "none")
  BY <1>2 DEF opens
<1>14. ReaderTypeOK' /\ GivenOut'
  BY <1>0, <1>1, <1>4, <1>6, <1>9, <1>10, <1>13 DEF ReaderTypeOK, GivenOut
<1>15. \A s \in Found' : Kept(s) \/ Fresh(s)
  <2>1. ASSUME NEW s \in Found, section'[s] = section[s] PROVE Kept(s)
    <3>1. LinesOf(s)' = LinesOf(s)
      BY <2>1 DEF LinesOf
    <3>. QED BY <2>1, <3>1 DEF Kept
  <2>2. ASSUME opens PROVE Fresh(name)
    <3>1. section'[name] = opened /\ current' = name /\ name \notin Found
      BY <2>2, <1>9, <1>10
    <3>2. /\ opened.start = page /\ opened.above = 0
          /\ opened.declared = declared /\ opened.lines = <<>>
      BY <1>7
    <3>. QED BY <3>1, <3>2 DEF Fresh
  <2>. QED BY <1>11, <2>1, <2>2
<1>16. OpenUnderTitle'
  <2>1. opens => name \in Found' \ (ended' \cup tooLong')
    BY <1>0, <1>1, <1>9, <1>12 DEF OpenUnderTitle
  <2>2. ~opens /\ name \in Wanted => name \in Found' \cup ended'
    <3> SUFFICES ASSUME ~opens, name \in Wanted PROVE name \in Found' \cup ended'
      OBVIOUS
    <3>1. kind = "title"
      BY ReaderAssumption
    <3>2. name \in ended' \/ left[name] # NoSection
      BY <3>1 DEF opens, CanOpen
    <3>3. section'[name] = left[name]
      BY <1>1, <1>8, <1>10
    <3>. QED BY <3>2, <3>3 DEF Found
  <2>3. ended' \subseteq Found' \ tooLong' /\ tooLong' \subseteq Found'
    BY <1>0, <1>1, <1>4, <1>12 DEF OpenUnderTitle
  <2>. QED BY <1>6, <1>13, <2>1, <2>2, <2>3, ReaderAssumption DEF OpenUnderTitle
<1>17. SectionsTitled'
  <2>1. ASSUME opens PROVE \E t \in 1 .. Len(printed') : Titled(name, t)'
    <3>1. kind = "title" /\ name # Table.name
      BY <1>1, <1>4, <2>1 DEF opens
    <3>. QED BY <1>0, <1>1, <1>7, <1>9, <1>10, <2>1, <3>1, TitledOpened
  <2>2. \A s \in Found : s # current => \E t \in 1 .. Len(printed') : Titled(s, t)'
    <3>1. \A s \in Found : s # current =>
            /\ s # current' /\ section'[s] = section[s]
            /\ s \in ended' => s \in ended
      BY <1>1, <1>12, <1>13, ReaderAssumption DEF Found
    <3>. QED BY <1>1, <3>1, OthersStayTitled
  <2>3. ASSUME NEW s \in Found', s = current, section'[s] = section[s]
        PROVE  \E t \in 1 .. Len(printed') : Titled(s, t)'
    <3>1. ~section[current].header
      BY <1>8, <1>10, <2>3 DEF Found
    <3>2. s \in Found /\ s # current' /\ s \in ended'
      BY <1>1, <1>4, <1>13, <2>3, <3>1, ReaderAssumption DEF Found
    <3>3. PICK t \in 1 .. Len(printed) : Titled(s, t)
      BY <1>0, <3>2 DEF SectionsTitled
    <3>4. t < Here /\ Here # t /\ t \in 1 .. Here
      BY <1>3
    <3>5. Titled(s, t)'
      BY <1>0, <1>1, <1>5, <2>3, <3>2, <3>3, <3>4, TitledKept
    <3>. QED BY <3>4, <3>5, <1>6
  <2>. QED BY <1>4, <1>11, <2>1, <2>2, <2>3 DEF SectionsTitled
<1>18. AboveIsFree'
  BY <1>1 DEF AboveIsFree
<1>19. AboveIsOwn'
  BY <1>1, <1>15, UnitsStayOwn
<1>20. DeclarationsRead'
  <2>1. declared' = IF kind = "declaration" THEN Here ELSE declared
    BY <1>1
  <2>. QED BY <1>1, <1>15, <2>1, DeclarationsStayRead
<1>. QED BY <1>6, <1>14, <1>16, <1>17, <1>18, <1>19, <1>20 DEF ReaderInv

LEMMA ReaderEndReading ==
    ASSUME ReaderInv, EndReading
    PROVE  ReaderInv'
<1>1. UNCHANGED <<printed, page, section, current, ended, above, declared, tooLong>>
  BY DEF EndReading
<1>2. PICK broken \in SUBSET Wanted :
        extracted' = {s \in (Wanted \cap ended) \ (tooLong \cup broken) : Buildable(section[s])}
  BY DEF EndReading
<1>3. \A x : Buildable(x)' = Buildable(x)
  BY <1>1 DEF Buildable, Dense, AmountsOn, PagesOf, HasColumns, UnitLine
<1>4. GivenOut'
  BY <1>1, <1>2, <1>3 DEF GivenOut
<1>5. Found' = Found /\ Table' = Table /\ \A s : LinesOf(s)' = LinesOf(s)
  BY <1>1 DEF Found, Table, LinesOf
<1>6. \A t : AmountLines(t)' = AmountLines(t)
  BY <1>1 DEF AmountLines
<1>7. \A s, t : Titled(s, t) => Titled(s, t)'
  BY <1>1, <1>5, <1>6 DEF Titled
<1>8. SectionsTitled'
  BY <1>1, <1>5, <1>7 DEF SectionsTitled, ReaderInv
<1>9. ReaderTypeOK' /\ TablesBegin' /\ OpenUnderTitle' /\ AboveIsFree'
  BY <1>1, <1>5 DEF ReaderInv, ReaderTypeOK, TablesBegin, OpenUnderTitle, AboveIsFree
<1>10. AboveIsOwn' /\ DeclarationsRead'
  BY <1>1, <1>5 DEF ReaderInv, AboveIsOwn, DeclarationsRead
<1>. QED BY <1>4, <1>8, <1>9, <1>10 DEF ReaderInv

LEMMA ReaderStutter ==
    ASSUME ReaderInv, UNCHANGED readerVars
    PROVE  ReaderInv'
<1>1. UNCHANGED <<printed, page, section, current, ended, above, declared, tooLong, extracted>>
  BY DEF readerVars
<1>2. Found' = Found /\ Table' = Table /\ \A s : LinesOf(s)' = LinesOf(s)
  BY <1>1 DEF Found, Table, LinesOf
<1>3. \A t : AmountLines(t)' = AmountLines(t)
  BY <1>1 DEF AmountLines
<1>4. \A s, t : Titled(s, t) => Titled(s, t)'
  BY <1>1, <1>2, <1>3 DEF Titled
<1>5. SectionsTitled'
  BY <1>1, <1>2, <1>4 DEF SectionsTitled, ReaderInv
<1>6. ReaderTypeOK' /\ TablesBegin' /\ OpenUnderTitle' /\ AboveIsFree'
  BY <1>1, <1>2 DEF ReaderInv, ReaderTypeOK, TablesBegin, OpenUnderTitle, AboveIsFree
<1>7. AboveIsOwn' /\ DeclarationsRead'
  BY <1>1, <1>2 DEF ReaderInv, AboveIsOwn, DeclarationsRead
<1>8. \A x : Buildable(x)' = Buildable(x)
  BY <1>1 DEF Buildable, Dense, AmountsOn, PagesOf, HasColumns, UnitLine
<1>9. GivenOut'
  BY <1>1, <1>8 DEF GivenOut, ReaderInv
<1>. QED BY <1>5, <1>6, <1>7, <1>9 DEF ReaderInv

LEMMA ReaderStep == ReaderInv /\ [ReaderNext]_readerVars => ReaderInv'
<1> SUFFICES ASSUME ReaderInv, [ReaderNext]_readerVars PROVE ReaderInv'
  OBVIOUS
<1>1. CASE \E s \in Wanted : TitleOutside(s) \/ TitleRepeated(s) \/ TitleEnds("title", s)
  BY <1>1, ReaderTitleOutside, ReaderTitleRepeated, ReaderTitleEnds DEF TableNames
<1>2. CASE TitleEnds("other", "other")
  BY <1>2, ReaderTitleEnds DEF TableNames
<1>3. CASE \E kind \in {"unit", "declaration", "amounts"} :
             LineOutside(kind) \/ LineTooFar(kind) \/ LineInside(kind)
  BY <1>3, ReaderLineOutside, ReaderLineTooFar, ReaderLineInside DEF Kinds
<1>4. CASE LineOutside("other")
  BY <1>4, ReaderLineOutside DEF Kinds
<1>5. CASE NextPage \/ EndReading
  BY <1>5, ReaderNextPage, ReaderEndReading
<1>6. CASE UNCHANGED readerVars
  BY <1>6, ReaderStutter
<1>. QED BY <1>1, <1>2, <1>3, <1>4, <1>5, <1>6 DEF ReaderNext

\* What is given out has a section that has ended, with lines, a unit and a title.
LEMMA GivenHaveTitles ==
    ASSUME ReaderInv, NEW s \in Given
    PROVE  /\ s \in Found /\ s \in ended /\ UnitLine(section[s]) # 0 /\ LinesOf(s) # {}
           /\ \E t \in 1 .. Len(printed) : Titled(s, t)
<1>1. extracted # NotYet /\ s \in extracted
  BY DEF Given
<1>2. s \in ended /\ Buildable(section[s])
  BY <1>1 DEF ReaderInv, GivenOut
<1>3. s \in Found
  BY <1>2 DEF ReaderInv, OpenUnderTitle
<1>4. UnitLine(section[s]) # 0 /\ Dense(section[s]) # {}
  BY <1>2 DEF Buildable
<1>5. PICK k \in 1 .. Len(section[s].lines) : TRUE
  BY <1>4 DEF Dense, PagesOf
<1>6. LinesOf(s) # {}
  BY <1>5 DEF LinesOf, RangeOf
<1>. QED BY <1>2, <1>3, <1>4, <1>6 DEF ReaderInv, SectionsTitled

LEMMA ReaderExtractsWhole == ReaderInv => ExtractedWhole
<1> SUFFICES ASSUME ReaderInv, NEW s \in Given
             PROVE  \E t \in 1 .. Len(printed) :
                      /\ printed[t].table = [number |-> t, name |-> s]
                      /\ {k \in RangeOf(section[s].lines) : printed[k].kind = "amounts"}
                           = AmountLines(t)
  BY DEF ExtractedWhole
<1>1. PICK t \in 1 .. Len(printed) : Titled(s, t)
  BY GivenHaveTitles
<1>2. AmountLines(t) \subseteq LinesOf(s) /\ printed[t].table = [number |-> t, name |-> s]
  BY <1>1, GivenHaveTitles DEF Titled
<1>3. ASSUME NEW k \in LinesOf(s), printed[k].kind = "amounts" PROVE k \in AmountLines(t)
  <2>1. k \in t .. Len(printed) /\ printed[k].table = [number |-> t, name |-> s]
    BY <1>1 DEF Titled
  <2>2. k \in 1 .. Len(printed)
    BY <2>1 DEF ReaderInv, ReaderTypeOK
  <2>. QED BY <2>1, <2>2, <1>3 DEF AmountLines
<1>4. \A k \in AmountLines(t) : printed[k].kind = "amounts"
  BY DEF AmountLines
<1>. QED BY <1>2, <1>3, <1>4 DEF LinesOf

\* The reader gives out a statement with all amounts of one table and no others, in a
\* report of any length: a section that was cut off, given up or begun twice is not given
\* out.
THEOREM StatementsExtractedWhole == ReaderSpec => []ExtractedWhole
BY ReaderInitInv, ReaderStep, ReaderExtractsWhole, PTL DEF ReaderSpec

\* The first line of a section.
FirstLine(s) == CHOOSE k \in LinesOf(s) : \A other \in LinesOf(s) : k <= other

LEMMA ReaderUnitsAreOwn == ReaderInv => UnitIsItsOwn
<1> SUFFICES ASSUME ReaderInv, NEW s \in Given
             PROVE  IF section[s].unit # 0
                    THEN /\ printed[section[s].unit].table = printed[FirstLine(s)].table
                         /\ \A k \in AmountLines(printed[FirstLine(s)].table.number) :
                               section[s].unit < k
                    ELSE IF section[s].above # 0
                    THEN /\ printed[section[s].above].page = section[s].start
                         /\ \A other \in Given \ {s} : UnitLine(section[other]) # section[s].above
                    ELSE section[s].declared \in 1 .. FirstLine(s)
  BY DEF UnitIsItsOwn, FirstLine, LinesOf
<1> DEFINE x == section[s]
           first == FirstLine(s)
<1>1. s \in Found /\ UnitLine(x) # 0 /\ LinesOf(s) # {}
  BY GivenHaveTitles
<1>2. PICK t \in 1 .. Len(printed) : Titled(s, t)
  BY GivenHaveTitles
<1>3. /\ x.declared < t
      /\ \A k \in LinesOf(s) :
          k \in t .. Len(printed) /\ printed[k].table = [number |-> t, name |-> s]
      /\ x.unit # 0 => x.unit \in LinesOf(s) /\ \A k \in AmountLines(t) : x.unit < k
  BY <1>2 DEF Titled
<1>4. first \in LinesOf(s)
  <2>1. LinesOf(s) \subseteq Nat
    BY <1>3
  <2>2. \E n \in LinesOf(s) : \A m \in LinesOf(s) : n <= m
    BY <1>1, <2>1, LeastNatural
  <2>. QED BY <2>2 DEF FirstLine
<1>5. CASE x.unit # 0
  BY <1>3, <1>4, <1>5
<1>6. CASE x.unit = 0 /\ x.above # 0
  <2>1. /\ printed[x.above].kind = "unit" /\ printed[x.above].page = x.start
        /\ \A other \in Found : /\ x.above \notin LinesOf(other)
                                /\ other # s => section[other].above # x.above
    BY <1>1, <1>6 DEF ReaderInv, AboveIsOwn
  <2>2. ASSUME NEW other \in Given \ {s} PROVE UnitLine(section[other]) # x.above
    <3>1. other \in Found
      BY GivenHaveTitles
    <3>2. section[other].unit # 0 => section[other].unit \in LinesOf(other)
      <4>1. PICK u \in 1 .. Len(printed) : Titled(other, u)
        BY GivenHaveTitles
      <4>. QED BY <4>1 DEF Titled
    <3>3. section[other].declared # 0 => printed[section[other].declared].kind = "declaration"
      BY <3>1 DEF ReaderInv, DeclarationsRead
    <3>. QED BY <1>6, <2>1, <3>1, <3>2, <3>3 DEF UnitLine
  <2>. QED BY <1>6, <2>1, <2>2
<1>7. CASE x.unit = 0 /\ x.above = 0
  <2>1. x.declared # 0
    BY <1>1, <1>7 DEF UnitLine
  <2>2. x.declared \in Nat
    BY <1>1, FoundHaveSections DEF ReaderInv, OpenedSection
  <2>3. first \in t .. Len(printed)
    BY <1>3, <1>4
  <2> HIDE DEF first, x
  <2>4. x.declared \in 1 .. first
    BY <1>3, <2>1, <2>2, <2>3
  <2>. QED BY <1>7, <2>4 DEF first, x
<1>. QED BY <1>5, <1>6, <1>7

\* The unit of a statement that is given out is that of its own table before any amount,
\* or one above its title that serves no other statement, or was declared before.
THEOREM UnitsAreTheirOwn == ReaderSpec => []UnitIsItsOwn
BY ReaderInitInv, ReaderStep, ReaderUnitsAreOwn, PTL DEF ReaderSpec

--------------------------------------------------------------------------------------
(* The lines of a statement.                                                            *)

LinesTypeOK ==
    /\ statement \in [rows : Seq(ExtractedRow), unit : Nat \ {0}, onStatement : BOOLEAN]
    /\ reference \in [FieldNames -> Int \cup {NoAmount}]
    /\ at \in 0 .. Len(Rows) + 1
    /\ found \in [FieldNames -> [row : Nat, times : Nat]]
    /\ lent \in [1 .. Len(Rows) -> SUBSET Int]
    /\ verdict = "none" => at = 0
    /\ verdict \in {"none", "reading"} => given = {}

\* The field that a name is read as, and that of the own text of a row.
FieldNamed(label) == CHOOSE f \in Match(label) : TRUE
FieldOf(i) == FieldNamed(Rows[i].label)

\* A row that has not been read has borrowed nothing; no text is borrowed twice.
LentOnce ==
    /\ \A i \in DOMAIN lent : i >= at => lent[i] = {}
    /\ \A i, j \in DOMAIN lent : i # j => lent[i] \cap lent[j] = {}

\* A field has its row from the rows read so far; a row that is matched by its own text
\* alone is matched with the field of that text, and counted there.
FoundByRows ==
    /\ \A f \in FieldNames :
        /\ found[f].row < at \/ found[f].row = 0
        /\ found[f].row # 0 /\ lent[found[f].row] = {}
           => Match(Rows[found[f].row].label) # {} /\ f = FieldOf(found[f].row)
        /\ found[f].times = 0 <=> found[f].row = 0
    /\ \A i \in 1 .. Len(Rows) :
        i < at /\ Numbered(i) /\ lent[i] = {} /\ Match(Rows[i].label) # {}
        => /\ found[FieldOf(i)].times >= 1
           /\ found[FieldOf(i)].times = 1 => found[FieldOf(i)].row = i

LinesInv == LinesTypeOK /\ LentOnce /\ FoundByRows /\ ScaleIsRight

LEMMA MatchIsField == \A label : Match(label) \subseteq FieldNames
BY DEF Match, FieldNames


LEMMA MinIsLeast ==
    ASSUME NEW T \in SUBSET Nat, T # {}
    PROVE  Min(T) \in T /\ \A y \in T : Min(T) <= y
BY LeastNatural DEF Min

\* What a row takes is text that nobody has; only its own text takes none.
LEMMA OptionsTake ==
    ASSUME LinesTypeOK, NEW i \in 1 .. Len(Rows), NEW k \in 1 .. 4, Options(i)[k].is = TRUE
    PROVE  /\ Options(i)[k].takes \in SUBSET Int
           /\ Options(i)[k].takes \cap Used = {}
           /\ Options(i)[k].takes = {} <=> k = 4
<1>0. i \in Int
  OBVIOUS
<1>1. \A n \in Int : TextAt(n) # <<>> => n \notin Used
  BY DEF TextAt
<1>2. CASE k = 1
  <2>1. Options(i)[k].takes = {i - 1} /\ (TextAt(i - 1) # <<>>) = TRUE
    BY <1>2 DEF Options
  <2>. QED BY <2>1, <1>1, <1>0, <1>2
<1>3. CASE k = 2
  <2>1. Options(i)[k].takes = {i + 1} /\ (TextAt(i + 1) # <<>>) = TRUE
    BY <1>3 DEF Options
  <2>. QED BY <2>1, <1>1, <1>0, <1>3
<1>4. CASE k = 3
  <2>1. /\ Options(i)[k].takes = {i - 1, i + 1}
        /\ (TextAt(i - 1) # <<>> /\ TextAt(i + 1) # <<>>) = TRUE
    BY <1>4 DEF Options
  <2>. QED BY <2>1, <1>1, <1>0, <1>4
<1>5. CASE k = 4
  <2>1. Options(i)[k].takes = {}
    BY <1>5 DEF Options
  <2>. QED BY <2>1, <1>5
<1>. QED BY <1>2, <1>3, <1>4, <1>5

LEMMA LinesInitInv == LinesInit => LinesInv
<1> SUFFICES ASSUME LinesInit PROVE LinesInv
  OBVIOUS
<1> USE DEF LinesInit, NoStatement
<1>1. LinesTypeOK
  <2>1. Rows = <<>> /\ Len(Rows) = 0
    BY DEF Rows
  <2>2. lent \in [1 .. Len(Rows) -> SUBSET Int]
    BY <2>1
  <2>3. <<>> \in Seq(ExtractedRow)
    OBVIOUS
  <2>. QED BY <2>2, <2>3 DEF LinesTypeOK
<1>2. DOMAIN lent = {}
  OBVIOUS
<1>3. LentOnce
  BY <1>2 DEF LentOnce
<1>4. FoundByRows
  <2>1. 1 .. Len(Rows) = {}
    BY DEF Rows
  <2>. QED BY <2>1 DEF FoundByRows
<1>5. ScaleIsRight
  BY DEF ScaleIsRight
<1>. QED BY <1>1, <1>3, <1>4, <1>5 DEF LinesInv

LEMMA LinesTake ==
    ASSUME LinesInv, TakeStatement
    PROVE  LinesInv'
<1> USE DEF TakeStatement
<1>1. LinesTypeOK'
  <2>1. statement' \in [rows : Seq(ExtractedRow), unit : Nat \ {0}, onStatement : BOOLEAN]
    BY LinesAssumption
  <2>2. reference' \in [FieldNames -> Int \cup {NoAmount}]
    BY LinesAssumption
  <2>3. lent' \in [1 .. Len(Rows') -> SUBSET Int]
    BY DEF Rows
  <2>. QED BY <2>1, <2>2, <2>3 DEF LinesTypeOK, LinesInv
<1>2. lent' = [i \in 1 .. Len(Rows') |-> {}] /\ at' = 1
  BY DEF Rows
<1>3. LentOnce'
  BY <1>2 DEF LentOnce
<1>4. FoundByRows'
  <2>1. \A f \in FieldNames : found[f].row = 0 /\ found[f].times = 0
    BY DEF LinesInv, FoundByRows, LinesTypeOK
  <2>. QED BY <2>1, <1>2 DEF FoundByRows
<1>5. ScaleIsRight'
  BY DEF ScaleIsRight, LinesInv, LinesTypeOK
<1>. QED BY <1>1, <1>3, <1>4, <1>5 DEF LinesInv

LEMMA LinesSkip ==
    ASSUME LinesInv, SkipRow
    PROVE  LinesInv'
<1> USE DEF SkipRow, LinesInv
<1>0. Rows' = Rows /\ at \in Nat
  BY DEF Rows, LinesTypeOK
<1>1. LinesTypeOK'
  BY <1>0 DEF LinesTypeOK
<1>2. LentOnce'
  BY <1>0 DEF LentOnce, LinesTypeOK
<1>3. FoundByRows'
  <2>1. \A i : Numbered(i)' = Numbered(i)
    BY <1>0 DEF Numbered
  <2>2. \A i : FieldOf(i)' = FieldOf(i)
    BY <1>0 DEF FieldOf, FieldNamed, Match
  <2>3. ASSUME NEW f \in FieldNames
        PROVE  found'[f].row < at' \/ found'[f].row = 0
    BY <1>0 DEF FoundByRows, LinesTypeOK
  <2>4. ASSUME NEW i \in 1 .. Len(Rows), i < at', Numbered(i)
        PROVE  i < at
    BY <2>4, <1>0
  <2>. QED BY <1>0, <2>1, <2>2, <2>3, <2>4 DEF FoundByRows
<1>4. ScaleIsRight'
  BY DEF ScaleIsRight
<1>. QED BY <1>1, <1>2, <1>3, <1>4

\* What a row is matched by: what it takes is free, and it is its own text alone only if
\* nothing is taken; a row whose own text is recognized is matched.
LEMMA ResolveRowEffect ==
    ASSUME LinesInv, ResolveRow
    PROVE  \/ /\ UNCHANGED <<found, lent>>
              /\ Match(Rows[at].label) = {}
           \/ \E label : \E taken \in SUBSET Int :
                LET field == FieldNamed(label) IN
                /\ field \in FieldNames /\ Match(label) # {}
                /\ taken \cap Used = {}
                /\ taken = {} => label = Rows[at].label
                /\ lent' = [lent EXCEPT ![at] = taken]
                /\ found' = [found EXCEPT ![field] = [row |-> at, times |-> @.times + 1]]
<1> DEFINE fitting == {k \in 1 .. Len(Options(at)) : Fits(at, Options(at)[k])}
<1>0. at \in 1 .. Len(Rows) /\ LinesTypeOK
  BY DEF ResolveRow, LinesInv
<1>1. Len(Options(at)) = 4 /\ Options(at)[4] = [label |-> Rows[at].label, takes |-> {}, is |-> TRUE]
  BY DEF Options
<1>2. CASE fitting = {}
  <2>1. UNCHANGED <<found, lent>>
    BY <1>2 DEF ResolveRow
  <2>2. ~Fits(at, Options(at)[4])
    <3>1. SUFFICES ASSUME Fits(at, Options(at)[4]) PROVE 4 \in fitting
      BY <1>2
    <3>2. 4 \in 1 .. Len(Options(at))
      BY <1>1
    <3>. QED BY <3>1, <3>2, Zenon
  <2>3. Match(Rows[at].label) = {}
    BY <1>1, <2>2 DEF Fits
  <2>. QED BY <2>1, <2>3
<1>3. CASE fitting # {}
  <2>1. fitting \subseteq 1 .. 4
    BY <1>1
  <2> DEFINE k == Min(fitting)
             option == Options(at)[k]
             field == FieldNamed(option.label)
  <2>2. k \in fitting /\ k \in 1 .. 4
    <3>1. fitting \in SUBSET Nat
      BY <2>1
    <3> HIDE DEF fitting
    <3>. QED BY <2>1, <3>1, <1>3, MinIsLeast
  <2>3. Fits(at, option)
    BY <2>2
  <2>4. option.is = TRUE
    <3>1. option.is
      BY <2>3 DEF Fits
    <3>2. CASE k = 1
      BY <3>1, <3>2 DEF Options
    <3>3. CASE k = 2
      BY <3>1, <3>3 DEF Options
    <3>4. CASE k = 3
      BY <3>1, <3>4 DEF Options
    <3>5. CASE k = 4
      BY <3>1, <3>5 DEF Options
    <3>6. k = 1 \/ k = 2 \/ k = 3 \/ k = 4
      <4> HIDE DEF k
      <4>. QED BY <2>2
    <3>. QED BY <3>2, <3>3, <3>4, <3>5, <3>6
  <2>5. /\ option.takes \in SUBSET Int
        /\ option.takes \cap Used = {}
        /\ option.takes = {} => k = 4
    BY <1>0, <2>2, <2>4, OptionsTake
  <2>6. Match(option.label) # {} /\ field \in FieldNames
    BY <2>3, MatchIsField DEF Fits, FieldNamed
  <2>7. option.takes = {} => option.label = Rows[at].label
    BY <2>5, <1>1
  <2>8. /\ lent' = [lent EXCEPT ![at] = option.takes]
        /\ found' = [found EXCEPT ![field] = [row |-> at, times |-> @.times + 1]]
    BY <1>3 DEF ResolveRow, FieldNamed
  <2> HIDE DEF option, k
  <2>. QED BY <2>5, <2>6, <2>7, <2>8
<1>. QED BY <1>2, <1>3

LEMMA LinesResolve ==
    ASSUME LinesInv, ResolveRow
    PROVE  LinesInv'
<1>0. /\ Rows' = Rows /\ at \in Nat /\ at \in 1 .. Len(Rows) /\ Numbered(at)
      /\ at' = at + 1
      /\ UNCHANGED <<statement, reference, verdict, given>>
      /\ LinesTypeOK /\ LentOnce /\ FoundByRows /\ ScaleIsRight
  BY DEF Rows, LinesTypeOK, LinesInv, ResolveRow
<1>1. ScaleIsRight'
  BY <1>0 DEF ScaleIsRight
<1>2. \A i : FieldOf(i)' = FieldOf(i) /\ Numbered(i)' = Numbered(i)
  BY <1>0 DEF FieldOf, FieldNamed, Numbered, Match
<1>3. \A label : Match(label)' = Match(label)
  BY DEF Match
<1>4. CASE UNCHANGED <<found, lent>> /\ Match(Rows[at].label) = {}
  <2>1. LinesTypeOK' /\ LentOnce'
    BY <1>0, <1>4 DEF LinesTypeOK, LentOnce
  <2>2. ASSUME NEW f \in FieldNames
        PROVE  found'[f].row < at' \/ found'[f].row = 0
    BY <1>0, <1>4 DEF FoundByRows, LinesTypeOK
  <2>3. ASSUME NEW i \in 1 .. Len(Rows), i < at', Match(Rows[i].label) # {}
        PROVE  i < at
    BY <2>3, <1>0, <1>4
  <2>4. FoundByRows'
    BY <1>0, <1>2, <1>3, <1>4, <2>2, <2>3 DEF FoundByRows
  <2>. QED BY <1>1, <2>1, <2>4 DEF LinesInv
<1>5. ASSUME NEW label, NEW taken \in SUBSET Int, NEW field \in FieldNames,
             field = FieldNamed(label),
             Match(label) # {},
             taken \cap Used = {},
             taken = {} => label = Rows[at].label,
             lent' = [lent EXCEPT ![at] = taken],
             found' = [found EXCEPT ![field] = [row |-> at, times |-> @.times + 1]]
      PROVE  LinesInv'
  <2>1. lent' \in [1 .. Len(Rows) -> SUBSET Int] /\ DOMAIN lent = 1 .. Len(Rows)
        /\ DOMAIN lent' = 1 .. Len(Rows)
    BY <1>0, <1>5 DEF LinesTypeOK
  <2>2. \A i \in 1 .. Len(Rows) : lent'[i] = IF i = at THEN taken ELSE lent[i]
    BY <1>0, <1>5, <2>1
  <2>3. /\ found'[field].row = at /\ found'[field].times = found[field].times + 1
        /\ \A f \in FieldNames : f # field => found'[f] = found[f]
    BY <1>0, <1>5 DEF LinesTypeOK
  <2>4. \A f \in FieldNames : found[f].row \in Nat /\ found[f].times \in Nat
    BY <1>0 DEF LinesTypeOK
  <2>5. found' \in [FieldNames -> [row : Nat, times : Nat]]
    BY <1>0, <1>5, <2>4 DEF LinesTypeOK
  <2>6. LinesTypeOK'
    BY <1>0, <2>1, <2>5 DEF LinesTypeOK
  <2>7. LentOnce'
    <3>1. \A i \in 1 .. Len(Rows) : i >= at' => i >= at /\ i # at
      BY <1>0
    <3>2. \A i \in 1 .. Len(Rows) : lent[i] \subseteq Used
      BY <2>1 DEF Used
    <3>. QED BY <1>0, <1>5, <2>1, <2>2, <3>1, <3>2 DEF LentOnce
  <2>8. FoundByRows'
    <3>1. ASSUME NEW f \in FieldNames
          PROVE  /\ found'[f].row < at' \/ found'[f].row = 0
                 /\ found'[f].row # 0 /\ lent'[found'[f].row] = {}
                    => Match(Rows[found'[f].row].label) # {} /\ f = FieldOf(found'[f].row)
                 /\ found'[f].times = 0 <=> found'[f].row = 0
      <4>1. CASE f = field
        <5>1. found'[f].row = at /\ found'[f].times = found[f].times + 1
          BY <4>1, <2>3
        <5>2. lent'[at] = {} => Match(Rows[at].label) # {} /\ f = FieldOf(at)
          <6>1. lent'[at] = taken
            BY <2>2, <1>0
          <6>2. taken = {} => label = Rows[at].label
            BY <1>5
          <6>. QED BY <6>1, <6>2, <4>1, <1>5 DEF FieldOf
        <5>. QED BY <5>1, <5>2, <2>4, <1>0
      <4>2. CASE f # field
        <5>1. found'[f] = found[f] /\ (found[f].row < at \/ found[f].row = 0)
          BY <4>2, <2>3, <1>0 DEF FoundByRows
        <5>2. found[f].row # 0 => found[f].row \in 1 .. Len(Rows) /\ found[f].row # at
          BY <5>1, <2>4, <1>0
        <5>. QED BY <5>1, <5>2, <2>2, <2>4, <1>0 DEF FoundByRows
      <4>. QED BY <4>1, <4>2
    <3>2. ASSUME NEW i \in 1 .. Len(Rows), i < at', Numbered(i), lent'[i] = {},
                 Match(Rows[i].label) # {}
          PROVE  /\ found'[FieldOf(i)].times >= 1
                 /\ found'[FieldOf(i)].times = 1 => found'[FieldOf(i)].row = i
      <4>0. FieldOf(i) \in FieldNames
        BY <3>2, MatchIsField DEF FieldOf, FieldNamed
      <4>1. CASE i = at
        <5>1. FieldOf(i) = field
          <6>1. lent'[at] = taken
            BY <2>2, <1>0
          <6>2. taken = {}
            BY <6>1, <4>1, <3>2
          <6>3. label = Rows[i].label
            BY <6>2, <4>1, <1>5
          <6>. QED BY <6>3, <1>5 DEF FieldOf
        <5>. QED BY <4>1, <5>1, <2>3, <2>4, <4>0
      <4>2. CASE i # at
        <5>1. i < at /\ lent[i] = {}
          <6>1. i < at
            BY <4>2, <3>2, <1>0
          <6>. QED BY <6>1, <4>2, <3>2, <2>2
        <5>2. /\ found[FieldOf(i)].times >= 1
              /\ found[FieldOf(i)].times = 1 => found[FieldOf(i)].row = i
          BY <5>1, <3>2, <1>0 DEF FoundByRows
        <5>. QED BY <5>2, <2>3, <2>4, <4>0
      <4>. QED BY <4>1, <4>2
    <3>. QED BY <3>1, <3>2, <1>0, <1>2, <1>3 DEF FoundByRows
  <2>. QED BY <1>1, <2>6, <2>7, <2>8 DEF LinesInv
<1>6. QED
  <2>1. \/ UNCHANGED <<found, lent>> /\ Match(Rows[at].label) = {}
        \/ \E label : \E taken \in SUBSET Int :
                LET field == FieldNamed(label) IN
                /\ field \in FieldNames /\ Match(label) # {}
                /\ taken \cap Used = {}
                /\ taken = {} => label = Rows[at].label
                /\ lent' = [lent EXCEPT ![at] = taken]
                /\ found' = [found EXCEPT ![field] = [row |-> at, times |-> @.times + 1]]
    BY ResolveRowEffect
  <2>. QED BY <2>1, <1>4, <1>5

LEMMA LessTimes ==
    ASSUME NEW m \in Nat, NEW n \in Nat, m < n, NEW a \in Nat, a > 0
    PROVE  m * a < n * a
<1>1. n = m + (n - m) /\ n - m \in Nat /\ n - m > 0
  OBVIOUS
<1>2. \A d \in Nat : d > 0 => d * a > 0
  OBVIOUS
<1>3. \A d \in Nat : (m + d) * a = m * a + d * a
  OBVIOUS
<1>. QED BY <1>1, <1>2, <1>3

\* Amounts of the same magnitude are further from the next unit than from one another.
LEMMA SameMagnitude ==
    ASSUME NEW ours \in Int, NEW theirs \in Int, theirs # 0, Magnitude(ours, theirs) = "same"
    PROVE  LET size == IF ours < 0 THEN -ours ELSE ours
               other == IF theirs < 0 THEN -theirs ELSE theirs
           IN  size < OtherScale * other /\ other < OtherScale * size
<1> DEFINE size == IF ours < 0 THEN -ours ELSE ours
           other == IF theirs < 0 THEN -theirs ELSE theirs
<1>1. ours # 0
  BY DEF Magnitude
<1>2. size \in Nat /\ other \in Nat /\ size > 0 /\ other > 0
  BY <1>1
<1>3. \A n \in Nat : n > 0 => n < OtherScale * n /\ SameScale * n < OtherScale * n
  <2>1. 1 \in Nat /\ 1 < OtherScale /\ \A n \in Nat : 1 * n = n
    BY LinesAssumption
  <2>. QED BY <2>1, LessTimes, LinesAssumption
<1>4. SameScale * size \in Nat /\ SameScale * other \in Nat
      /\ OtherScale * size \in Nat /\ OtherScale * other \in Nat
  BY <1>2, LinesAssumption
<1>5. ASSUME size <= other
      PROVE  size < OtherScale * other /\ other < OtherScale * size
  <2>1. other <= SameScale * size
    BY <1>1, <1>5 DEF Magnitude
  <2> HIDE DEF size, other
  <2>. QED BY <2>1, <1>2, <1>3, <1>4, <1>5
<1>6. ASSUME ~(size <= other)
      PROVE  size < OtherScale * other /\ other < OtherScale * size
  <2>1. size <= SameScale * other
    BY <1>1, <1>6 DEF Magnitude
  <2> HIDE DEF size, other
  <2>. QED BY <2>1, <1>2, <1>3, <1>4, <1>6
<1>. QED BY <1>5, <1>6

LEMMA LinesJudge ==
    ASSUME LinesInv, JudgeStatement
    PROVE  LinesInv'
<1>0. /\ Rows' = Rows /\ UNCHANGED <<statement, reference, at, found, lent>>
      /\ LinesTypeOK /\ LentOnce /\ FoundByRows
      /\ verdict = "reading"
  BY DEF Rows, LinesInv, JudgeStatement
<1>1. verdict' \in {"not_reconciled", "unbalanced", "unit", "used"}
  BY DEF JudgeStatement
<1>2. verdict' = "used" => statement.onStatement \/ UnitConfirmed
  BY DEF JudgeStatement
<1>3. LinesTypeOK' /\ LentOnce' /\ FoundByRows'
  <2>1. \A i : FieldOf(i)' = FieldOf(i) /\ Numbered(i)' = Numbered(i)
    BY <1>0 DEF FieldOf, FieldNamed, Numbered, Match
  <2>2. \A label : Match(label)' = Match(label)
    BY DEF Match
  <2>3. LinesTypeOK'
    BY <1>0, <1>1 DEF LinesTypeOK
  <2>. QED BY <1>0, <2>1, <2>2, <2>3 DEF LentOnce, FoundByRows
<1>4. ScaleIsRight'
  <2> SUFFICES ASSUME ~statement.onStatement, NEW g \in given',
                      reference[g.field] # NoAmount, reference[g.field] # 0
               PROVE  LET size == IF g.amount < 0 THEN -g.amount ELSE g.amount
                          other == IF reference[g.field] < 0 THEN -reference[g.field]
                                   ELSE reference[g.field]
                      IN  size < OtherScale * other /\ other < OtherScale * size
    BY <1>0 DEF ScaleIsRight
  <2>1. verdict' = "used" /\ UnitConfirmed
    BY <1>2 DEF JudgeStatement
  <2>2. PICK f \in Resolved : /\ Value(f, "current") # NoAmount
                              /\ g = [field |-> f, amount |-> Value(f, "current") * statement.unit]
    BY <2>1 DEF JudgeStatement
  <2>3. f \in FieldNames /\ f \in Comparable /\ g.field = f
        /\ g.amount = Value(f, "current") * statement.unit
    BY <2>2 DEF Comparable, Resolved
  <2>4. Magnitude(g.amount, reference[f]) = "same"
    BY <2>1, <2>3 DEF UnitConfirmed
  <2>5. g.amount \in Int
    <3>1. found[f].times = 1 /\ found[f].row \in Nat /\ Rows \in Seq(ExtractedRow)
          /\ statement.unit \in Nat
      BY <1>0, <2>2, <2>3 DEF Resolved, LinesTypeOK, Rows
    <3>2. found[f].row \in 1 .. Len(Rows)
      BY <3>1, <1>0, <2>3 DEF FoundByRows, LinesTypeOK
    <3>3. Rows[found[f].row] \in ExtractedRow
      BY <3>1, <3>2
    <3>4. Value(f, "current") = Rows[found[f].row].current
      BY <2>2 DEF Value, Amount
    <3>5. Value(f, "current") \in Int
      BY <3>3, <3>4, <2>2 DEF ExtractedRow
    <3>. QED BY <3>1, <3>5, <2>3
  <2>6. reference[f] \in Int
    BY <1>0, <2>3 DEF LinesTypeOK
  <2>. QED BY <2>3, <2>4, <2>5, <2>6, SameMagnitude
<1>. QED BY <1>3, <1>4 DEF LinesInv

LEMMA LinesStep == LinesInv /\ [LinesNext]_lineVars => LinesInv'
<1> SUFFICES ASSUME LinesInv, [LinesNext]_lineVars PROVE LinesInv'
  OBVIOUS
<1>1. CASE UNCHANGED lineVars
  <2>1. UNCHANGED <<statement, reference, at, found, lent, verdict, given>>
    BY <1>1 DEF lineVars
  <2>2. Rows' = Rows
    BY <2>1 DEF Rows
  <2>3. \A i : FieldOf(i)' = FieldOf(i) /\ Numbered(i)' = Numbered(i)
    BY <2>2 DEF FieldOf, FieldNamed, Numbered, Match
  <2>4. \A label : Match(label)' = Match(label)
    BY DEF Match
  <2>5. LinesTypeOK' /\ LentOnce'
    BY <2>1, <2>2 DEF LinesInv, LinesTypeOK, LentOnce
  <2>6. FoundByRows'
    BY <2>1, <2>2, <2>3, <2>4 DEF LinesInv, FoundByRows
  <2>7. ScaleIsRight'
    BY <2>1 DEF LinesInv, ScaleIsRight
  <2>. QED BY <2>5, <2>6, <2>7 DEF LinesInv
<1>. QED BY <1>1, LinesTake, LinesSkip, LinesResolve, LinesJudge DEF LinesNext

\* A figure that checks._within uses has the scale of what the third party says of the
\* same field, for any units, rows and amounts: two sizes of one magnitude are never a
\* factor of OtherScale apart, so a unit that was misread is refused and not compared.
THEOREM AmountsOfTheRightScale == LinesSpec => []ScaleIsRight
<1>1. LinesInv => ScaleIsRight
  BY DEF LinesInv
<1>. QED BY <1>1, LinesInitInv, LinesStep, PTL DEF LinesSpec

LEMMA LinesReadOnce == LinesInv => RowsReadOnce
<1> SUFFICES ASSUME LinesInv PROVE RowsReadOnce
  OBVIOUS
<1>1. LinesTypeOK /\ LentOnce /\ FoundByRows
  BY DEF LinesInv
<1>2. ASSUME NEW i \in 1 .. at - 1, NEW j \in 1 .. at - 1, i # j, Numbered(i), Numbered(j),
             lent[i] = {}, lent[j] = {}, Rows[i].label = Rows[j].label,
             NEW f \in Resolved, found[f].row = i
      PROVE  FALSE
  <2>1. f \in FieldNames /\ found[f].times = 1
    BY DEF Resolved
  <2>2. i \in 1 .. Len(Rows) /\ j \in 1 .. Len(Rows) /\ i < at /\ j < at /\ i # 0
    BY <1>1 DEF LinesTypeOK
  <2>3. Match(Rows[i].label) # {} /\ f = FieldOf(i)
    BY <2>1, <2>2, <1>1, <1>2 DEF FoundByRows
  <2>4. Match(Rows[j].label) # {} /\ f = FieldOf(j)
    BY <2>3, <1>2 DEF FieldOf
  <2>5. found[FieldOf(j)].row = j
    BY <2>4, <2>2, <2>1, <1>1, <1>2 DEF FoundByRows
  <2>. QED BY <2>5, <2>4, <1>2
<1>3. \A i, j \in 1 .. at - 1 :
        /\ i # j /\ Numbered(i) /\ Numbered(j)
        /\ lent[i] = {} /\ lent[j] = {}
        /\ Rows[i].label = Rows[j].label
        => \A f \in Resolved : found[f].row \notin {i, j}
  <2> SUFFICES ASSUME NEW i \in 1 .. at - 1, NEW j \in 1 .. at - 1, i # j,
                      Numbered(i), Numbered(j), lent[i] = {}, lent[j] = {},
                      Rows[i].label = Rows[j].label, NEW f \in Resolved
               PROVE  found[f].row # i /\ found[f].row # j
    OBVIOUS
  <2>1. found[f].row # i
    BY <1>2
  <2>2. found[f].row # j
    <3>1. j # i /\ Rows[j].label = Rows[i].label
      OBVIOUS
    <3>. QED BY <3>1, <1>2
  <2>. QED BY <2>1, <2>2
<1>. QED BY <1>1, <1>3 DEF RowsReadOnce, LentOnce

\* report_statements reads no line of text into two names, however many rows borrow from
\* the lines around them, and gives a field no amount from a row whose name, without any
\* borrowed line, is also the name of another such row.
THEOREM LinesReadOnceOnly == LinesSpec => []RowsReadOnce
BY LinesInitInv, LinesStep, LinesReadOnce, PTL DEF LinesSpec
======================================================================================
