-------------------------------- MODULE ReportReader --------------------------------
(***************************************************************************)
(* Finding the three consolidated statements in the lines of an annual     *)
(* report (application/securities/report_extraction/extract.py), page by   *)
(* page and line by line, until all three have ended.                      *)
(*                                                                         *)
(* A line is what the reader tells apart: a title, the title of another    *)
(* statement, a unit, a unit declared for the whole report, amounts; lines *)
(* that are none of these change nothing.                                  *)
(* printed is the report so far: what is printed, where, and under which   *)
(* title; a title that is repeated on the next page does not start another *)
(* table.  Lines are named by their numbers.                               *)
(***************************************************************************)
EXTENDS Naturals, Sequences, FiniteSets

CONSTANTS
    Wanted,           \* STATEMENTS
    MaxSectionPages,  \* MAX_SECTION_PAGES
    MinAmountLines,   \* lines of amounts on a page that can show its columns: two
    MaxPages,         \* bound: pages of a report (the words reader's max_pages)
    MaxLines          \* bound: lines of a report, each turn of a page counted as one

ASSUME ReaderAssumption ==
    /\ "none" \notin Wanted /\ "other" \notin Wanted
    /\ MaxSectionPages \in Nat \ {0}

VARIABLES
    printed,     \* the report: sequence of [kind, name, page, table]
    page,
    section,     \* sections, or NoSection
    current,     \* the statement whose section is open, or "none"
    ended,       \* done
    above,       \* the nearest unit above on this page, or 0
    declared,    \* the unit the report declares, or 0
    tooLong,     \* the statements with the problem section_too_long
    extracted    \* the statements given out, once the reading is over

readerVars == <<printed, page, section, current, ended, above, declared,
                tooLong, extracted>>

NotYet == {"none"}     \* extracted before the end of the reading
NoSection == [start |-> 0]

ReaderInit ==
    /\ printed = <<>>
    /\ page = 1
    /\ section = [s \in Wanted |-> NoSection]
    /\ current = "none"
    /\ ended = {}
    /\ above = 0
    /\ declared = 0
    /\ tooLong = {}
    /\ extracted = NotYet

--------------------------------------------------------------------------------
(* The report.                                                              *)

Here == Len(printed) + 1
Table == IF printed = <<>> THEN [number |-> 0, name |-> "none"] ELSE printed[Len(printed)].table

\* The table a line belongs to: that of the last title that was not a repetition.
TableOf(kind, name) ==
    CASE kind = "title" /\ name # Table.name -> [number |-> Here, name |-> name]
      [] kind = "other" -> [number |-> Here, name |-> "other"]
      [] OTHER -> Table

PrintLine(kind, name) ==
    /\ extracted = NotYet
    /\ Len(printed) + page <= MaxLines
    /\ printed' = Append(printed, [kind |-> kind, page |-> page, table |-> TableOf(kind, name)])

--------------------------------------------------------------------------------
(* Reading (extract_statements).                                            *)

Opened(name) == [start |-> page, above |-> above, declared |-> declared,
                 unit |-> 0, header |-> TRUE, lines |-> <<>>]

CanOpen(name, in) == name \in Wanted /\ name \notin ended' /\ in[name] = NoSection

\* A title, with no section open.
TitleOutside(name) ==
    /\ current = "none"
    /\ PrintLine("title", name)
    /\ ended' = ended
    /\ IF CanOpen(name, section)
       THEN section' = [section EXCEPT ![name] = Opened(name)] /\ current' = name
       ELSE UNCHANGED <<section, current>>
    /\ UNCHANGED <<page, above, declared, tooLong, extracted>>

\* The title of the open section, again.
TitleRepeated(name) ==
    /\ current # "none" /\ name = current
    /\ PrintLine("title", name)
    /\ UNCHANGED <<page, section, current, ended, above, declared, tooLong,
                   extracted>>

TitleEnds_bug(kind, name) ==   \* keeps the unit above
    /\ current # "none" /\ name # current
    /\ PrintLine(kind, name)
    /\ LET left == IF section[current].header
                   THEN [section EXCEPT ![current] = NoSection] ELSE section IN
        /\ ended' = IF section[current].header THEN ended ELSE ended \cup {current}
        /\ IF kind = "title" /\ CanOpen(name, left)
           THEN /\ section' = [left EXCEPT ![name] = Opened(name)]
                /\ current' = name
           ELSE section' = left /\ current' = "none"
    /\ UNCHANGED <<page, above, declared, tooLong, extracted>>

\* Another title ends the section; one without any amount was a table of contents.
TitleEnds(kind, name) ==
    /\ current # "none" /\ name # current
    /\ PrintLine(kind, name)
    /\ above' = 0
    /\ LET left == IF section[current].header
                   THEN [section EXCEPT ![current] = NoSection] ELSE section IN
        /\ ended' = IF section[current].header THEN ended ELSE ended \cup {current}
        /\ IF kind = "title" /\ CanOpen(name, left)
           THEN /\ section' = [left EXCEPT ![name] = [Opened(name) EXCEPT !.above = 0]]
                /\ current' = name
           ELSE section' = left /\ current' = "none"
    /\ UNCHANGED <<page, declared, tooLong, extracted>>

LineOutside(kind) ==
    /\ current = "none"
    /\ PrintLine(kind, "none")
    /\ declared' = IF kind = "declaration" THEN Here ELSE declared
    /\ above' = IF kind = "unit" THEN Here ELSE above
    /\ UNCHANGED <<page, section, current, ended, tooLong, extracted>>

TooLong == page - section[current].start >= MaxSectionPages

\* A section that does not end is given up, and this line with it.
LineTooFar_bug(kind) ==   \* ends it there
    /\ current # "none" /\ TooLong
    /\ PrintLine(kind, "none")
    /\ declared' = IF kind = "declaration" THEN Here ELSE declared
    /\ ended' = ended \cup {current}
    /\ current' = "none"
    /\ UNCHANGED <<page, section, above, tooLong, extracted>>

LineTooFar(kind) ==
    /\ current # "none" /\ TooLong
    /\ PrintLine(kind, "none")
    /\ declared' = IF kind = "declaration" THEN Here ELSE declared
    /\ tooLong' = tooLong \cup {current}
    /\ current' = "none"
    /\ UNCHANGED <<page, section, ended, above, extracted>>

\* The first unit before the first amounts is the statement's own.
LineInside(kind) ==
    /\ current # "none" /\ ~TooLong
    /\ PrintLine(kind, "none")
    /\ declared' = IF kind = "declaration" THEN Here ELSE declared
    /\ LET x == section[current]
           first == x.header /\ x.unit = 0 /\ kind \in {"unit", "declaration"} IN
        section' = [section EXCEPT ![current] =
            [x EXCEPT !.lines = Append(x.lines, Here),
                      !.header = x.header /\ kind # "amounts",
                      !.unit = IF first THEN Here ELSE x.unit]]
    /\ UNCHANGED <<page, current, ended, above, tooLong, extracted>>

NextPage ==
    /\ extracted = NotYet
    /\ page < MaxPages
    /\ ~(ended = Wanted /\ current = "none")
    /\ page' = page + 1
    /\ above' = 0
    /\ UNCHANGED <<printed, section, current, ended, declared, tooLong, extracted>>

--------------------------------------------------------------------------------
(* Building a statement of a section (_build, _columns_by_page).            *)

\* The line that gives a statement its unit, the nearest first; 0 if none does.
UnitLine(x) == IF x.unit # 0 THEN x.unit ELSE IF x.above # 0 THEN x.above ELSE x.declared

AmountsOn(x, n) ==
    {k \in 1 .. Len(x.lines) : printed[x.lines[k]].kind = "amounts" /\ printed[x.lines[k]].page = n}

PagesOf(x) == {printed[x.lines[k]].page : k \in 1 .. Len(x.lines)}

Dense(x) == {n \in PagesOf(x) : Cardinality(AmountsOn(x, n)) >= MinAmountLines}

\* A page with too few amounts borrows the columns of the page next to it, in the order
\* of the pages, which may have borrowed them itself.
HasColumns(x) ==
    LET f[n \in 0 .. MaxPages] ==
            /\ n \in PagesOf(x)
            /\ \/ n \in Dense(x) \/ n + 1 \in Dense(x)
               \/ n > 0 /\ f[n - 1]
    IN  {n \in 1 .. MaxPages : f[n]}

Buildable(x) ==
    /\ UnitLine(x) # 0
    /\ Dense(x) # {}
    /\ \A n \in PagesOf(x) \ HasColumns(x) : AmountsOn(x, n) = {}

\* The last page has been read; a section still open has no end.  broken: the columns
\* of a page cannot be told, an amount cannot be read, or two stand in one column.
EndReading ==
    /\ extracted = NotYet
    /\ \E broken \in SUBSET Wanted :
          extracted' = {s \in (Wanted \cap ended) \ (tooLong \cup broken) : Buildable(section[s])}
    /\ UNCHANGED <<printed, page, section, current, ended, above, declared,
                   tooLong>>

ReaderNext ==
    \/ \E s \in Wanted : \/ TitleOutside(s) \/ TitleRepeated(s)
                         \/ TitleEnds("title", s)
    \/ TitleEnds("other", "other")
    \/ \E kind \in {"unit", "declaration", "amounts"} :
          LineOutside(kind) \/ LineTooFar(kind) \/ LineInside(kind)
    \/ LineOutside("other")
    \/ NextPage
    \/ EndReading

ReaderSpec == ReaderInit /\ [][ReaderNext]_readerVars

--------------------------------------------------------------------------------
(* Properties.                                                              *)

Given == IF extracted = NotYet THEN {} ELSE extracted
RangeOf(seq) == {seq[k] : k \in 1 .. Len(seq)}
AmountLines(t) == {k \in 1 .. Len(printed) : printed[k].kind = "amounts" /\ printed[k].table.number = t}

\* A statement that is given out has the amounts of one table with its title, all of them
\* and no others, though tables run over pages, repeat their titles and follow contents.
ExtractedWhole ==
    \A s \in Given :
        \E t \in 1 .. Len(printed) :
            /\ printed[t].table = [number |-> t, name |-> s]
            /\ {k \in RangeOf(section[s].lines) : printed[k].kind = "amounts"} = AmountLines(t)

\* Its unit stands in its own table before any amount, or above its title on the same
\* page, where it serves no other statement, or was declared before the title.
UnitIsItsOwn ==
    \A s \in Given :
        LET x == section[s]
            first == CHOOSE k \in RangeOf(x.lines) : \A other \in RangeOf(x.lines) : k <= other
        IN  IF x.unit # 0
            THEN /\ printed[x.unit].table = printed[first].table
                 /\ \A k \in AmountLines(printed[first].table.number) : x.unit < k
            ELSE IF x.above # 0
            THEN /\ printed[x.above].page = x.start
                 /\ \A other \in Given \ {s} : UnitLine(section[other]) # x.above
            ELSE x.declared \in 1 .. first
====================================================================================
