---------------------------- MODULE EntityTags ----------------------------
(***************************************************************************)
(* tags.py: imports into the table of known entities, one autocommitted    *)
(* row after the other and several commands at once, and the lookup of     *)
(* trace.py that labels an address from the tags of all sources.           *)
(***************************************************************************)
EXTENDS Subsequences, SequencesExt

CONSTANTS TagAddr,
          Session,     \* commands running at the same time
          Lists,       \* OFAC lists: sequences of [address, currency]
          Sheets,      \* CSV files, the shipped list, hand-made tags: sequences of rows,
                       \* of any source, OFAC too
          MaxImports, MaxRemovals

Blank == "blank"   \* an address that is empty once stripped

ASSUME TagsAssumption ==
  /\ Blank \notin TagAddr
  /\ \A l \in Lists : l \in Seq([address : TagAddr \cup {Blank}, currency : {"XBT", "ETH"}])
  /\ \A s \in Sheets : s \in Seq([address : TagAddr \cup {Blank}, source : STRING,
                                 category : STRING, confidence : Nat])

VARIABLES
  tags,      \* the table: <<address, source>> to category and confidence
  todo,      \* the rows a command has still to insert
  reading,   \* the OFAC list a command imports, <<>> for another import
  due,       \* addresses of OFAC lists that were imported to the end
  removed,   \* addresses of which tags were removed
  relabelled, \* addresses whose OFAC row an import other than import-ofac wrote last
  imports

tagVars == <<tags, todo, reading, due, removed, relabelled, imports>>

TagsInit ==
  /\ tags = <<>>
  /\ todo = [s \in Session |-> <<>>] /\ reading = [s \in Session |-> <<>>]
  /\ due = {} /\ removed = {} /\ relabelled = {} /\ imports = 0

\* parse_ofac_sdn keeps the first entry of an address, under any currency;
\* the filter on the currency comes after it.
FirstEntry(list, i) == \A j \in 1..(i - 1) : list[j].address # list[i].address
ParseOfac(list) == {i \in 1..Len(list) : FirstEntry(list, i)}
OfacRows(list, all) ==
  Elements([i \in 1..Len(list) |-> [address |-> list[i].address, source |-> "OFAC",
                                    category |-> "sanctioned", confidence |-> 10]],
           {i \in ParseOfac(list) : all \/ list[i].currency = "XBT"})

\* A command starts: import-ofac, for Bitcoin or --all, or another import.
BeginImport(s) ==
  /\ todo[s] = <<>> /\ imports < MaxImports
  /\ \/ \E l \in Lists, all \in BOOLEAN :
          /\ todo' = [todo EXCEPT ![s] = OfacRows(l, all)]
          /\ reading' = [reading EXCEPT ![s] = l]
     \/ \E sheet \in Sheets :
          /\ todo' = [todo EXCEPT ![s] = sheet]
          /\ reading' = [reading EXCEPT ![s] = <<>>]
  /\ imports' = imports + 1
  /\ UNCHANGED <<tags, due, removed, relabelled>>

\* MUTANT: tags are told apart by their address only.
TagKeyAddress(r) == <<r.address, "any">>
TagKey(r) == <<r.address, r.source>>

\* MUTANT: a blank address ends the import.
AfterBlankNone(rest) == <<>>
AfterBlank(rest) == rest

\* The addresses an imported list has under Bitcoin alone.
BitcoinOnly(list) ==
  {a \in TagAddr : /\ \E e \in ToSet(list) : e.address = a
                   /\ \A e \in ToSet(list) : e.address = a => e.currency = "XBT"}

\* _upsert takes a row: it is inserted, or replaces the one of its key, by whatever
\* command that came; the command ends with the last.
UpsertRow(s) ==
  /\ todo[s] # <<>>
  /\ LET r == Head(todo[s])
         rest == IF r.address = Blank THEN AfterBlank(Tail(todo[s])) ELSE Tail(todo[s])
     IN  /\ tags' = IF r.address = Blank THEN tags
                    ELSE [k \in DOMAIN tags \cup {TagKey(r)} |->
                            IF k = TagKey(r)
                            THEN [category |-> r.category, confidence |-> r.confidence]
                            ELSE tags[k]]
         /\ relabelled' = IF r.address = Blank \/ r.source # "OFAC" THEN relabelled
                          ELSE IF reading[s] = <<>> THEN relabelled \cup {r.address}
                          ELSE relabelled \ {r.address}
         /\ todo' = [todo EXCEPT ![s] = rest]
         /\ due' = IF rest = <<>> THEN due \cup BitcoinOnly(reading[s]) ELSE due
  /\ UNCHANGED <<reading, removed, imports>>

\* A command fails or is killed between two rows: the first ones stay.
ImportDies(s) ==
  /\ todo[s] # <<>>
  /\ todo' = [todo EXCEPT ![s] = <<>>]
  /\ UNCHANGED <<tags, reading, due, removed, relabelled, imports>>

\* tags remove, with --source or of all sources.
RemoveTags ==
  /\ Cardinality(removed) < MaxRemovals
  /\ \E k \in DOMAIN tags, every \in BOOLEAN :
       /\ tags' = [j \in {j \in DOMAIN tags : j[1] # k[1] \/ (~every /\ j # k)} |-> tags[j]]
       /\ removed' = removed \cup {k[1]}
  /\ UNCHANGED <<todo, reading, due, relabelled, imports>>

TagsNext ==
  \/ \E s \in Session : BeginImport(s) \/ UpsertRow(s) \/ ImportDies(s)
  \/ RemoveTags

TagsSpec == TagsInit /\ [][TagsNext]_tagVars

-----------------------------------------------------------------------------
Rank(category) ==
  CASE category = "sanctioned" -> 0 [] category = "mixer" -> 1
    [] category = "exchange" -> 2 [] OTHER -> 3

\* MUTANT: the surest tag comes first.
BeforeSurest(x, y) == x.confidence > y.confidence
Before(x, y) ==
  \/ Rank(x.category) < Rank(y.category)
  \/ Rank(x.category) = Rank(y.category) /\ x.confidence > y.confidence

\* The labels _entity_lookup may give an address: those no other comes before.
Labels(a) ==
  LET own == {tags[k] : k \in {k \in DOMAIN tags : k[1] = a}}
  IN  {x \in own : \A y \in own : ~Before(y, x)}

\* Once an OFAC list has been imported to the end, each address it has for
\* Bitcoin is tagged, whatever was imported, interrupted or tried before or at
\* the same time (tags.py:6).  An address the list has under two currencies is
\* left out: the parser may have dropped it (tags.py:105).
OfacComplete == \A a \in due \ removed : <<a, "OFAC">> \in DOMAIN tags

\* An address with an OFAC tag is shown as sanctioned, whatever other sources
\* say of it and how sure they are (trace.py:137), until tags add or tags import
\* --source OFAC (tags.py:154-194) writes over that tag and import-ofac comes to
\* the address again.
SanctionedShows ==
  \A a \in TagAddr \ relabelled : <<a, "OFAC">> \in DOMAIN tags =>
    \A x \in Labels(a) : x.category = "sanctioned"
=============================================================================
