-------------------------- MODULE BoardNavigation --------------------------
(***************************************************************************)
(* A user on the boards in Grafana: opens one, clicks cells and series,    *)
(* picks values of the variables, changes the time range, uses the         *)
(* dropdowns.  The links, the variables and the queries are those of the   *)
(* boards; what Grafana does with them (options, defaults, URL parameters) *)
(* is modelled from how the boards use it.                                 *)
(***************************************************************************)
EXTENDS BoardQueries

VARIABLE page    \* the board shown, its selection and its time range

NoPage == [uid |-> "", val |-> <<>>, range |-> "short"]
Shown == page # NoPage

\* short is the default range, long reaches back to every fact.
Ranges == {"short", "long"}

----------------------------------------------------------------------------
(* Selection of a board: its variables in board order, so that the options *)
(* of one see the selection of the ones before.                            *)

Default(uid, v, val, range) ==
  CASE v.type = "custom"              -> {RETENTION_POLICIES[1]}
    [] v.type = "textbox" \/ v.multi  -> All
    [] OTHER                          -> FirstOptions(uid, v, val, range)

\* A parameter of the URL is taken as it is.
Filled(uid, list, url, range) ==
  LET upTo[i \in 0..Len(list)] ==
        IF i = 0 THEN <<>>
        ELSE LET v == list[i]
                 above == upTo[i - 1]
             IN With(above, v.name, IF v.name \in DOMAIN url THEN url[v.name]
                                    ELSE Default(uid, v, above, range))
  IN upTo[Len(list)]

Selection(uid, url, range) == Filled(uid, Board[uid].vars, url, range)

Page(uid, url, range) ==
  [uid |-> uid, val |-> Selection(uid, url, range), range |-> range]

\* The options are read again: values that are no longer among them go.
Refreshed(uid, v, old, val, range) ==
  LET kept == old \cap Options(uid, v, val, range)
  IN IF old = All \/ kept # {} THEN kept ELSE Default(uid, v, val, range)

\* After the variables `changed`, or the range, every variable whose query
\* uses a changed one is refreshed, then those that use it.
Refilled(uid, list, val, changed, everything, range) ==
  LET upTo[i \in 0..Len(list)] ==
        IF i = 0 THEN val
        ELSE LET v == list[i]
                 above == upTo[i - 1]
                 stale == \/ everything
                          \/ \E r \in v.refs : r \in changed \/ above[r] # val[r]
             IN IF v.type = "query" /\ v.name \notin changed /\ stale
                THEN With(above, v.name, Refreshed(uid, v, val[v.name], above, range))
                ELSE above
  IN upTo[Len(list)]

Reselected(uid, val, changed, everything, range) ==
  Refilled(uid, Board[uid].vars, val, changed, everything, range)

----------------------------------------------------------------------------
(* What the user sees and can do.                                          *)

PanelAnswer(p) == Answer(p, page.val, page.range)

\* A click on link l in the row of f: columns of the row and variables of
\* this board become parameters.
Follow(l, f) ==
  LET carried == {n \in DOMAIN l.carry : l.carry[n] \in DOMAIN page.val}
  IN Page(l.to,
          [n \in DOMAIN l.fields \cup carried |->
             IF n \in DOMAIN l.fields THEN {f[l.fields[n]]} ELSE page.val[l.carry[n]]],
          page.range)

\* Every click that the page offers.
Clicks ==
  IF ~Shown THEN {}
  ELSE UNION {{[link |-> l, row |-> f] : l \in p.links, f \in PanelAnswer(p)} :
              p \in {q \in QueryPanels(page.uid) : q.links # {}}}

After(c) == Follow(c.link, c.row)

OpenBoard ==
  /\ ~Shown
  /\ \E uid \in Uids : page' = Page(uid, <<>>, "short")

ClickCell == \E c \in Clicks : page' = After(c)

\* A dropdown keeps the range, and the variables if it includes them.
UseDropdown ==
  /\ Shown
  /\ \E d \in Board[page.uid].dropdowns : \E uid \in {u \in Uids : Board[u].tag = d.tag} :
       page' = Page(uid, IF d.vars THEN page.val ELSE <<>>, page.range)

\* Of a multi-value variable the user picks All or some values.
Offered(v) ==
  IF v.type = "custom" THEN {{r} : r \in ToSet(RETENTION_POLICIES)}
  ELSE LET options == Options(page.uid, v, page.val, page.range)
       IN IF v.multi THEN SUBSET options ELSE {{o} : o \in options}

PickVariable ==
  /\ Shown
  /\ \E v \in {w \in ToSet(Board[page.uid].vars) : w.type # "textbox"} : \E choice \in Offered(v) :
       page' = [page EXCEPT !.val =
                  Reselected(page.uid, [@ EXCEPT ![v.name] = choice], {v.name}, FALSE, page.range)]

\* Every variable is refreshed on a change of the range.
ChangeRange ==
  /\ Shown
  /\ \E range \in Ranges \ {page.range} :
       page' = [page EXCEPT !.range = range,
                            !.val = Reselected(page.uid, @, {}, TRUE, range)]

NavigationInit == page = NoPage

NavigationNext ==
  /\ OpenBoard \/ ClickCell \/ UseDropdown \/ PickVariable \/ ChangeRange
  /\ UNCHANGED facts

----------------------------------------------------------------------------
(* Properties.  Most speak of every click the page offers: where it leads  *)
(* and what is shown there.                                                *)

NavigationTypeOK ==
  Shown => /\ page.uid \in Uids /\ page.range \in Ranges
           /\ DOMAIN page.val = {v.name : v \in ToSet(Board[page.uid].vars)}
           /\ \A v \in DOMAIN page.val : page.val[v] \subseteq Nat

AnswerOn(pg, q) == Answer(q, pg.val, pg.range)

\* Panels of all rows or of both envs: not those of one side.
WidePanels(uid) ==
  {p \in QueryPanels(uid) : Cardinality(Queried(p) \cap SIDE_VARS) # 1}

\* The text of a mask is shown for the whole mask, whatever the variant.
MaskText(q) == q.from = "pg_stmt_text" /\ q.by = {"env", "query_mask_md5"}

Visible(pg) == {f \in facts : Retained(f, pg.val) /\ InRange(f, pg.range)}

\* "Drill-down": no click loses the row that was clicked.  Every panel of the
\* board it leads to selects that row, with the same range and retention; a
\* statement text older than the range is shown there by a panel of such texts.
ClickLandsOnRow ==
  \A c \in Clicks :
    /\ \A q \in WidePanels(c.link.to) : Matches(c.row, Queried(q), After(c).val)
    /\ \/ c.row \in Visible(After(c))
       \/ /\ ~InRange(c.row, page.range)
          /\ \E q \in QueryPanels(c.link.to) : ~q.timed /\ c.row \in AnswerOn(After(c), q)

\* On the board a click leads to, the columns it set have the value clicked in
\* every row, and another board than this one is narrowed to the env and the
\* instance of the row.
ShowsOnlyTheRow ==
  \A c \in Clicks :
    LET said == DOMAIN c.link.fields
                  \cup IF c.link.to # page.uid /\ "env" \in DOMAIN After(c).val THEN INST ELSE {}
    IN \A q \in {r \in WidePanels(c.link.to) : ~MaskText(r)} :
         \A g \in AnswerOn(After(c), q) :
           \A n \in said \cap Tags[q.from] : g[n] = c.row[n]

\* The detail links: omitted md5 / queryid variables fall back to .*.  A click
\* on a mask shows every variant of it, even on a board narrowed to one.
MaskShowsAllVariants ==
  \A c \in {d \in Clicks : d.link.on = "query_mask_md5" /\ "queryid" \in DOMAIN After(d).val} :
    \A q \in {r \in WidePanels(c.link.to) : r.from = "pg_stmt"} :
      {f \in Visible(page) : \A n \in MASK : f[n] = c.row[n]} \subseteq AnswerOn(After(c), q)

\* Click-to-filter: the other variables are kept, so a click on a cell of the
\* statements board only takes rows away.
SelfFilterNarrows ==
  \A c \in {d \in Clicks : d.link.to = page.uid /\ "usename" \in DOMAIN page.val} :
    \A q \in WidePanels(page.uid) : AnswerOn(After(c), q) \subseteq AnswerOn(page, q)

\* And no click shows more, or less, than it says: data links and
\* click-to-filter change the variables they are about and no other.
ClickShowsExactly == ShowsOnlyTheRow /\ MaskShowsAllVariants /\ SelfFilterNarrows

\* A row that a panel shows agrees with every variable of the board that its
\* measurement has as a column: no panel forgets a filter.
Agrees(f, v) ==
  IF v \in SIDE_VARS THEN f.env \in page.val.env_a \cup page.val.env_b
  ELSE Selects(f, v, page.val)

SelectionRespected ==
  Shown =>
    \A p \in {q \in QueryPanels(page.uid) : ~MaskText(q)} :
      \A f \in PanelAnswer(p) :
        \A v \in {w \in DOMAIN page.val : ColumnOf(w) \in Tags[p.from]} : Agrees(f, v)

\* "Rows of different envs are never summed": two facts in one row of a table
\* or one series are of one env, even of instances with the same name.
RowsOfOneEnv ==
  Shown =>
    \A p \in QueryPanels(page.uid) :
      p.type # "stat" /\ p.scope = "all" =>
        \A f, g \in PanelAnswer(p) : SameObject(p, f, g) => f.env = g.env

\* The panels show what the variables say, whatever was picked before: no
\* filter is forgotten and no row stands for two envs.
PanelsRespectSelection == SelectionRespected /\ RowsOfOneEnv

\* What is left selected of a statement text older than the range: its env,
\* its instance too unless All was picked since, and nothing else.
OldTextSelected(pg) ==
  /\ Board[pg.uid].tag = "ch-runbooks"
  /\ \E f \in facts :
       /\ ~InRange(f, pg.range)
       /\ pg.val["env"] = {f.env} /\ pg.val["db_instance"] \in {All, {f.db_instance}}
  /\ \A v \in ToSet(Board[pg.uid].vars) :
       v.type = "query" /\ v.name \notin INST => pg.val[v.name] = All

\* The variables are chained: whatever was picked, clicked or refreshed in
\* whatever order, the selection exists, there is a row with all of it, or it
\* is that of an older statement text that was clicked.
SelectionExists ==
  LET found == {f \in facts : /\ Retained(f, page.val)
                              /\ Clickhouse(page.uid) => InRange(f, page.range)}
      queried == {v.name : v \in {w \in ToSet(Board[page.uid].vars) : w.type = "query"}}
  IN Shown /\ found # {} =>
       (\E f \in found : Matches(f, queried, page.val)) \/ OldTextSelected(page)

\* "Instances of env A, the ones present in both envs first": a compare board
\* of ClickHouse just opened shows both sides if any instance is in both envs.
FreshCompareHasBothSides ==
  Shown /\ Clickhouse(page.uid) /\ SIDE_VARS \subseteq DOMAIN page.val
    /\ "schemaname" \notin DOMAIN page.val /\ page = Page(page.uid, <<>>, page.range)
    /\ (\E f, g \in Visible(page) :
          f.db_instance = g.db_instance /\ f.env \in page.val.env_a /\ g.env \in page.val.env_b)
  => \A p \in QueryPanels(page.uid) : p.scope \in {"a", "b"} => PanelAnswer(p) # {}

\* "The same boards as pg-*": with the same selection, and a retention policy
\* that reaches as far back as the range, a panel of the ch-* twin shows the
\* same rows under the same keys and leads to the twin boards.  But for the
\* statement texts: those of the twin are shown regardless of the range.
Twin(uid) == "ch-" \o SubSeq(uid, 4, Len(uid))
TwinLink(l) ==
  [l EXCEPT !.to = Twin(@), !.carry = [n \in DOMAIN @ \ KEEP_RP |-> @[n]]]

TwinAnswer(q) ==
  Answer(q, [n \in DOMAIN page.val \ KEEP_RP |-> page.val[n]], page.range)

Alike(here, there) ==
  /\ Len(here) = Len(there)
  /\ \A i \in {k \in 1..Len(here) : here[k].targets # <<>>} :
       /\ PanelAnswer(here[i]) = {f \in TwinAnswer(there[i]) : InRange(f, page.range)}
       /\ here[i].from # "pg_stmt_text" => PanelAnswer(here[i]) = TwinAnswer(there[i])
       /\ there[i].by = here[i].by
       /\ there[i].links = {TwinLink(l) : l \in here[i].links}

TwinsAgree ==
  Shown /\ ~Clickhouse(page.uid)
    /\ (\A f \in facts : InRange(f, page.range) => Retained(f, page.val)) =>
    Alike(Board[page.uid].panels, Board[Twin(page.uid)].panels)

----------------------------------------------------------------------------
(* What the boards must be like for the properties to hold: rules about    *)
(* their variables, panels and links, whatever data there is.              *)

VariablesOf(uid) == {v.name : v \in ToSet(Board[uid].vars)}
QueryVariables(uid) == {v \in ToSet(Board[uid].vars) : v.type = "query"}

VariableRule(uid, i) ==
  LET list == Board[uid].vars
      v == list[i]
  IN /\ \A j \in DOMAIN list : list[j].name = v.name => j = i
     /\ v.type \in {"query", "textbox"} \/ (v.type = "custom" /\ v.name = "rp" /\ ~v.multi)
     /\ v.name = "rp" => v.type = "custom"
     /\ v.name \in SIDE_VARS => v.type = "query" /\ ~v.multi
     /\ v.type = "query" =>
          /\ v.col = ColumnOf(v.name) /\ v.col \in TagColumns
          /\ v.refs \subseteq NamesAbove(Board[uid], i)
          /\ "rp" \in VariablesOf(uid) => "rp" \in v.refs
          /\ v.first \in {"asc", "desc", "shared"}
          /\ v.first = "shared" => Clickhouse(uid) /\ "env_a" \in v.refs

\* A row that variable u has its value from matches these filters.
Covers(u, filters) ==
  LET own == u.refs \cup {u.name}
  IN /\ filters \ (KEEP_RP \cup SIDE_VARS) \subseteq own
     /\ filters \cap SIDE_VARS # {} =>
          own \cap SIDE_VARS # {} /\ own \cap SIDE_VARS \subseteq filters

\* There are options for a variable if one above has a value, and one variable
\* has its value from a row that matches all of them.
Chained(uid) ==
  /\ \A i \in DOMAIN Board[uid].vars :
       LET v == Board[uid].vars[i]
       IN v.type = "query" =>
            \/ v.refs \subseteq KEEP_RP
            \/ \E u \in QueryVariables(uid) :
                 /\ u.name \in NamesAbove(Board[uid], i) /\ Covers(u, v.refs)
                 /\ v.first = "shared" => u.name = "env_a"
  /\ \E u \in QueryVariables(uid) : Covers(u, {v.name : v \in QueryVariables(uid)})

\* A panel filters by every variable its measurement has a column for, on both
\* sides of a comparison, and its rows are split by env.
PanelRule(uid, p) ==
  /\ Queried(p) \subseteq VariablesOf(uid)
  /\ p.scope \in {"all", "a", "b", "only_a", "only_b", "both"}
  /\ p.scope # "all" \/ Queried(p) \cap SIDE_VARS # {} => SIDE_VARS \subseteq VariablesOf(uid)
  /\ p.type # "stat" /\ p.scope = "all" => "env" \in p.by
  /\ ~MaskText(p) =>
       \A n \in VariablesOf(uid) :
         ColumnOf(n) \in Tags[p.from] =>
           \/ n \notin SIDE_VARS \cup KEEP_RP /\ n \in Queried(p)
           \/ n \in SIDE_VARS /\ (p.scope # "all" \/ Queried(p) \cap SIDE_VARS # {})

Carried(uid, l) == {n \in DOMAIN l.carry \ DOMAIN l.fields : l.carry[n] \in VariablesOf(uid)}
KeptBy(uid, l, names) == \A n \in names : n \in Carried(uid, l) /\ l.carry[n] = n

\* Every row of panel p has a value of variable n.
Shows(p, n) ==
  \/ n \notin SIDE_VARS /\ n \in Queried(p)
  \/ n = "env_a" /\ p.scope \in {"a", "only_a"}
  \/ n = "env_b" /\ p.scope \in {"b", "only_b"}

\* The row clicked has the value of variable v of the board that l leads to:
\* its own, one carried that it was shown for, or none.
RowSelects(uid, p, l, v) ==
  \/ v.name \in DOMAIN l.fields
  \/ /\ v.name \in Carried(uid, l) /\ Shows(p, l.carry[v.name])
     /\ ColumnOf(l.carry[v.name]) = v.name
  \/ /\ v.name \notin DOMAIN l.fields \cup Carried(uid, l)
     /\ v.type = "textbox" \/ v.multi

\* A click on an older text selects its instance, on a board that shows texts.
OldTextRule(uid, l) ==
  /\ Board[l.to].tag = "ch-runbooks" /\ INST \subseteq DOMAIN l.fields
  /\ \A v \in QueryVariables(l.to) :
       v.name \notin INST => v.multi /\ v.name \notin DOMAIN l.fields \cup Carried(uid, l)
  /\ \E q \in QueryPanels(l.to) :
       ~q.timed /\ q.scope = "all" /\ Queried(q) \cap SIDE_VARS = {}

\* The runbook boards of ClickHouse: the env, its instances, then the rest.
RunbookRule(uid) ==
  LET names == {v.name : v \in QueryVariables(uid)}
  IN /\ INST \subseteq names
     /\ \A v \in QueryVariables(uid) :
          /\ v.multi /\ v.refs \subseteq names
          /\ v.name = "env" => v.refs = {}
          /\ v.name = "db_instance" => v.refs = {"env"}
          /\ v.name \notin INST => INST \subseteq v.refs

\* Rule of a link: the row clicked, its store and its retention are kept.
LinkRule(uid, p, l) ==
  /\ l.to \in Uids /\ Clickhouse(l.to) = Clickhouse(uid)
  /\ "rp" \in VariablesOf(l.to) => KeptBy(uid, l, KEEP_RP)
  /\ "rp" \in VariablesOf(uid) => "rp" \in VariablesOf(l.to)
  /\ \A n \in DOMAIN l.fields : /\ l.fields[n] = n /\ n \in TagColumns
                              /\ n \in VariablesOf(l.to) \ (SIDE_VARS \cup KEEP_RP)
  /\ \A v \in ToSet(Board[l.to].vars) :
       v.name \notin SIDE_VARS \cup KEEP_RP => RowSelects(uid, p, l, v)
  /\ SIDE_VARS \cap VariablesOf(l.to) # {} =>
       /\ SIDE_VARS \subseteq VariablesOf(l.to) /\ KeptBy(uid, l, SIDE_VARS)
       /\ p.scope # "all" \/ Queried(p) \cap SIDE_VARS # {}
  /\ ~p.timed => OldTextRule(uid, l)
  /\ \A v \in QueryVariables(l.to) :
       LET own == v.refs \cup {v.name}
       IN \/ v \in QueryVariables(uid) /\ KeptBy(uid, l, own)
          \/ /\ v.first # "shared" /\ (v.multi \/ v.name \notin Carried(uid, l))
             /\ v.name \notin SIDE_VARS /\ v.refs \cap SIDE_VARS \in {{}, SIDE_VARS}

\* Rule of what a click shows: INST of another board, every variant of a mask,
\* and on the same board nothing that was not shown.
ClickRule(uid, p, l) ==
  /\ l.to # uid /\ "env" \in VariablesOf(l.to) =>
       /\ INST \subseteq VariablesOf(l.to)
       /\ \A n \in INST : \/ n \in DOMAIN l.fields
                         \/ /\ n \in Carried(uid, l)
                            /\ \E w \in QueryVariables(uid) : ~w.multi /\ w.name = l.carry[n]
  /\ l.on = "query_mask_md5" /\ "queryid" \in VariablesOf(l.to) =>
       \A q \in {r \in WidePanels(l.to) : r.from = "pg_stmt"} :
         /\ q.scope = "all" /\ Queried(q) \cap SIDE_VARS = {}
         /\ Queried(q) \cap (DOMAIN l.fields \cup Carried(uid, l)) \subseteq MASK \cup KEEP_RP
  /\ l.to = uid /\ "usename" \in VariablesOf(uid) =>
       \A q \in WidePanels(uid) :
         /\ q.scope = "all" /\ Queried(q) \cap SIDE_VARS = {}
         /\ \A n \in Queried(q) : KeptBy(uid, l, {n}) \/ (n \in DOMAIN l.fields /\ n \in Queried(p))

\* The boards of a dropdown have the same store and the same variables.
DropdownRule(uid, to) ==
  /\ Clickhouse(to) = Clickhouse(uid) /\ Board[to].tag = Board[uid].tag
  /\ "rp" \in VariablesOf(to) <=> "rp" \in VariablesOf(uid)
  /\ \A v \in QueryVariables(to) : v.name \in VariablesOf(uid) => v \in QueryVariables(uid)

\* The twin of a panel filters by the same variables.
TwinRule(uid) ==
  LET here == Board[uid].panels
      there == Board[Twin(uid)].panels
  IN /\ Twin(uid) \in Uids /\ Len(here) = Len(there)
     /\ \A i \in {k \in 1..Len(here) : here[k].targets # <<>>} :
          /\ there[i].scope = here[i].scope /\ there[i].by = here[i].by
          /\ there[i].links = {TwinLink(l) : l \in here[i].links}
          /\ Queried(there[i]) = Queried(here[i]) \ KEEP_RP
          /\ here[i].timed
          /\ there[i].timed \/ (there[i].scope = "all" /\ here[i].from = "pg_stmt_text")

\* Of a compare board of ClickHouse but that of a schema: the instance is one
\* of both envs if there is one, and nothing else narrows the rows at first.
CompareRule(uid) ==
  \A v \in ToSet(Board[uid].vars) :
    \/ v.name \in SIDE_VARS \/ v.type = "textbox" \/ v.multi
    \/ v.name = "db_instance" /\ v.first = "shared" /\ v.refs = SIDE_VARS

BoardsConsistent ==
  \A uid \in Uids :
    /\ \A i \in DOMAIN Board[uid].vars : VariableRule(uid, i)
    /\ Chained(uid)
    /\ \A p \in QueryPanels(uid) :
         /\ PanelRule(uid, p)
         /\ \A l \in p.links : LinkRule(uid, p, l) /\ ClickRule(uid, p, l)
    /\ \A d \in Board[uid].dropdowns : \A to \in {u \in Uids : Board[u].tag = d.tag} :
         d.vars => DropdownRule(uid, to)
    /\ ~Clickhouse(uid) => TwinRule(uid)
    /\ Board[uid].tag = "ch-runbooks" => Clickhouse(uid) /\ RunbookRule(uid)
    /\ Clickhouse(uid) /\ SIDE_VARS \subseteq VariablesOf(uid)
         /\ "schemaname" \notin VariablesOf(uid) => CompareRule(uid)
=============================================================================
