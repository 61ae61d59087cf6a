----------------------------- MODULE TomlParser -----------------------------
(***************************************************************************)
(* The reader of the simulation's configuration file: toml_parse of        *)
(* toml.c, one step per token that it takes.                               *)
(*                                                                         *)
(* The recursive calls of parse_array and parse_inline_table are the       *)
(* places in stack.  A table, an array or a value is known by its path: a  *)
(* sequence of keys and of positions in arrays.  The three lists of a      *)
(* table hold together at most one entry of a key, as check_key looks into *)
(* all of them before every insertion.  Memory is always found.            *)
(***************************************************************************)
EXTENDS Naturals, Sequences

CONSTANTS
    Keys,     \* the keys of the file, as normalize_key leaves them
    MaxPath,  \* the longest path of a table header: 10
    MaxTokens \* bound: tokens in the file

ASSUME BoundsAssumption == MaxPath \in Nat /\ MaxTokens \in Nat

\* A string whose text is no key; one of no characters, which is never
\* stepped over; and INVALID for a string that cannot be scanned: no caller
\* of next_token goes on after that.
Strings == Keys \cup {"NOKEY", "STUCK"}
Marks   == {"DOT", "COMMA", "EQUAL", "LBRACE", "RBRACE", "LBRACKET", "RBRACKET", "NEWLINE", "EOF", "INVALID"}
Tokens  == Strings \cup Marks

ASSUME KeysAssumption == Keys \cap Marks = {}

VARIABLES
    tok,     \* ctx->tok; "EOF" is a NEWLINE with eof set
    tokens,  \* not in the code: the tokens scanned
    pc,      \* where the parser is
    stack,   \* the arrays and inline tables it is in
    tree,    \* what ctx->root holds
    curtab,  \* ctx->curtab
    tab,     \* the table of parse_keyval; in walk_tabpath, the table reached
    key,     \* the key of parse_keyval
    tpath,   \* ctx->tpath, from the key that is next
    llb,     \* whether the header began with [[
    defined  \* not in the code: the tables that headers and { } gave

vars == <<tok, tokens, pc, stack, tree, curtab, tab, key, tpath, llb, defined>>

ParserAt == {"top", "eol", "keyval", "keyed", "value", "item", "entry", "comma", "path",
             "pathNext", "walk", "selected"}

Value           == [is |-> "value"]
Table(implicit) == [is |-> "table", implicit |-> implicit, readonly |-> FALSE]
Array(kind)     == [is |-> "array", kind |-> kind, nitem |-> 0]

Init ==
    /\ tok = "NEWLINE" /\ tokens = 0
    /\ pc = "top" /\ stack = <<>>
    /\ tree = [path \in {<<>>} |-> Table(FALSE)]
    /\ curtab = <<>> /\ tab = <<>> /\ key = "NOKEY"
    /\ tpath = <<>> /\ llb = FALSE
    /\ defined = <<>>

-----------------------------------------------------------------------------
\* next_token, n times over tokens that are known to be there.  A dot that is
\* not special begins a string.
Scan(n, dotisspecial) ==
    IF tok \in {"STUCK", "EOF"}
    THEN UNCHANGED <<tok, tokens>>
    ELSE /\ tokens' = tokens + n
         /\ tok' \in IF tokens >= MaxTokens THEN {"EOF"}
                     ELSE Tokens \ (IF dotisspecial THEN {} ELSE {"DOT"})

\* On return the context is gone.
Leave ==
    /\ tok' = "INVALID" /\ tokens' = 0
    /\ stack' = <<>> /\ curtab' = <<>> /\ tab' = <<>> /\ key' = "NOKEY"
    /\ tpath' = <<>> /\ llb' = FALSE /\ defined' = <<>>

Refuse == pc' = "refused" /\ tree' = <<>> /\ Leave

Absent(path) == path \notin DOMAIN tree

IsTable(path) == ~Absent(path) /\ tree[path].is = "table"

CanDefine(path) == Absent(path) \/ (IsTable(path) /\ tree[path].implicit)

\* t with one node more.
With(path, node, t) == [p \in DOMAIN t \cup {path} |-> IF p = path THEN node ELSE t[p]]

DefineKeepingImplicit(path) == IF Absent(path) THEN With(path, Table(FALSE), tree) ELSE tree \* mutant
Define(path) ==
    IF Absent(path) THEN With(path, Table(FALSE), tree) ELSE [tree EXCEPT ![path].implicit = FALSE]

KindOfFirst(kind, is) == IF kind = "none" THEN is ELSE kind \* mutant
KindWith(kind, is) == IF kind \in {"none", is} THEN is ELSE "mixed"

\* The places of the items of an array.
At(arr, t) == Append(arr, t[arr].nitem)

AddItem(arr, node, t) ==
    LET longer == [t EXCEPT ![arr].nitem = @ + 1, ![arr].kind = KindWith(@, node.is)]
    IN  With(At(arr, longer), node, longer)

-----------------------------------------------------------------------------
\* The loop of toml_parse.
Top ==
    /\ pc = "top"
    /\ \/ /\ tok = "EOF"
          /\ pc' = "accepted" /\ Leave /\ UNCHANGED tree
       \/ /\ tok = "NEWLINE"
          /\ Scan(1, TRUE)
          /\ UNCHANGED <<pc, stack, tree, curtab, tab, key, tpath, llb, defined>>
       \/ /\ tok \in Strings
          /\ pc' = "keyval" /\ tab' = curtab
          /\ UNCHANGED <<tok, tokens, stack, tree, curtab, key, tpath, llb, defined>>
       \/ tok \notin {"EOF", "NEWLINE", "LBRACKET"} \cup Strings /\ Refuse

EndOfLine ==
    /\ pc = "eol"
    /\ IF tok \in {"NEWLINE", "EOF"}
       THEN /\ Scan(1, TRUE)
            /\ pc' = "top"
            /\ UNCHANGED <<stack, tree, curtab, tab, key, tpath, llb, defined>>
       ELSE Refuse

\* parse_keyval, up to what follows the key.
KeyvalUnchecked == \* mutant
    /\ pc = "keyval"
    /\ IF tok \in Strings
       THEN /\ key' = tok /\ Scan(1, TRUE)
            /\ pc' = "keyed"
            /\ UNCHANGED <<stack, tree, curtab, tab, tpath, llb, defined>>
       ELSE Refuse
Keyval ==
    /\ pc = "keyval"
    /\ IF tok \in Strings /\ ~tree[tab].readonly
       THEN /\ key' = tok /\ Scan(1, TRUE)
            /\ pc' = "keyed"
            /\ UNCHANGED <<stack, tree, curtab, tab, tpath, llb, defined>>
       ELSE Refuse

place == Append(tab, key)

CanDescend == key \in Keys /\ (IsTable(place) \/ Absent(place))

Keyed ==
    /\ pc = "keyed"
    /\ \/ /\ tok = "EQUAL"
          /\ Scan(1, FALSE)
          /\ pc' = "value"
          /\ UNCHANGED <<stack, tree, curtab, tab, key, tpath, llb, defined>>
       \/ /\ tok = "DOT" /\ CanDescend
          /\ tree' = IF IsTable(place) THEN tree ELSE Define(place)
          /\ Scan(1, TRUE)
          /\ pc' = "keyval" /\ tab' = place
          /\ UNCHANGED <<stack, curtab, key, tpath, llb, defined>>
       \/ tok # "EQUAL" /\ ~(tok = "DOT" /\ CanDescend) /\ Refuse

\* Back in the caller of a value's parser.
ReturnTo(frames) ==
    /\ stack' = frames
    /\ pc' = IF frames = <<>> THEN "eol" ELSE "comma"
    /\ tab' = <<>> /\ key' = "NOKEY"

Enter(path) ==
    /\ stack' = Append(stack, path)
    /\ tab' = <<>> /\ key' = "NOKEY"
    /\ pc' = IF tree'[path].is = "array" THEN "item" ELSE "entry"
    /\ Scan(1, tree'[path].is = "table")

ValueAnyway == \* mutant
    /\ key \in Keys
    /\ tok \in Strings \/ (tok = "LBRACKET" /\ Absent(place)) \/ (tok = "LBRACE" /\ CanDefine(place))
\* What can follow an equal sign.
ValueAllowed ==
    /\ key \in Keys
    /\ \/ tok \in Strings \cup {"LBRACKET"} /\ Absent(place)
       \/ tok = "LBRACE" /\ CanDefine(place)

KeyedValue ==
    /\ pc = "value"
    /\ \/ /\ ValueAllowed /\ tok \in Strings
          /\ tree' = With(place, Value, tree)
          /\ Scan(1, TRUE) /\ ReturnTo(stack)
          /\ UNCHANGED <<curtab, tpath, llb, defined>>
       \/ /\ ValueAllowed /\ tok = "LBRACKET"
          /\ tree' = With(place, Array("none"), tree)
          /\ Enter(place)
          /\ UNCHANGED <<curtab, tpath, llb, defined>>
       \/ /\ ValueAllowed /\ tok = "LBRACE"
          /\ tree' = Define(place)
          /\ Enter(place)
          /\ defined' = Append(defined, place)
          /\ UNCHANGED <<curtab, tpath, llb>>
       \/ ~ValueAllowed /\ Refuse

-----------------------------------------------------------------------------
inner == stack[Len(stack)]
outer == SubSeq(stack, 1, Len(stack) - 1)
InArray == stack # <<>> /\ tree[inner].is = "array"

SkipsAnyNewline == tok \in {"NEWLINE", "EOF"} \* mutant
SkipsNewline == tok = "NEWLINE"

\* skip_newlines goes on until there are none, or the file has ended.
SkipNewline ==
    /\ pc \in {"item", "comma"} /\ InArray
    /\ SkipsNewline
    /\ Scan(1, FALSE)
    /\ UNCHANGED <<pc, stack, tree, curtab, tab, key, tpath, llb, defined>>

\* The end of parse_array.
CloseArray ==
    /\ Scan(1, TRUE)
    /\ ReturnTo(outer)
    /\ UNCHANGED <<tree, curtab, tpath, llb, defined>>

\* The loop of parse_array.
Item ==
    /\ pc = "item" /\ ~SkipsNewline
    /\ \/ tok = "RBRACKET" /\ CloseArray
       \/ /\ tok \in Strings
          /\ tree' = AddItem(inner, Value, tree)
          /\ Scan(1, FALSE)
          /\ pc' = "comma"
          /\ UNCHANGED <<stack, curtab, tab, key, tpath, llb, defined>>
       \/ /\ tok \in {"LBRACKET", "LBRACE"}
          /\ tree' = AddItem(inner, IF tok = "LBRACE" THEN Table(FALSE) ELSE Array("none"), tree)
          /\ Enter(At(inner, tree'))
          /\ defined' = IF tok = "LBRACE" THEN Append(defined, At(inner, tree')) ELSE defined
          /\ UNCHANGED <<curtab, tpath, llb>>
       \/ tok \notin Strings \cup {"RBRACKET", "LBRACKET", "LBRACE"} /\ Refuse

\* The end of parse_inline_table.
CloseTable ==
    /\ tree' = [tree EXCEPT ![inner].readonly = TRUE]
    /\ Scan(1, TRUE)
    /\ ReturnTo(outer)
    /\ UNCHANGED <<curtab, tpath, llb, defined>>

\* The loop of parse_inline_table.
Entry ==
    /\ pc = "entry"
    /\ \/ tok = "RBRACE" /\ CloseTable
       \/ /\ tok \in Strings
          /\ pc' = "keyval" /\ tab' = inner
          /\ UNCHANGED <<tok, tokens, stack, tree, curtab, key, tpath, llb, defined>>
       \/ tok \notin Strings \cup {"RBRACE"} /\ Refuse

\* After an item or an entry; a comma may be the last thing in both.
Comma ==
    /\ pc = "comma" /\ ~(InArray /\ SkipsNewline)
    /\ \/ /\ tok = "COMMA"
          /\ Scan(1, ~InArray)
          /\ pc' = IF InArray THEN "item" ELSE "entry"
          /\ UNCHANGED <<stack, tree, curtab, tab, key, tpath, llb, defined>>
       \/ tok = "RBRACKET" /\ InArray /\ CloseArray
       \/ tok = "RBRACE" /\ ~InArray /\ CloseTable
       \/ tok \notin {"COMMA", IF InArray THEN "RBRACKET" ELSE "RBRACE"} /\ Refuse

-----------------------------------------------------------------------------
\* parse_select.  Whether a second bracket follows without a space is the
\* file's choice; the parser looks at the characters for it.
Header ==
    /\ pc = "top" /\ tok = "LBRACKET"
    /\ llb' \in BOOLEAN
    /\ Scan(IF llb' THEN 2 ELSE 1, TRUE)
    /\ pc' = "path" /\ tpath' = <<>>
    /\ UNCHANGED <<stack, tree, curtab, tab, key, defined>>

\* fill_tabpath.
PathKeyUnbounded == \* mutant
    /\ pc = "path"
    /\ IF tok \in Keys \cup {"STUCK"}
       THEN /\ tpath' = Append(tpath, tok) /\ Scan(1, TRUE)
            /\ pc' = "pathNext"
            /\ UNCHANGED <<stack, tree, curtab, tab, key, llb, defined>>
       ELSE Refuse
PathKey ==
    /\ pc = "path"
    /\ IF tok \in Keys \cup {"STUCK"} /\ Len(tpath) < MaxPath
       THEN /\ tpath' = Append(tpath, tok) /\ Scan(1, TRUE)
            /\ pc' = "pathNext"
            /\ UNCHANGED <<stack, tree, curtab, tab, key, llb, defined>>
       ELSE Refuse

PathNext ==
    /\ pc = "pathNext"
    /\ \/ /\ tok = "DOT"
          /\ Scan(1, TRUE)
          /\ pc' = "path"
          /\ UNCHANGED <<stack, tree, curtab, tab, key, tpath, llb, defined>>
       \/ /\ tok = "RBRACKET"
          /\ pc' = "walk" /\ tab' = <<>>
          /\ UNCHANGED <<tok, tokens, stack, tree, curtab, key, tpath, llb, defined>>
       \/ tok \notin {"DOT", "RBRACKET"} /\ Refuse

next == Append(tab, tpath[1])

HasTables(arr) == ~Absent(arr) /\ tree[arr].is = "array" /\ tree[arr].kind = "table"

HasItems(arr)  == HasTables(arr) /\ tree[arr].nitem > 0

\* walk_tabpath, one key of the path.
Walk ==
    /\ pc = "walk" /\ Len(tpath) > 1
    /\ \/ /\ Absent(next)
          /\ tree' = With(next, Table(TRUE), tree) /\ tab' = next
          /\ tpath' = Tail(tpath)
          /\ UNCHANGED <<tok, tokens, pc, stack, curtab, key, llb, defined>>
       \/ /\ IsTable(next) \/ HasItems(next)
          /\ tab' = IF IsTable(next) THEN next ELSE At(next, tree)
          /\ tpath' = Tail(tpath)
          /\ UNCHANGED <<tok, tokens, pc, stack, tree, curtab, key, llb, defined>>
       \/ ~Absent(next) /\ ~IsTable(next) /\ ~HasItems(next) /\ Refuse

\* What the header is about is there or can be created.
CanOpen == IF llb THEN Absent(next) \/ HasTables(next) ELSE CanDefine(next)

\* The rest of parse_select, up to the closing brackets: [x] opens a table
\* and [[x]] one more in an array of tables.
Open ==
    /\ pc = "walk" /\ Len(tpath) = 1
    /\ \/ /\ CanOpen
          /\ tree' = IF ~llb THEN Define(next)
                     ELSE AddItem(next, Table(FALSE),
                                  IF Absent(next) THEN With(next, Array("table"), tree) ELSE tree)
          /\ curtab' = IF llb THEN At(next, tree') ELSE next
          /\ defined' = Append(defined, curtab')
          /\ Scan(IF llb THEN 2 ELSE 1, TRUE)
          /\ pc' = "selected" /\ tab' = <<>> /\ tpath' = <<>> /\ llb' = FALSE
          /\ UNCHANGED <<stack, key>>
       \/ (llb \/ ~CanOpen) /\ Refuse \* [[x] is refused as well

Selected ==
    /\ pc = "selected"
    /\ IF tok \in {"NEWLINE", "EOF"}
       THEN pc' = "top" /\ UNCHANGED <<tok, tokens, stack, tree, curtab, tab, key, tpath, llb, defined>>
       ELSE Refuse

Next ==
    \/ Top \/ EndOfLine \/ Keyval \/ Keyed \/ KeyedValue
    \/ SkipNewline \/ Item \/ Entry \/ Comma
    \/ Header \/ PathKey \/ PathNext \/ Walk \/ Open \/ Selected

\* The parser runs on its own until it returns.
Spec == Init /\ [][Next]_vars /\ WF_vars(Next)

-----------------------------------------------------------------------------
Kinds == {"value", "array", "table"}

Nodes ==
    {Value} \cup [is : {"table"}, implicit : BOOLEAN, readonly : BOOLEAN]
            \cup [is : {"array"}, kind : Kinds \cup {"none", "mixed"}, nitem : Nat]

\* Every variable has its type; whatever the parser points to is there, what
\* it adds keys to is a table, and tpath never outgrows its arrays.
TypeOK ==
    /\ tok \in Tokens /\ tokens \in Nat /\ llb \in BOOLEAN
    /\ pc \in ParserAt \cup {"accepted", "refused"}
    /\ \A path \in DOMAIN tree : path \in Seq(Keys \cup Nat) /\ tree[path] \in Nodes
    /\ stack \in Seq(DOMAIN tree) /\ defined \in Seq(DOMAIN tree)
    /\ pc \in ParserAt => IsTable(curtab) /\ IsTable(tab)
    /\ key \in Strings
    /\ tpath \in Seq(Keys \cup {"STUCK"}) /\ Len(tpath) <= MaxPath

\* An array's kind says what its items are, all of them: walk_tabpath relies
\* on it when it takes the last item of an array of tables for a table.
KindsTellItems ==
    \A arr \in DOMAIN tree : tree[arr].is = "array" =>
        LET items == {Append(arr, i) : i \in 1 .. tree[arr].nitem}
        IN  /\ items \subseteq DOMAIN tree
            /\ tree[arr].kind # "mixed" => \A item \in items : tree[item].is = tree[arr].kind

\* No table is given twice, by headers or in braces: a header opens a table
\* that an earlier header passed through once at most (toml_table_t's
\* implicit).
DefinedOnce == \A i, j \in 1 .. Len(defined) : defined[i] = defined[j] => i = j

\* What toml_parse promises its callers.
Document == INSTANCE TomlDocument WITH
    doc     <- [path \in DOMAIN tree |-> tree[path].is],
    verdict <- IF pc \in ParserAt THEN "reading" ELSE pc

ImplementsDocument == Document!DocumentSpec

\* No line of the form key = value adds to a table that was written in
\* braces, however it names it (toml_table_t's readonly).  Headers do.
ReadonlyKeeps ==
    [][\A path \in DOMAIN tree' \ DOMAIN tree :
         path # <<>> /\ IsTable(Document!Parent(path)) /\ tree[Document!Parent(path)].readonly => pc = "walk"]_vars

\* Every file comes to a verdict, those that end in the middle of an array
\* and those with a character that begins no token included.
Terminates == <>(pc \notin ParserAt)
=============================================================================
