-------------------------- MODULE MCCatalogCompiler --------------------------
EXTENDS CatalogCompiler

\* Tokens: 0 is "_", 1 and 2 are in prefixes, 3 and 4 local names, 5 and 6
\* schemes, 7 and 8 paths, 9 to 11 the names of the gateway's own tools.
a == <<1>>
a__b == <<1, 0, 0, 2>>
run == <<3>>
other == <<4>>
b__run == <<2, 0, 0, 3>>

Tool(id, def) == [id |-> id, def |-> def]
Features(tools, resources, templates) ==
    [kind |-> "features",
     features |-> [tools |-> tools, prompts |-> <<>>, resources |-> resources,
                   resourceTemplates |-> templates]]
Plain(kind) == [kind |-> kind, features |-> NoFeatures]

NoOverrides == [f \in Families |-> <<>>]
Server(name, prefix, label, overrides) ==
    [name |-> name, prefix |-> prefix, label |-> label, method |-> "",
     disableTools |-> FALSE, overrides |-> overrides]
Override(item, as, enabled) == [item |-> item, as |-> as, enabled |-> enabled]

\* "first" renames a resource and a template; "second" has a prefix that a
\* tool of "first" continues; "third" has its sanitized name for a prefix.
Renames == [NoOverrides EXCEPT
    !.resources = <<Override(<<5, 7>>, <<6, 7>>, TRUE), Override(<<5, 8>>, <<>>, FALSE)>>,
    !.resourceTemplates = <<Override(<<5>>, <<6>>, TRUE)>>]
Selects == [NoOverrides EXCEPT
    !.tools = <<Override(run, other, TRUE), Override(other, <<>>, FALSE)>>]

First == Server("first", a, <<8>>, Renames)
Second == Server("second", a__b, <<8>>, NoOverrides)
Third == Server("third", <<>>, <<7>>, Selects)

Scoped == [servers |-> <<First, Second, Third>>, scoped |-> TRUE, defer |-> FALSE,
           search |-> FALSE]
Deferring == [servers |-> <<First, Second>>, scoped |-> FALSE, defer |-> TRUE,
              search |-> FALSE]
Alone == [servers |-> <<Third>>, scoped |-> TRUE, defer |-> FALSE, search |-> FALSE]
Nameless == [servers |-> <<First, [Second EXCEPT !.prefix = <<>>, !.label = <<>>]>>,
             scoped |-> TRUE, defer |-> FALSE, search |-> FALSE]
Searching == [servers |-> <<First, Second>>, scoped |-> TRUE, defer |-> FALSE,
              search |-> TRUE]
MCConfigs == {Scoped, Deferring, Alone, Nameless, Searching}

MCAnswers ==
    [first  |-> {Features(<<Tool(b__run, 1), Tool(other, 1)>>, <<Tool(<<5, 7>>, 1)>>, <<Tool(<<5>>, 1)>>),
                 Features(<<Tool(other, 1), Tool(run, 1)>>, <<Tool(<<6, 8>>, 1), Tool(<<5, 8>>, 1), Tool(<<5, 9>>, 1)>>, <<>>),
                 Plain("challenge")},
     second |-> {Features(<<Tool(run, 1)>>, <<Tool(<<5, 7>>, 1)>>, <<>>),
                 Features(<<Tool(other, 2)>>, <<>>, <<Tool(<<5>>, 1)>>),
                 Plain("challenge")},
     third  |-> {Features(<<Tool(run, 1), Tool(other, 1)>>, <<>>, <<>>),
                 Features(<<Nil>>, <<>>, <<>>)}]

MCAuthTool == <<9>>
MCSearchToolName == <<10>>
MCCallToolName == <<11>>
MCNames == {MCCallToolName, a__b \o <<0, 0>> \o run, <<1, 0, 0>> \o other,
            <<7, 0, 0>> \o other}
MCURIs == {<<5, 7>>, <<5, 8>>, <<5, 9>>, <<6, 8>>}
=============================================================================
