------------------------------ MODULE MCConfig ------------------------------
(* Documents of up to three declarations, in all orders and forms, some of *)
(* them misspelt or repeated; a document in the form that is documented,   *)
(* and one with a section.                                                 *)
EXTENDS ConfigFile

Decl(targets, users, values, forms) ==
    [target : targets, user : users, values : values, form : forms]

MCUsers == {"admin", "guest", "visitor"}

MCNumerals == {"10", "25"}

MCGiven == {Default, [Default EXCEPT !.Listen = ":7000", !.Retention = "25"]}

Lists == Decl(DOMAIN ListField, {""}, {{"x"}, {"x", "y"}}, {"pair", "block", "header"})
Grants == Decl({"special-permission"}, {"admin", "guest"}, {{"x", "y"}},
               {"inline user"} \union Opening \union Following)
Settings ==
    Decl({"conf-mode", "config-mode"}, {""}, {{"whitelist"}}, {"pair"})
    \union Decl({"whitelist-enabled"}, {""}, {{"true"}}, {"pair"})
    \union Decl({"retention"}, {""}, {{"25"}, {"soon"}}, {"pair"})
Misspelt == Decl({"cfm-path"}, {""}, {{"x"}}, {"pair", "header", "equals"})

Declarations == Lists \union Grants \union Settings \union Misspelt

MCDocuments ==
    {document \in UNION {[1 .. n -> Declarations] : n \in 1 .. 3} : WellFormed(document)}

(* retention = 25, as in docs/server-docs.md:101-106.                      *)
DocumentedForm == {<<[target |-> "retention", user |-> "", values |-> {"25"}, form |-> "equals"]>>}

(* [blacklist], and an item below it.                                      *)
Sectioned == {<<[target |-> "blacklist", user |-> "", values |-> {"x"}, form |-> "header"]>>}
=============================================================================
