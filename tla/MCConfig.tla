------------------------------ MODULE MCConfig ------------------------------
EXTENDS Config

Usual == [path \in Paths |->
            CASE path \in Sections -> "mapping"
              [] path \in {RulesDir, PolicyFile} -> "string"
              [] path = Enabled -> "true"
              [] OTHER -> Absent]

\* Every file that differs from the usual one at up to one, or two, of the paths.
OneOdd(paths) == {[Usual EXCEPT ![p] = k] : p \in paths, k \in Kinds \cup {Absent}}
TwoOdd(paths) ==
    {[Usual EXCEPT ![p] = k, ![q] = l] : p, q \in paths, k, l \in Kinds \cup {Absent}}

GoodPack == [form |-> "rules", rules |-> <<[id |-> "a", fault |-> "none"]>>]
MCPacks ==
    [form : {"undecodable", "unparsable", "not a mapping"}, rules : {<<>>}]
        \cup [form : {"rules"}, rules : {<<>>} \cup {<<r>> : r \in [id : {"a", "b"}, fault : Faults]}]
MCRules ==
    [form : {"directory"},
     packs : {<<>>} \cup {<<p>> : p \in MCPacks} \cup {<<p, q>> : p, q \in MCPacks}]
        \cup [form : {"file"}, packs : {<<p>> : p \in MCPacks}]
        \cup [form : {"missing"}, packs : {<<>>}]
GoodRules == [form |-> "directory", packs |-> <<GoodPack>>]

MCInputs ==
    [form : {"parsed"}, top : {"mapping"}, values : TwoOdd(Paths), extra : {"none"},
     rules : {GoodRules}, policy : {"good"}]
      \cup
    [form : {"parsed"}, top : {"mapping"}, values : OneOdd({Enabled, RulesDir}), extra : {"unknown"},
     rules : MCRules, policy : {"missing", "odd", "good"}]
      \cup
    [form : {"missing", "directory", "undecodable", "unparsable", "parsed"}, top : Kinds,
     values : {Usual}, extra : {"none", "inert"}, rules : {GoodRules}, policy : {"good"}]
=============================================================================
