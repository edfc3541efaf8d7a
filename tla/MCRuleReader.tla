----------------------------- MODULE MCRuleReader -----------------------------
(***************************************************************************)
(* Rule files for TLC: all files of up to MaxRules rules taken from a pool *)
(* with the rules of example_rule/rules.yaml and one rule for each way in  *)
(* which the reading of a rule can end.                                    *)
(***************************************************************************)
EXTENDS RuleReaderInvariant

CONSTANT MaxRules

MCtolower(t) ==
    CASE t = "Drop" -> "drop" [] t = "ALERT" -> "alert"
      [] t = "GeoNetworking" -> "geonetworking" [] t = "BTP" -> "btp"
      [] t = "Circle" -> "circle"
      [] OTHER -> t

Text(t) == [kind |-> "text", text |-> t]
Num(n, t) == [kind |-> "int", text |-> t, int |-> n]
Map(f) == [kind |-> "map", at |-> f]
List == [kind |-> "sequence", at |-> << >>]

Meta == Map([msg |-> Text("m"), sid |-> Num(1, "1"), rev |-> Num(1, "1")])
Base == [action |-> Text("Drop"), protocol |-> Text("GeoNetworking"), meta |-> Meta]
With(f, key, node) == [x \in DOMAIN f \cup {key} |-> IF x = key THEN node ELSE f[x]]
Without(f, key) == [x \in DOMAIN f \ {key} |-> f[x]]
Circle == Map([shape |-> Text("Circle"), distance_a |-> Num(100, "100"), distance_b |-> Num(100, "100")])

NhRule == Map(With(Base, "nh", Text("common")))
MhlRule == Map(With(With(With(Base, "action", Text("ALERT")), "ht", Text("GBC")), "mhl", Num(3, "3")))
RangeRule == Map(With(Base, "allowed_so_range", Circle))
IdsRule == Map(With(With(Base, "protocol", Text("facility")), "allowed_ids", List))
BtpRule == Map(With(Base, "protocol", Text("BTP")))
AreaRule == Map(With(Base, "destination_area",
                Map([destination_a |-> Num(1, "1"), destination_b |-> Num(2, "2")])))

GoodRules == {NhRule, MhlRule, RangeRule, IdsRule, BtpRule, AreaRule}

RangeWith(key, node) == Map(With(Base, "allowed_so_range", Map(With(Circle.at, key, node))))
MetaWith(key, node) == Map(With(Base, "meta", Map(With(Meta.at, key, node))))

BadRules ==
    {Map(With(Base, "action", Text("log"))), Map(Without(Base, "action")),
     Map(With(Base, "action", List)), Map(With(Base, "protocol", Text("ip"))),
     Map(Without(Base, "protocol")), Map(With(Base, "protocol", List)),
     Map(Without(Base, "meta")), Map(With(Base, "meta", Text("m"))),
     Map(With(Base, "meta", Map(Without(Meta.at, "sid")))), MetaWith("rev", List),
     Map(With(Base, "nh", Text("Common"))), Map(With(Base, "ht", Num(3, "3"))),
     Map(With(Base, "allowed_so_range", List)), Map(With(Base, "destination_area", List)),
     RangeWith("shape", Text("Rect")), RangeWith("distance_b", List), List}

ThrowingRules ==
    {MetaWith("rev", Num(70000, "70000")), MetaWith("sid", Text("one")),
     Map(With(Base, "nh", List)), Map(With(Base, "mhl", Text("many"))),
     RangeWith("distance_a", Text("far")), Text("rule")}

Pool == GoodRules \cup BadRules \cup ThrowingRules

MCFiles ==
    {[kind |-> "unreadable", rules |-> << >>], [kind |-> "broken", rules |-> << >>]}
    \cup {[kind |-> "rules", rules |-> rs] : rs \in UNION {[1..n -> Pool] : n \in 0..MaxRules}}
=============================================================================
