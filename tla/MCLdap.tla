------------------------------- MODULE MCLdap -------------------------------
(* A small instance of Ldap for TLC. *)
EXTENDS Ldap

CONSTANTS c1, c2

MCUpper == [A |-> "a", B |-> "b"]
MCBadDn == <<<<"bad", <<>>>>>>

Root == <<<<"dc", <<"r">>>>>>
Other == <<<<"dc", <<"o">>>>>>
Alice == [uid |-> <<"a", "b">>, mail |-> {<<"a", "B", "a", "b">>}, roles |-> {<<"r">>}]
MCPersons == {Alice}
MCRoleNames == {<<"r">>, <<"e">>}

Setting(enabled, base_dn, mode) ==
    [enabled |-> enabled, base_dn |-> base_dn, hash |-> 1, mode |-> mode]
First == {Setting(TRUE, Root, "primary_and_app")}

BindAs(dn, pw) == [op |-> "bind", dn |-> dn, pw |-> pw]
Search(base, scope, filter) == [op |-> "search", base |-> base, scope |-> scope, filter |-> filter]
Op(op) == [op |-> op]

All == [op |-> "present", attr |-> "cn"]
Subs(initial, any, final) ==
    [op |-> "substring", attr |-> "mail", initial |-> initial, any |-> any, final |-> final]
Atoms == {All, [op |-> "present", attr |-> "memberOf"],
          [op |-> "equality", attr |-> "uid", value |-> <<"A", "b">>],
          [op |-> "member", attr |-> "member", value |-> UserDn(<<"A", "B">>, Root)],
          [op |-> "other", attr |-> "uid"],
          Subs(<<"A">>, <<>>, <<"b">>), Subs(<<>>, <<<<"b">>>>, <<"a", "b">>),
          Subs(<<"a", "b">>, <<<<"a">>>>, <<"a", "b">>), Subs(<<>>, <<<<"a">>, <<"a">>>>, <<"b">>),
          Subs(<<>>, <<<<"a", "b">>, <<"b">>>>, <<>>)}
Filters == Atoms \cup {[op |-> "not", of |-> <<a>>] : a \in {All, Subs(<<"A">>, <<>>, <<"b">>)}}
           \cup {[op |-> o, of |-> <<Subs(<<"A">>, <<>>, <<"b">>), All>>] : o \in {"and", "or"}}
SearchBases == {<<>>, MCBadDn, Root, Other, PeopleDn(Root), GroupsDn(Root),
                ServiceDn(Root), UserDn(<<"A", "b">>, Root), GroupDn(<<"r">>, Root),
                <<<<"cn", <<"z">>>>>> \o UserDn(<<"a", "b">>, Root)}
Scopes == {"base", "one", "subtree", "children"}

ServiceBinds(generations) == {BindAs(ServiceDn(Root), <<"service", g>>) : g \in generations}
Subtree == Search(Root, "subtree", [op |-> "not", of |-> <<[op |-> "other", attr |-> "uid"]>>])

Load(conns, messages) ==
    [conns |-> conns, messages |-> messages, budget |-> 2, bytes |-> {}, changes |-> {}, inputs |-> {},
     first |-> First, factors |-> {FALSE}]

Loads ==
    [service |-> [Load({c1}, ServiceBinds({1, 2}) \cup {BindAs(<<>>, <<"none", 0>>), Subtree})
                  EXCEPT !.budget = 3, !.changes = {"settings"},
                         !.inputs = {Setting(FALSE, Root, "app_only"), Setting(TRUE, Root, "app_only"),
                                     Setting(TRUE, Other, "primary_and_app")} \cup First],
     users |-> [Load({c1}, {BindAs(UserDn(Alice.uid, Root), pw) :
                               pw \in {<<"primary", 1>>, <<"primary", 2>>, <<"app", 1>>}}
                           \cup {Subtree})
                EXCEPT !.changes = {"settings", "accounts"},
                       !.inputs = {Setting(TRUE, Root, m) : m \in Modes},
                       !.first = {Setting(TRUE, Root, m) : m \in Modes},
                       !.factors = BOOLEAN],
     rate |-> [Load({c1, c2}, ServiceBinds({2})) EXCEPT !.budget = 6, !.changes = {"process"}],
     search |-> Load({c1}, ServiceBinds({1})
                           \cup {Search(b, s, f) : b \in SearchBases, s \in Scopes, f \in Filters}),
     frames |-> [Load({c1}, {Op("unbind"), Op("extended"), Op("modify"), Op("whoami"), Op("compare"),
                             BindAs(MCBadDn, <<"none", 0>>), BindAs(Other, <<"none", 0>>)})
                 EXCEPT !.bytes = {0, 1, 2, 4, 48, 128, 129}]]

MCWorkloads == [w \in DOMAIN Loads |-> Loads[w]]
=============================================================================
