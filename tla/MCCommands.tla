----------------------------- MODULE MCCommands -----------------------------
(* Two commands at a time, on four paths: HTML without an extension, a log   *)
(* that is written to, standard input and a directory.                       *)
EXTENDS Commands, TLC

CONSTANTS c1, c2, v1, v2, html, text, text2, site, p0, f0

MCSkillFiles == <<"SKILL.md", "agents/openai.yaml">>
MCEdited == {text2, Absent}
MCKind == (html :> "html") @@ (text :> "text") @@ (text2 :> "text") @@ (site :> "site")
MCExtension == ("temp" :> "none") @@ ("a.log" :> "other") @@ ("-" :> "none") @@ ("docs" :> "none")
MCDisks == {("temp" :> t) @@ ("a.log" :> text) @@ ("-" :> text) @@ ("docs" :> site) : t \in {html, text}}
MCInitial == (p0 :> [kind |-> "page", body |-> html]) @@ (f0 :> [kind |-> "file", body |-> text])

A == [op |-> "init", args |-> <<>>, kind |-> "any", id |-> p0, json |-> FALSE, named |-> FALSE,
      force |-> FALSE, env |-> NoKey, version |-> v1]
Init1(force) == [A EXCEPT !.op = "init", !.force = force]
Install(v, force) == [A EXCEPT !.op = "install", !.version = v, !.force = force]
Upload(p) == [A EXCEPT !.op = "upload", !.args = <<p>>]
Files(ps, json) == [A EXCEPT !.op = "files", !.kind = "file", !.args = ps, !.json = json]
Update(k, id, p) == [A EXCEPT !.op = "update", !.kind = k, !.id = id, !.args = <<p>>]
Delete(k, id) == [A EXCEPT !.op = "delete", !.kind = k, !.id = id]

Two(x, y) == (c1 :> x) @@ (c2 :> y)
Start(x, y, k, v) == [call |-> Two(x, y), config |-> k, skill |-> [f \in SkillFile |-> v]]

MCStarts ==
    {Start(Init1(FALSE), Init1(f), k, Absent) : f \in BOOLEAN, k \in {NoKey, OldKey}}
    \cup {Start(Install(v1, f), Install(v2, TRUE), NoKey, v) : f \in BOOLEAN, v \in {Absent, v1}}
    \cup {Start(Init1(TRUE), Files(<<"a.log", "temp">>, json), OldKey, Absent) : json \in BOOLEAN}
    \cup {Start(Upload("temp"), Update("any", id, "temp"), OldKey, Absent) : id \in {p0, f0}}
    \cup {Start(Upload("docs"), Update("file", f0, "docs"), OldKey, Absent)}
    \cup {Start(Delete(k, f0), Update("file", f0, "a.log"), OldKey, Absent) : k \in {"any", "page"}}
    \cup {Start(Delete("any", p0), Update("page", p0, "temp"), OldKey, Absent)}
    \cup {Start(Files(<<"-">>, FALSE), [Update("any", p0, "-") EXCEPT !.env = OldKey], NoKey, Absent)}
    \cup {Start([Files(<<"-">>, FALSE) EXCEPT !.named = TRUE],
                [Update("page", p0, "temp") EXCEPT !.named = TRUE], OldKey, Absent)}
=============================================================================
