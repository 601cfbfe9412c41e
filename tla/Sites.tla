------------------------------- MODULE Sites -------------------------------
(* Publishing a directory and reading it: Pack and Parse of SiteBundle,      *)
(* handleUpload and handleUpdate as far as they look into an archive, and    *)
(* the answers of handlePage, pageURL and redirectWithSlash                  *)
(* (server/server.go), for one page.  How the page is stored is in Pages.    *)
(*                                                                           *)
(* A visit is a browser that asks for a path and follows redirects.  Between *)
(* its requests the page may be published anew, as a site or as HTML, and    *)
(* the server may be started again with another limit.                       *)
EXTENDS SiteBundle

CONSTANTS
    Visit,
    Subpath,    \* the paths that visits ask for
    Uploads,    \* archives that other programs send
    Limits,     \* the values of the server's limit to explore
    MaxUpdates  \* bound: changes of the page, and starts of the server

NoPage == [kind |-> "none", files |-> <<>>]
HtmlPage == [kind |-> "html", files |-> <<>>]
Site(a) == [kind |-> "site", files |-> a]

(* What follows the id of the page in a URL, with or without a slash at the  *)
(* end: /id is [segs |-> <<>>, slash |-> FALSE].                             *)
URL == [segs : Subpath, slash : BOOLEAN]

ASSUME SiteAssumption == /\ Limits \subseteq 1 .. Word - 1 /\ MaxUpdates \in Nat
                         /\ Subpath \subseteq Seq(STRING) /\ Uploads \subseteq Seq(Entry)

VARIABLES
    page,    \* the content of the page
    limit,   \* config.MaxPageBytes of the running server
    updates, \* how often the page or the limit was changed
    at,      \* where each visit is
    hops,    \* the redirects it has followed
    result   \* what it has ended with

server == <<page, limit, updates>>
visits == <<at, hops, result>>
vars == <<bundle, server, visits>>

None == [how |-> "none", file |-> <<>>]
Answer(how, file) == [how |-> how, file |-> file]

Init ==
    /\ InitBundle
    /\ page = NoPage /\ limit \in Limits /\ updates = 0
    /\ at \in [Visit -> URL] /\ hops = [v \in Visit |-> 0]
    /\ result = [v \in Visit |-> None]

-----------------------------------------------------------------------------
Change == updates < MaxUpdates /\ updates' = updates + 1

(* An archive is parsed before it is stored, with the limit of this server.  *)
Accepts(a) == Parses(a, limit)

Send == /\ pc = "packed"
        /\ \/ Accepts(archive) /\ page' = Site(archive) /\ pc' = "sent" /\ Change
           \/ ~Accepts(archive) /\ pc' = "refused" /\ UNCHANGED <<page, updates>>
        /\ UNCHANGED <<dir, edits, todo, measured, archive, limit, visits>>

Upload(a) == /\ Accepts(a) /\ page' = Site(a) /\ Change
             /\ UNCHANGED <<bundle, limit, visits>>

PutHtml == /\ page' = HtmlPage /\ Change
           /\ UNCHANGED <<bundle, limit, visits>>

Restart(l) == /\ limit' = l /\ Change
              /\ UNCHANGED <<bundle, page, visits>>

(* pageURL: a site is at /id/, an HTML page at /id.                          *)
PageURL == [segs |-> <<>>, slash |-> page.kind = "site"]

-----------------------------------------------------------------------------
(* handlePage: a site is parsed again for every request; a path names a      *)
(* file, or a directory by its index, and without the slash at the end is    *)
(* sent on to where that index is, so that its relative links lead to what   *)
(* is beside it.                                                             *)
Requested(u) == IF u.slash THEN Append(u.segs, Index) ELSE u.segs

BadNeedsSlash(u, files) == FALSE
NeedsSlash(u, files) == ~u.slash /\ Append(u.segs, Index) \in files

BadRespond(u) ==
    LET files == Names(page.files)
        file == IF Requested(u) \in files THEN Requested(u) ELSE Append(u.segs, Index) IN
    CASE page.kind = "none" -> Answer("notFound", <<>>)
      [] page.kind = "html" -> IF u = PageURL THEN Answer("served", <<>>)
                               ELSE Answer("notFound", <<>>)
      [] OTHER -> IF ~Accepts(page.files) THEN Answer("broken", <<>>)
                  ELSE IF file \in files THEN Answer("served", file)
                  ELSE Answer("notFound", <<>>)

Respond(u) ==
    LET files == Names(page.files) IN
    CASE page.kind = "none" -> Answer("notFound", <<>>)
      [] page.kind = "html" -> IF u.segs = <<>> /\ ~u.slash THEN Answer("served", <<>>)
                               ELSE Answer("notFound", <<>>)
      [] OTHER -> IF u.segs = <<>> /\ ~u.slash THEN Answer("redirect", <<>>)
                  ELSE IF ~Accepts(page.files) THEN Answer("broken", <<>>)
                  ELSE IF Requested(u) \in files THEN Answer("served", Requested(u))
                  ELSE IF NeedsSlash(u, files) THEN Answer("redirect", <<>>)
                  ELSE Answer("notFound", <<>>)

(* redirectWithSlash.                                                        *)
BadOnwards(u) == u
Onwards(u) == [u EXCEPT !.slash = TRUE]

(* The first request of a visit, and each redirect it follows.               *)
Ask(v) ==
    LET a == Respond(at[v]) IN
    /\ result[v] = None
    /\ \/ /\ a.how = "redirect"
          /\ at' = [at EXCEPT ![v] = Onwards(@)]
          /\ hops' = [hops EXCEPT ![v] = @ + 1]
          /\ UNCHANGED result
       \/ /\ a.how # "redirect"
          /\ result' = [result EXCEPT ![v] = a]
          /\ UNCHANGED <<at, hops>>
    /\ UNCHANGED <<bundle, server>>

-----------------------------------------------------------------------------
Publish == Send \/ PutHtml \/ \E a \in Uploads : Upload(a)

Terminating == /\ pc \in {"failed", "blocked", "sent", "refused"} \/ (pc = "packed" /\ updates = MaxUpdates)
               /\ \A v \in Visit : result[v] # None
               /\ UNCHANGED vars

Next == \/ \E p \in OnDisk, f \in Edited : Edit(p, f) /\ UNCHANGED <<server, visits>>
        \/ PackStep /\ UNCHANGED <<server, visits>>
        \/ Publish \/ \E l \in Limits : Restart(l)
        \/ \E v \in Visit : Ask(v)
        \/ Terminating

Spec == Init /\ [][Next]_vars

-----------------------------------------------------------------------------
TypeOK ==
    /\ BundleOK
    /\ page \in {NoPage, HtmlPage} \cup {Site(a) : a \in Uploads \cup {archive}}
    /\ limit \in Limits /\ updates \in Nat
    /\ at \in [Visit -> URL] /\ hops \in [Visit -> Nat]
    /\ result \in [Visit -> [how : {"none", "served", "notFound", "broken"}, file : Seq(STRING)]]

(* A site is stored only within the limit of the server, whatever sizes its  *)
(* entries claim: the unsigned total cannot wrap round.                      *)
StoredFits ==
    [][page'.kind = "site" /\ page' # page
       => BytesOf(page'.files) <= limit /\ Cardinality(Names(page'.files)) = Len(page'.files)]_vars

(* Every file of a site is served at its own path; a directory that has an   *)
(* index is served at its path with a slash, and sent there from its path    *)
(* without one, unless a file of the site has that very path.                *)
At(segs, slash) == [segs |-> segs, slash |-> slash]
EveryFileServed ==
    page.kind = "site" /\ Accepts(page.files) =>
        \A f \in Names(page.files) :
            /\ Respond(At(f, FALSE)) = Answer("served", f)
            /\ Last(f) = Index =>
                  /\ Respond(At(Front(f), TRUE)) = Answer("served", f)
                  /\ Front(f) \notin Names(page.files)
                     => Respond(At(Front(f), FALSE)).how = "redirect"

(* A page that is stored has been accepted once, by a server with some limit. *)
StoredParses ==
    /\ page \in {NoPage, HtmlPage} \cup {Site(a) : a \in Uploads}
       \/ (pc = "sent" /\ page = Site(archive))
    /\ page.kind = "site" => Parses(page.files, Word - 1)

(* Where a redirect has led, the path ends in a slash.                       *)
SlashAfterRedirect == \A v \in Visit : hops[v] = 0 \/ (hops[v] = 1 /\ at[v].slash)

SitesInv == TypeOK /\ BundleInv /\ StoredParses /\ SlashAfterRedirect /\ EveryFileServed

(* What the browser shows as the directory of a served file is its directory *)
(* in the site: relative links lead where they led on disk.                  *)
BaseOf(u) == IF u.slash \/ u.segs = <<>> THEN u.segs ELSE Front(u.segs)
RelativeLinksResolve ==
    \A v \in Visit : result[v].how = "served" /\ result[v].file # <<>>
                     => BaseOf(at[v]) = Front(result[v].file)

(* Whoever asks for the URL that the server gives out for the page as it is  *)
(* gets the page; a site that was accepted is broken only for a server whose *)
(* limit has been lowered below its size.                                    *)
Ends(v) == result[v] = None /\ result'[v] # None
Outgrown == page.kind = "site" /\ limit < BytesOf(page.files)
PublishedIsServed ==
    [][\A v \in Visit : Ends(v) /\ page.kind # "none" /\ at[v] = PageURL
                        => result'[v].how = IF Outgrown THEN "broken" ELSE "served"]_vars

(* A visit follows one redirect at most and so ends, also when sites and     *)
(* HTML take turns under it.                                                 *)
OneRedirect == \A v \in Visit : hops[v] <= 1
=============================================================================
