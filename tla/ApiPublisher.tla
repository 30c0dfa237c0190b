---------------------------- MODULE ApiPublisher ----------------------------
(***************************************************************************)
(* Publishing APIs and trying them: the section of the web application     *)
(* (apps/web/components/fabric/apis-section.tsx), its requests             *)
(* (apps/web/lib/api.ts), and the gateway's answers                        *)
(* (apps/gateway/src/fabric/routes.ts, store.ts).                          *)
(*                                                                         *)
(* Nobody waits: lists are reloaded while rows are published by others,    *)
(* "Back" leaves a form or a test whose request is still under way, any    *)
(* request may fail.  A row never changes and is never removed, so a list  *)
(* is known by its length and a row by its place, oldest first; what the   *)
(* wallet and the search hide is still among what may be opened.  Of a row *)
(* only its name and its slug matter, the target being its own.            *)
(*                                                                         *)
(* A string is a stem and a spelling: <<"rates", "slug">> is a slug,       *)
(* "Title" a name with capitals and spaces, "lower" the same without the   *)
(* capitals, "Slug" a slug with capitals, and "signs" has nothing slugify  *)
(* keeps.                                                                  *)
(***************************************************************************)
EXTENDS Naturals, Sequences, FiniteSetsExt

CONSTANTS
    RowNames,    \* the names APIs are given
    TypedSlugs,  \* what is typed as their slug, Blank if nothing
    MaxRows,     \* bound: APIs published
    MaxForms     \* bound: forms and tests opened

VARIABLES
    rows,       \* the gateway's APIs
    apisShown,  \* how many of them the page lists,
    apiLoads,   \* and its requests for the list
    view,       \* what the page shows: "list", "form" or "detail"
    opened,     \* the row of the detail
    instance,   \* which of the forms and tests opened so far this is
    posts,      \* requests of forms
    calls,      \* requests of tests
    answered    \* history: which row's test was answered by what

pubVars == <<rows, apisShown, apiLoads, view, opened, instance, posts, calls, answered>>

Blank == <<>>
Slug(name) == IF name[2] = "signs" THEN Blank ELSE <<name[1], "slug">>
LowerCase(text) ==
    CASE text = Blank -> Blank
      [] text[2] = "Title" -> <<text[1], "lower">>
      [] text[2] = "Slug" -> <<text[1], "slug">>
      [] OTHER -> text

(* What stands for a row or a list when there is none.                     *)
NoRow == 0
Asked == MaxRows + 1
Skill == MaxRows + 1

PublisherInit ==
    /\ rows = <<>>
    /\ apisShown = 0
    /\ apiLoads = {Asked}
    /\ view = "list"
    /\ opened = NoRow
    /\ instance = 0
    /\ posts = {}
    /\ calls = {}
    /\ answered = {}

-----------------------------------------------------------------------------
(* The gateway.  getApi looks for a slug, an id or a name, newest first    *)
(* (the faulty variant before it: oldest first).                           *)
Bears(row, key) == LowerCase(key) \in {row.slug, LowerCase(row.name)}
GetApiOldest(key) == LET found == {i \in DOMAIN rows : Bears(rows[i], key)}
                     IN IF found = {} THEN NoRow ELSE Min(found)
GetApi(key) == LET found == {i \in DOMAIN rows : Bears(rows[i], key)}
               IN IF found = {} THEN NoRow ELSE Max(found)

(* createApi: a body without a slug has one made of its name, an empty     *)
(* slug is a slug.                                                         *)
CreateApi(body) ==
    /\ Len(rows) < MaxRows
    /\ rows' = Append(rows, [name |-> body.name,
                             slug |-> IF "slug" \in DOMAIN body THEN body.slug
                                                                 ELSE Slug(body.name)])

(* Published by somebody else, with or without a slug.                     *)
OtherPublishes ==
    /\ \E name \in RowNames :
         \/ CreateApi([name |-> name])
         \/ \E slug \in TypedSlugs : CreateApi([name |-> name, slug |-> slug])
    /\ UNCHANGED <<apisShown, apiLoads, view, opened, instance, posts, calls, answered>>

ListApis ==
    /\ Asked \in apiLoads
    /\ apiLoads' = (apiLoads \ {Asked}) \cup {Len(rows)}
    /\ UNCHANGED <<rows, apisShown, view, opened, instance, posts, calls, answered>>

(* An empty slug is refused; a key nothing bears is taken for a skill's.   *)
RunApi ==
    \E c \in calls :
        /\ c.state = "sent"
        /\ LET key == rows[c.row].slug
               to == IF key = Blank THEN NoRow
                     ELSE IF GetApi(key) = NoRow THEN Skill ELSE GetApi(key)
           IN answered' = answered \cup {[row |-> c.row, by |-> to]}
        /\ calls' = (calls \ {c}) \cup {[c EXCEPT !.state = "answered"]}
        /\ UNCHANGED <<rows, apisShown, apiLoads, view, opened, instance, posts>>

-----------------------------------------------------------------------------
(* The list.  Lists are shown as they arrive, in whatever order; one that  *)
(* fails is shown as none.                                                 *)
ListArrives ==
    \E n \in apiLoads, lost \in BOOLEAN :
        /\ n = Asked => lost
        /\ apisShown' = IF lost THEN 0 ELSE n
        /\ apiLoads' = apiLoads \ {n}
        /\ UNCHANGED <<rows, view, opened, instance, posts, calls, answered>>

Show(what, row) ==
    /\ view' = what
    /\ opened' = row
    /\ instance' = IF what = "list" THEN instance ELSE instance + 1
    /\ UNCHANGED <<rows, apisShown, apiLoads, posts, calls, answered>>

OpenRow ==
    /\ view = "list" /\ instance < MaxForms
    /\ \E row \in 1 .. apisShown : Show("detail", row)

OpenApiForm == view = "list" /\ instance < MaxForms /\ Show("form", NoRow)

(* "Back" and "Cancel" are there while a request is under way, too.        *)
BackToApis == view # "list" /\ Show("list", NoRow)

-----------------------------------------------------------------------------
(* The form, which sends all its fields, the empty ones too.               *)
FormBusy == \E q \in posts : q.form = instance
Filled == [name : RowNames, slug : TypedSlugs]

SubmitApi ==
    /\ view = "form" /\ ~FormBusy
    /\ \E body \in Filled :
         posts' = posts \cup {[form |-> instance, state |-> "sent", body |-> body]}
    /\ UNCHANGED <<rows, apisShown, apiLoads, view, opened, instance, calls, answered>>

PostApi ==
    \E q \in posts :
        /\ q.state = "sent"
        /\ CreateApi(q.body)
        /\ posts' = (posts \ {q}) \cup {[q EXCEPT !.state = "answered"]}
        /\ UNCHANGED <<apisShown, apiLoads, view, opened, instance, calls, answered>>

(* onDone closes the form that is open then, whichever sent the request.   *)
SubmitDone ==
    \E q \in posts :
        /\ q.state = "answered"
        /\ posts' = posts \ {q}
        /\ view' = IF view = "form" THEN "list" ELSE view
        /\ apiLoads' = apiLoads \cup {Asked}
        /\ UNCHANGED <<rows, apisShown, opened, instance, calls, answered>>

SubmitFails ==
    \E q \in posts :
        /\ posts' = posts \ {q}
        /\ UNCHANGED <<rows, apisShown, apiLoads, view, opened, instance, calls, answered>>

-----------------------------------------------------------------------------
(* The test of the row shown, by the slug the list gave it.                *)
SendTest ==
    /\ view = "detail"
    /\ ~\E c \in calls : c.test = instance
    /\ calls' = calls \cup {[test |-> instance, state |-> "sent", row |-> opened]}
    /\ UNCHANGED <<rows, apisShown, apiLoads, view, opened, instance, posts, answered>>

TestEnds ==
    \E c \in calls :
        /\ calls' = calls \ {c}
        /\ UNCHANGED <<rows, apisShown, apiLoads, view, opened, instance, posts, answered>>

PublisherNext ==
    \/ OtherPublishes \/ ListApis \/ RunApi
    \/ ListArrives \/ OpenRow \/ OpenApiForm \/ BackToApis
    \/ SubmitApi \/ PostApi \/ SubmitDone \/ SubmitFails
    \/ SendTest \/ TestEnds

PublisherSpec == PublisherInit /\ [][PublisherNext]_pubVars

-----------------------------------------------------------------------------
(* The test of a row whose slug is written as slugify writes slugs reaches *)
(* an API, however old the page's list is and whatever was published while *)
(* the call was under way: this row's target, or that of a newer namesake. *)
TestsReachNamesakes ==
    \A c \in answered :
        LET slug == rows[c.row].slug
        IN slug # Blank /\ slug = LowerCase(slug) =>
             c.by \in c.row .. Len(rows) /\ Bears(rows[c.by], slug)
=============================================================================
