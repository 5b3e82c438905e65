------------------------------ MODULE OpsProofs ------------------------------
(***************************************************************************)
(* Proofs about Ops, for every value of its constants: the files and links *)
(* of web sites are those of their rows; what a request reported as done   *)
(* is what nginx and Docker work by; what is shown as installed is whole;  *)
(* alerts are raised, but not repeated; no container is touched that was   *)
(* found to be the database module's, and no request on files leaves the   *)
(* base path. Each part has its inductive invariant, with lemmas for what  *)
(* its operations do, one per action, one for the steps of the other parts *)
(* and one for what it implies. The last section puts them together.       *)
(***************************************************************************)
EXTENDS Ops, FiniteSetTheorems, SequenceTheorems, WellFoundedInduction, TLAPS

-----------------------------------------------------------------------------
(* Web sites. Beside the types: sites have different domains; what a row is *)
(* proxied to fits its type; no file proxies to nowhere; nginx serves       *)
(* nothing while it is stopped, and the panel knows that it runs; and while *)
(* nothing failed, the files and the links are those of the rows.           *)
SiteRow == [domain : Domains, port : Nat, type : Web!Types, app : Nat, pass : Nat,
            custom : Web!Custom, ssl : BOOLEAN, status : {"active", "disabled"}]
SiteFile == [tpl : Web!Custom \cup {"static", "php", "proxy"}, pass : Nat, ssl : BOOLEAN, icon : BOOLEAN]
SiteServerSet == [status : {"not_installed", "stopped", "running"}, installed : BOOLEAN, active : BOOLEAN]
SiteFileOK(c) == c.tpl = "proxy" => c.pass # 0
SitePassOK(r) == /\ r.type \in {"nodejs", "python", "java"} => r.pass # 0
                 /\ r.type \in {"static", "php"} => r.pass = 0
SiteDomains(s) == {s[i].domain : i \in DOMAIN s}
SiteActive(s) == {s[i].domain : i \in {j \in DOMAIN s : s[j].status = "active"}}

(* The same of a world: before nginx is told of it, and after.              *)
SiteIsWorld(w) == w = [sites |-> w.sites, files |-> w.files, links |-> w.links,
                       served |-> w.served, rejected |-> w.rejected]
SiteWorldOK(w) == /\ SiteIsWorld(w)
                  /\ w.sites \in [DOMAIN w.sites -> SiteRow]
                  /\ w.files \in [DOMAIN w.files -> SiteFile]
                  /\ DOMAIN w.files \cup w.links \cup w.served \subseteq Domains
SiteDistinct(s) == \A i, j \in DOMAIN s : s[i].domain = s[j].domain => i = j
SiteRowsOK(s) == SiteDistinct(s) /\ \A i \in DOMAIN s : SitePassOK(s[i])
SiteFilesOK(f) == \A d \in DOMAIN f : SiteFileOK(f[d])
SiteTidy(w) == w.links = SiteActive(w.sites) /\ DOMAIN w.files = SiteDomains(w.sites)
SiteCalm(w) ==
    ~w.rejected => \A i \in DOMAIN w.sites :
                       w.sites[i].status = "disabled" => w.sites[i].domain \notin w.served
SiteBase(w, n) ==
    /\ SiteWorldOK(w) /\ SiteRowsOK(w.sites) /\ SiteFilesOK(w.files)
    /\ ~server.active => w.served = {}
    /\ n = 0 => SiteTidy(w)
SiteGood(w, n) == SiteBase(w, n) /\ (n = 0 => SiteCalm(w))

SiteTypes == /\ DOMAIN sites \subseteq 1..siteLastId /\ siteFaults \in Nat
             /\ siteLastId \in 0..SiteMaxId
             /\ server \in SiteServerSet
SiteServer == /\ server.active => server.installed
              /\ siteFaults = 0 /\ server.active => server.status = "running"
SiteInv == SiteTypes /\ SiteServer /\ SiteGood(Web!World, siteFaults)

(* The requests are well-typed.                                             *)
LEMMA SiteNumbers ==
    /\ SiteMaxId \in Nat
    /\ \A r \in Reqs : r \in [domain : Domains, port : Nat, type : Web!Types, app : Nat,
                              custom : Web!Custom]
    /\ \A e \in Edits :
         /\ DOMAIN e \subseteq {"domain", "port", "type", "app", "custom"}
         /\ "domain" \in DOMAIN e => e.domain \in Domains
         /\ "port" \in DOMAIN e => e.port \in Nat
         /\ "type" \in DOMAIN e => e.type \in Web!Types
         /\ "app" \in DOMAIN e => e.app \in Nat
         /\ "custom" \in DOMAIN e => e.custom \in Web!Custom
BY SiteAssumption DEF Web!SiteBounds

(* Cardinality of the component is that of the library.                     *)
LEMMA SiteSets ==
    ASSUME NEW S, IsFiniteSet(S)
    PROVE  Web!Cardinality(S) = 0 <=> S = {}
<1>1. Web!Cardinality(S) = Cardinality(S)
    BY DEF Web!Cardinality, Cardinality
<1> QED
    BY <1>1, FS_EmptySet

(* The world is the present state.                                          *)
LEMMA SiteNow ==
    /\ SiteIsWorld(Web!World) /\ Web!World.sites = sites /\ Web!World.files = files
    /\ Web!World.links = links /\ Web!World.served = siteServed /\ Web!World.rejected = rejected
BY DEF Web!World, SiteIsWorld

(* The invariant holds at the start.                                        *)
LEMMA SiteInit == Init => SiteInv
<1> SUFFICES ASSUME Init PROVE SiteInv
    OBVIOUS
<1>1. /\ server = [status |-> "not_installed", installed |-> FALSE, active |-> FALSE]
      /\ sites = <<>> /\ siteLastId = 0 /\ files = <<>> /\ links = {} /\ siteServed = {}
      /\ rejected = FALSE /\ siteFaults = 0
    BY DEF Init, Web!Init
<1>2. DOMAIN sites = {} /\ DOMAIN files = {}
    BY <1>1
<1>3. sites \in [DOMAIN sites -> SiteRow] /\ files \in [DOMAIN files -> SiteFile]
    BY <1>1, <1>2
<1>4. SiteWorldOK(Web!World)
    BY <1>1, <1>2, <1>3, SiteNow DEF SiteWorldOK
<1>5. SiteRowsOK(sites) /\ SiteFilesOK(files)
    BY <1>2 DEF SiteRowsOK, SiteDistinct, SiteFilesOK
<1>6. SiteActive(sites) = {} /\ SiteDomains(sites) = {}
    BY <1>2 DEF SiteActive, SiteDomains
<1>7. SiteTidy(Web!World) /\ SiteCalm(Web!World)
    BY <1>1, <1>2, <1>6, SiteNow DEF SiteTidy, SiteCalm
<1>8. SiteGood(Web!World, siteFaults)
    BY <1>1, <1>4, <1>5, <1>7, SiteNow DEF SiteGood, SiteBase
<1>9. server \in SiteServerSet /\ ~server.active
    BY <1>1 DEF SiteServerSet
<1> QED
    BY <1>1, <1>2, <1>8, <1>9, SiteNumbers DEF SiteInv, SiteTypes, SiteServer

(* A failing step is counted.                                               *)
LEMMA SiteCharge ==
    ASSUME SiteTypes, NEW at, Web!Charge(at)
    PROVE  siteFaults' \in Nat /\ (siteFaults' = 0 => siteFaults = 0 /\ at = "none")
BY DEF SiteTypes, Web!Charge

(* The rows' domains when a row is added, goes, or becomes another one.     *)
SiteRowAdded(t, s, id, row) ==
    /\ DOMAIN t = DOMAIN s \cup {id} /\ t[id] = row /\ \A i \in DOMAIN s : t[i] = s[i]
    /\ SiteDomains(t) = SiteDomains(s) \cup {row.domain}
    /\ SiteActive(t) = SiteActive(s) \cup {row.domain}

(* A row is added.                                                          *)
LEMMA SiteAdded ==
    ASSUME NEW s, NEW id, id \notin DOMAIN s, NEW row, row.status = "active"
    PROVE  SiteRowAdded(Web!With(s, id, row), s, id, row)
<1> DEFINE t == Web!With(s, id, row)
<1>1. DOMAIN t = DOMAIN s \cup {id} /\ t[id] = row /\ \A i \in DOMAIN s : t[i] = s[i]
    BY DEF Web!With
<1> HIDE DEF t
<1>2. SiteDomains(t) = SiteDomains(s) \cup {row.domain} /\ SiteActive(t) = SiteActive(s) \cup {row.domain}
    BY <1>1 DEF SiteDomains, SiteActive
<1>3. SiteRowAdded(t, s, id, row)
    BY <1>1, <1>2 DEF SiteRowAdded
<1> QED
    BY <1>3 DEF t

(* A row goes.                                                              *)
LEMMA SiteGone ==
    ASSUME NEW s, SiteDistinct(s), NEW id \in DOMAIN s, NEW t, t = Web!Without(s, id)
    PROVE  /\ DOMAIN t = DOMAIN s \ {id} /\ \A i \in DOMAIN t : t[i] = s[i]
           /\ SiteDomains(t) = SiteDomains(s) \ {s[id].domain}
           /\ SiteActive(t) = SiteActive(s) \ {s[id].domain}
<1>1. DOMAIN t = DOMAIN s \ {id} /\ \A i \in DOMAIN t : t[i] = s[i]
    BY DEF Web!Without
<1> QED
    BY <1>1 DEF SiteDomains, SiteActive, SiteDistinct

(* A row becomes another one.                                               *)
LEMMA SiteChanged ==
    ASSUME NEW s, SiteDistinct(s), NEW id \in DOMAIN s, NEW row, NEW t, DOMAIN t = DOMAIN s,
           t[id] = row, \A i \in DOMAIN s : i # id => t[i] = s[i]
    PROVE  /\ SiteDomains(t) = (SiteDomains(s) \ {s[id].domain}) \cup {row.domain}
           /\ SiteActive(t) = (SiteActive(s) \ {s[id].domain})
                                \cup (IF row.status = "active" THEN {row.domain} ELSE {})
<1>1. SiteDomains(t) = (SiteDomains(s) \ {s[id].domain}) \cup {row.domain}
    BY DEF SiteDomains, SiteDistinct
<1>2. ASSUME NEW d
      PROVE  d \in SiteActive(t) <=> \/ d \in SiteActive(s) /\ d # s[id].domain
                                     \/ row.status = "active" /\ d = row.domain
  <2>1. ASSUME d \in SiteActive(t)
        PROVE  \/ d \in SiteActive(s) /\ d # s[id].domain
               \/ row.status = "active" /\ d = row.domain
    <3>1. PICK i \in DOMAIN t : t[i].status = "active" /\ t[i].domain = d
        BY <2>1 DEF SiteActive
    <3>2. CASE i = id
        BY <3>1, <3>2
    <3>3. CASE i # id
        BY <3>1, <3>3 DEF SiteActive, SiteDistinct
    <3> QED
        BY <3>2, <3>3
  <2>2. ASSUME d \in SiteActive(s), d # s[id].domain PROVE d \in SiteActive(t)
    BY <2>2 DEF SiteActive
  <2>3. ASSUME row.status = "active", d = row.domain PROVE d \in SiteActive(t)
    BY <2>3 DEF SiteActive
  <2> QED
    BY <2>1, <2>2, <2>3
<1>3. \A d : d \in SiteActive(t) <=>
               d \in (SiteActive(s) \ {s[id].domain})
                       \cup (IF row.status = "active" THEN {row.domain} ELSE {})
    BY <1>2
<1> QED
    BY <1>1, <1>3

(* A row's proxy settings.                                                  *)
LEMMA SiteRecalc ==
    ASSUME NEW row \in SiteRow, NEW new, new = Web!recalcProxyDefaults(row)
    PROVE  /\ new \in SiteRow /\ SitePassOK(new) /\ new.domain = row.domain
           /\ new.status = row.status
<1> DEFINE app == Web!AppOf(row.type, row.app)
           pass == CASE row.type \in {"static", "php"} -> 0
                     [] row.type = "proxy" -> IF row.pass = 0 THEN row.app ELSE row.pass
                     [] OTHER -> app
<1>1. row.type \in Web!Types /\ row.app \in Nat /\ row.pass \in Nat
    BY DEF SiteRow
<1>2. app \in Nat /\ (row.type \in {"nodejs", "python", "java"} => app # 0)
    BY <1>1 DEF Web!AppOf, Web!DefaultApp, Web!Types
<1> HIDE DEF app
<1>3. /\ pass \in Nat /\ (row.type \in {"static", "php"} => pass = 0)
      /\ row.type \in {"nodejs", "python", "java"} => pass # 0
    BY <1>1, <1>2 DEF Web!Types
<1>4. new = [row EXCEPT !.app = app, !.pass = pass]
    BY DEF Web!recalcProxyDefaults, app
<1> HIDE DEF pass
<1>5. /\ new \in SiteRow /\ new.type = row.type /\ new.pass = pass /\ new.domain = row.domain
      /\ new.status = row.status
    BY <1>2, <1>3, <1>4 DEF SiteRow
<1> QED
    BY <1>3, <1>5 DEF SitePassOK

(* The row of a new site fits its type.                                     *)
LEMMA SiteNew ==
    ASSUME NEW req \in Reqs, NEW new, new = Web!NewSite(req)
    PROVE  new \in SiteRow /\ SitePassOK(new) /\ new.domain = req.domain /\ new.status = "active"
<1> DEFINE row == [domain |-> req.domain, port |-> IF req.port = 0 THEN 80 ELSE req.port,
                   type |-> req.type, app |-> req.app, pass |-> 0, custom |-> req.custom,
                   ssl |-> FALSE, status |-> "active"]
<1>1. row \in SiteRow
    BY SiteNumbers DEF SiteRow
<1>2. new = Web!recalcProxyDefaults(row)
    BY DEF Web!NewSite
<1>3. row.domain = req.domain /\ row.status = "active"
    OBVIOUS
<1> HIDE DEF row
<1> QED
    BY <1>1, <1>2, <1>3, SiteRecalc

(* The file of a row.                                                       *)
LEMMA SiteRendered ==
    ASSUME NEW row \in SiteRow
    PROVE  Web!Rendered(row) \in SiteFile /\ SiteFileOK(Web!Rendered(row))
<1> DEFINE icon == Web!nginxFaviconBlock(row.domain)
           ofUser == [tpl |-> row.custom, pass |-> 0, ssl |-> FALSE, icon |-> FALSE]
           static == [tpl |-> "static", pass |-> 0, ssl |-> row.ssl, icon |-> icon]
           php == [tpl |-> "php", pass |-> 0, ssl |-> FALSE, icon |-> icon]
           proxy == [tpl |-> "proxy", pass |-> row.pass, ssl |-> row.ssl, icon |-> icon]
<1>1. /\ row.custom \in Web!Custom /\ row.custom # "proxy" /\ row.pass \in Nat /\ row.ssl \in BOOLEAN
      /\ icon \in BOOLEAN
    BY DEF SiteRow, Web!Custom, Web!nginxFaviconBlock
<1>2. /\ Web!nginxStaticTemplate(row) = static /\ Web!nginxPHPTemplate(row) = php
      /\ Web!nginxProxyTemplate(row) = IF row.pass = 0 THEN static ELSE proxy
    BY DEF Web!nginxPHPTemplate, Web!nginxStaticTemplate, Web!nginxProxyTemplate,
       Web!nginxSSLConfig
<1> HIDE DEF icon
<1>3. /\ ofUser \in SiteFile /\ ofUser.tpl # "proxy" /\ static \in SiteFile /\ static.tpl # "proxy"
      /\ php \in SiteFile /\ php.tpl # "proxy" /\ proxy \in SiteFile /\ proxy.pass = row.pass
  <2>1. ofUser \in SiteFile /\ ofUser.tpl # "proxy"
    BY <1>1 DEF SiteFile
  <2>2. static \in SiteFile /\ static.tpl # "proxy"
    BY <1>1 DEF SiteFile
  <2>3. php \in SiteFile /\ php.tpl # "proxy"
    BY <1>1 DEF SiteFile
  <2>4. proxy \in SiteFile /\ proxy.pass = row.pass
    BY <1>1 DEF SiteFile
  <2> QED
    BY <2>1, <2>2, <2>3, <2>4
<1> HIDE DEF ofUser, static, php, proxy
<1>4. \/ Web!Rendered(row) \in {ofUser, static, php}
      \/ Web!Rendered(row) = proxy /\ row.pass # 0
    BY <1>2 DEF Web!Rendered, ofUser
<1> QED
    BY <1>3, <1>4 DEF SiteFileOK

(* What a request makes of the row: the fields that it sets.                *)
LEMMA SiteEdited ==
    ASSUME NEW old \in SiteRow, NEW edit \in Edits, NEW new,
           new = [f \in DOMAIN old |-> IF f \in DOMAIN edit THEN edit[f] ELSE old[f]]
    PROVE  /\ new \in SiteRow /\ new.pass = old.pass /\ new.status = old.status
           /\ new.domain = IF "domain" \in DOMAIN edit THEN edit.domain ELSE old.domain
<1> DEFINE Fields == {"domain", "port", "type", "app", "pass", "custom", "ssl", "status"}
<1>1. DOMAIN old = Fields
    BY DEF SiteRow
<1>2. /\ old.domain \in Domains /\ old.port \in Nat /\ old.type \in Web!Types /\ old.app \in Nat
      /\ old.pass \in Nat /\ old.custom \in Web!Custom /\ old.ssl \in BOOLEAN
      /\ old.status \in {"active", "disabled"}
    BY DEF SiteRow
<1>3. /\ DOMAIN edit \subseteq {"domain", "port", "type", "app", "custom"}
      /\ "domain" \in DOMAIN edit => edit.domain \in Domains
      /\ "port" \in DOMAIN edit => edit.port \in Nat
      /\ "type" \in DOMAIN edit => edit.type \in Web!Types
      /\ "app" \in DOMAIN edit => edit.app \in Nat
      /\ "custom" \in DOMAIN edit => edit.custom \in Web!Custom
    BY SiteNumbers
<1>4. DOMAIN new = Fields /\ \A f \in Fields : new[f] = IF f \in DOMAIN edit THEN edit[f] ELSE old[f]
    BY <1>1
<1>5. /\ new.domain \in Domains /\ new.port \in Nat /\ new.type \in Web!Types /\ new.app \in Nat
      /\ new.custom \in Web!Custom
    BY <1>2, <1>3, <1>4
<1>6. /\ new.pass = old.pass /\ new.ssl = old.ssl /\ new.status = old.status
      /\ new.domain = IF "domain" \in DOMAIN edit THEN edit.domain ELSE old.domain
    BY <1>3, <1>4
<1>7. new = [domain |-> new.domain, port |-> new.port, type |-> new.type, app |-> new.app,
             pass |-> new.pass, custom |-> new.custom, ssl |-> new.ssl, status |-> new.status]
    BY <1>4
<1>8. new \in SiteRow
    BY <1>2, <1>5, <1>6, <1>7 DEF SiteRow
<1> QED
    BY <1>6, <1>8

(* A row is about a site of the panel.                                      *)
LEMMA SiteNamed == ASSUME NEW row \in SiteRow PROVE row.domain \in Domains
BY DEF SiteRow

(* What the operations do to a world.                                       *)
LEMMA SiteWritten ==
    ASSUME NEW w, SiteWorldOK(w), SiteFilesOK(w.files), NEW row \in SiteRow,
           NEW u, u = Web!writeConfigForServer(w, row)
    PROVE  /\ SiteWorldOK(u) /\ u.sites = w.sites /\ u.links = w.links /\ u.served = w.served
           /\ u.rejected = w.rejected /\ SiteFilesOK(u.files)
           /\ DOMAIN u.files = DOMAIN w.files \cup {row.domain}
<1> DEFINE c == Web!Rendered(row)
           f == Web!With(w.files, row.domain, c)
<1>1. w = [sites |-> w.sites, files |-> w.files, links |-> w.links, served |-> w.served,
           rejected |-> w.rejected]
    BY DEF SiteWorldOK, SiteIsWorld
<1>2. u = [sites |-> w.sites, files |-> f, links |-> w.links, served |-> w.served,
           rejected |-> w.rejected]
    BY <1>1 DEF Web!writeConfigForServer
<1>3. c \in SiteFile /\ SiteFileOK(c)
    BY SiteRendered
<1> HIDE DEF c
<1>4. /\ DOMAIN f = DOMAIN w.files \cup {row.domain} /\ SiteFilesOK(f)
      /\ f \in [DOMAIN f -> SiteFile]
    BY <1>3 DEF Web!With, SiteFilesOK, SiteWorldOK
<1> HIDE DEF f
<1>5. /\ SiteIsWorld(u) /\ u.sites = w.sites /\ u.files = f /\ u.links = w.links
      /\ u.served = w.served /\ u.rejected = w.rejected
    BY <1>2 DEF SiteIsWorld
<1> QED
    BY <1>4, <1>5, SiteNamed DEF SiteWorldOK

(* A link is made or removed.                                               *)
LEMMA SiteLinked ==
    ASSUME NEW w, SiteWorldOK(w), NEW d, NEW u
    PROVE  /\ u = Web!Linked(w, d) /\ d \in Domains =>
                /\ SiteWorldOK(u) /\ u.sites = w.sites /\ u.files = w.files
                /\ u.served = w.served /\ u.rejected = w.rejected /\ u.links = w.links \cup {d}
           /\ u = Web!Unlinked(w, d) =>
                /\ SiteWorldOK(u) /\ u.sites = w.sites /\ u.files = w.files
                /\ u.served = w.served /\ u.rejected = w.rejected /\ u.links = w.links \ {d}
<1>1. w = [sites |-> w.sites, files |-> w.files, links |-> w.links, served |-> w.served,
           rejected |-> w.rejected]
    BY DEF SiteWorldOK, SiteIsWorld
<1>2. Web!Linked(w, d) = [sites |-> w.sites, files |-> w.files, links |-> w.links \cup {d},
                          served |-> w.served, rejected |-> w.rejected]
    BY <1>1 DEF Web!Linked
<1>3. Web!Unlinked(w, d) = [sites |-> w.sites, files |-> w.files, links |-> w.links \ {d},
                            served |-> w.served, rejected |-> w.rejected]
    BY <1>1 DEF Web!Unlinked
<1>4. ASSUME d \in Domains, u = Web!Linked(w, d)
      PROVE  /\ SiteWorldOK(u) /\ u.sites = w.sites /\ u.files = w.files
             /\ u.served = w.served /\ u.rejected = w.rejected /\ u.links = w.links \cup {d}
  <2>1. /\ SiteIsWorld(u) /\ u.sites = w.sites /\ u.files = w.files
        /\ u.served = w.served /\ u.rejected = w.rejected /\ u.links = w.links \cup {d}
      BY <1>2, <1>4 DEF SiteIsWorld
  <2> QED
      BY <1>4, <2>1 DEF SiteWorldOK
<1>5. ASSUME u = Web!Unlinked(w, d)
      PROVE  /\ SiteWorldOK(u) /\ u.sites = w.sites /\ u.files = w.files
             /\ u.served = w.served /\ u.rejected = w.rejected /\ u.links = w.links \ {d}
  <2>1. /\ SiteIsWorld(u) /\ u.sites = w.sites /\ u.files = w.files
        /\ u.served = w.served /\ u.rejected = w.rejected /\ u.links = w.links \ {d}
      BY <1>3, <1>5 DEF SiteIsWorld
  <2> QED
      BY <2>1 DEF SiteWorldOK
<1> QED
    BY <1>4, <1>5

(* The file and the link of a domain go.                                    *)
LEMMA SiteRemoved ==
    ASSUME NEW w, SiteWorldOK(w), SiteFilesOK(w.files), NEW d,
           NEW u, u = Web!removeConfigForServer(w, d)
    PROVE  /\ SiteWorldOK(u) /\ u.sites = w.sites /\ u.served = w.served
           /\ u.rejected = w.rejected /\ u.links = w.links \ {d} /\ SiteFilesOK(u.files)
           /\ DOMAIN u.files = DOMAIN w.files \ {d}
<1> DEFINE v == Web!Unlinked(w, d)
           f == Web!Without(v.files, d)
<1>1. /\ SiteWorldOK(v) /\ v.sites = w.sites /\ v.files = w.files
      /\ v.served = w.served /\ v.rejected = w.rejected /\ v.links = w.links \ {d}
    BY SiteLinked
<1>2. u = [v EXCEPT !.files = f]
    BY DEF Web!removeConfigForServer
<1> HIDE DEF v
<1>3. DOMAIN f = DOMAIN w.files \ {d} /\ \A e \in DOMAIN f : f[e] = w.files[e]
    BY <1>1 DEF Web!Without
<1>4. f \in [DOMAIN f -> SiteFile]
    BY <1>1 DEF Web!Without, SiteWorldOK
<1> HIDE DEF f
<1>5. v = [sites |-> v.sites, files |-> v.files, links |-> v.links, served |-> v.served,
           rejected |-> v.rejected]
    BY <1>1 DEF SiteWorldOK, SiteIsWorld
<1>6. u = [sites |-> v.sites, files |-> f, links |-> v.links, served |-> v.served,
           rejected |-> v.rejected]
    BY <1>2, <1>5
<1>7. SiteFilesOK(f)
    BY <1>3 DEF SiteFilesOK
<1>8. /\ SiteIsWorld(u) /\ u.sites = w.sites /\ u.files = f /\ u.links = v.links
      /\ u.served = w.served /\ u.rejected = w.rejected
    BY <1>1, <1>6 DEF SiteIsWorld
<1> QED
    BY <1>1, <1>3, <1>4, <1>7, <1>8 DEF SiteWorldOK

(* The operations on the table: a row is put in, changed or taken out.      *)
LEMMA SiteTable ==
    ASSUME NEW w, SiteWorldOK(w), NEW s, s \in [DOMAIN s -> SiteRow], NEW u, u = [w EXCEPT !.sites = s]
    PROVE  /\ SiteWorldOK(u) /\ u.sites = s /\ u.files = w.files /\ u.links = w.links
           /\ u.served = w.served /\ u.rejected = w.rejected
<1>1. w = [sites |-> w.sites, files |-> w.files, links |-> w.links, served |-> w.served,
           rejected |-> w.rejected]
    BY DEF SiteWorldOK, SiteIsWorld
<1>2. u = [sites |-> s, files |-> w.files, links |-> w.links, served |-> w.served,
           rejected |-> w.rejected]
    BY <1>1
<1> QED
    BY <1>2 DEF SiteWorldOK, SiteIsWorld

SiteRowSet(u, w, id, row) ==
    /\ SiteWorldOK(u) /\ u.sites = [w.sites EXCEPT ![id] = row] /\ u.files = w.files
    /\ u.links = w.links /\ u.served = w.served /\ u.rejected = w.rejected

(* A row is replaced.                                                       *)
LEMMA SiteUpdated ==
    ASSUME NEW w, SiteWorldOK(w), NEW id \in DOMAIN w.sites, NEW row \in SiteRow,
           NEW u, u = Web!repoUpdate(w, id, row)
    PROVE  SiteRowSet(u, w, id, row)
<1> DEFINE s == [w.sites EXCEPT ![id] = row]
<1>1. s \in [DOMAIN s -> SiteRow]
    BY DEF SiteWorldOK
<1>2. u = [w EXCEPT !.sites = s]
    BY DEF Web!repoUpdate
<1> HIDE DEF s
<1>3. /\ SiteWorldOK(u) /\ u.sites = s /\ u.files = w.files /\ u.links = w.links
      /\ u.served = w.served /\ u.rejected = w.rejected
    BY <1>1, <1>2, SiteTable
<1> QED
    BY <1>3 DEF SiteRowSet, s

SiteStatus(row, status) == [row EXCEPT !.status = status]
SiteSSL(row) == [row EXCEPT !.ssl = TRUE]

(* A row whose status or certificate is noted is a row.                     *)
LEMMA SiteRowKinds ==
    ASSUME NEW row \in SiteRow, NEW status \in {"active", "disabled"}
    PROVE  /\ SiteStatus(row, status) \in SiteRow /\ SiteSSL(row) \in SiteRow
           /\ SiteStatus(row, status).domain = row.domain /\ SiteSSL(row).domain = row.domain
           /\ SiteStatus(row, status).status = status /\ SiteSSL(row).status = row.status
           /\ SitePassOK(row) => SitePassOK(SiteStatus(row, status)) /\ SitePassOK(SiteSSL(row))
BY DEF SiteStatus, SiteSSL, SiteRow, SitePassOK

(* A status or a certificate is noted in the table.                         *)
LEMMA SiteMarked ==
    ASSUME NEW w, SiteWorldOK(w), NEW id \in DOMAIN w.sites, NEW status \in {"active", "disabled"},
           NEW u
    PROVE  /\ u = Web!UpdateStatus(w, id, status) => SiteRowSet(u, w, id, SiteStatus(w.sites[id], status))
           /\ u = Web!UpdateSSL(w, id) => SiteRowSet(u, w, id, SiteSSL(w.sites[id]))
<1>1. w.sites[id] \in SiteRow
    BY DEF SiteWorldOK
<1>2. /\ Web!UpdateStatus(w, id, status) = Web!repoUpdate(w, id, SiteStatus(w.sites[id], status))
      /\ Web!UpdateSSL(w, id) = Web!repoUpdate(w, id, SiteSSL(w.sites[id]))
    BY DEF Web!UpdateStatus, Web!UpdateSSL, Web!repoUpdate, SiteStatus, SiteSSL
<1>3. SiteStatus(w.sites[id], status) \in SiteRow /\ SiteSSL(w.sites[id]) \in SiteRow
    BY <1>1, SiteRowKinds
<1> QED
    BY <1>2, <1>3, SiteUpdated

(* nginx is told of a world: it takes the links or refuses them; when it is *)
(* not running, or the panel does not know that it runs, it may not be told.*)
SiteIdle == ~server.active \/ server.status # "running"
SiteReloaded(u, w) ==
    /\ SiteWorldOK(u) /\ u.sites = w.sites /\ u.files = w.files /\ u.links = w.links
    /\ u.served = w.served \/ (server.active /\ u.served = w.links)
    /\ ~u.rejected => ~w.rejected /\ (u.served = w.links \/ SiteIdle)

(* nginx is told by either reload.                                          *)
LEMMA SiteTold ==
    ASSUME NEW w, SiteWorldOK(w), NEW u
    PROVE  /\ u = Web!reloadWebServer(w) => SiteReloaded(u, w)
           /\ u = Web!reloadIfRunning(w) => SiteReloaded(u, w)
<1>1. w = [sites |-> w.sites, files |-> w.files, links |-> w.links, served |-> w.served,
           rejected |-> w.rejected]
    BY DEF SiteWorldOK, SiteIsWorld
<1>2. ASSUME NEW v, v = [w EXCEPT !.rejected = TRUE] PROVE SiteReloaded(v, w)
  <2>1. v = [sites |-> w.sites, files |-> w.files, links |-> w.links, served |-> w.served,
             rejected |-> TRUE]
    BY <1>1, <1>2
  <2> QED
    BY <2>1 DEF SiteReloaded, SiteWorldOK, SiteIsWorld
<1>3. ASSUME NEW v, v = [w EXCEPT !.served = w.links], server.active PROVE SiteReloaded(v, w)
  <2>1. v = [sites |-> w.sites, files |-> w.files, links |-> w.links, served |-> w.links,
             rejected |-> w.rejected]
    BY <1>1, <1>3
  <2> QED
    BY <1>3, <2>1 DEF SiteReloaded, SiteWorldOK, SiteIsWorld
<1>4. SiteIdle => SiteReloaded(w, w)
    BY DEF SiteReloaded
<1>5. ASSUME u = Web!reloadWebServer(w) PROVE SiteReloaded(u, w)
  <2>1. \/ u = [w EXCEPT !.rejected = TRUE]
        \/ u = [w EXCEPT !.served = w.links] /\ server.active
        \/ u = w /\ ~server.active
    BY <1>5 DEF Web!reloadWebServer
  <2> QED
    BY <1>2, <1>3, <1>4, <2>1 DEF SiteIdle
<1>6. u = Web!reloadIfRunning(w) => SiteReloaded(u, w)
    BY <1>4, <1>5 DEF Web!reloadIfRunning, SiteIdle
<1> QED
    BY <1>5, <1>6

(* A world that is good up to what nginx serves is good once nginx was      *)
(* told.                                                                    *)
LEMMA SiteSettles ==
    ASSUME SiteServer, NEW w, NEW u, SiteReloaded(u, w), NEW n, n = 0 => siteFaults = 0,
           SiteBase(w, n)
    PROVE  SiteGood(u, n)
<1>1. /\ SiteWorldOK(u) /\ u.sites = w.sites /\ u.files = w.files /\ u.links = w.links
      /\ ~server.active => u.served = {}
    BY DEF SiteReloaded, SiteBase
<1>2. n = 0 => SiteTidy(u)
    BY <1>1 DEF SiteBase, SiteTidy
<1>3. SiteBase(u, n)
    BY <1>1, <1>2 DEF SiteBase
<1>4. ASSUME n = 0, ~u.rejected, NEW i \in DOMAIN u.sites, u.sites[i].status = "disabled"
      PROVE  u.sites[i].domain \notin u.served
  <2>1. u.served = {} \/ u.served = SiteActive(u.sites)
    BY <1>1, <1>2, <1>4 DEF SiteReloaded, SiteIdle, SiteServer, SiteTidy
  <2>2. u.sites[i].domain \notin SiteActive(u.sites)
    BY <1>1, <1>4 DEF SiteBase, SiteRowsOK, SiteDistinct, SiteActive
  <2> QED
    BY <2>1, <2>2
<1> QED
    BY <1>3, <1>4 DEF SiteGood, SiteCalm

(* A status or a certificate that is noted after nginx was told.            *)
LEMMA SiteNoted ==
    ASSUME NEW w, NEW v, SiteReloaded(v, w), NEW id, NEW row, NEW u, SiteRowSet(u, v, id, row),
           NEW x, SiteRowSet(x, w, id, row)
    PROVE  SiteReloaded(u, x)
BY DEF SiteReloaded, SiteRowSet

(* A row takes the place of another one; files and links follow.            *)
LEMMA SiteReplaced ==
    ASSUME NEW w, NEW n, SiteBase(w, n), NEW id \in DOMAIN w.sites, NEW row \in SiteRow,
           SitePassOK(row),
           \A i \in DOMAIN w.sites \ {id} : w.sites[i].domain # row.domain,
           NEW u, SiteWorldOK(u), u.sites = [w.sites EXCEPT ![id] = row], SiteFilesOK(u.files),
           u.served = w.served,
           n = 0 => /\ DOMAIN u.files = (DOMAIN w.files \ {w.sites[id].domain}) \cup {row.domain}
                    /\ u.links = (w.links \ {w.sites[id].domain})
                                   \cup (IF row.status = "active" THEN {row.domain} ELSE {})
    PROVE  SiteBase(u, n)
<1> DEFINE s == w.sites
           t == u.sites
<1>1. /\ DOMAIN t = DOMAIN s /\ t[id] = row /\ \A i \in DOMAIN s : i # id => t[i] = s[i]
    OBVIOUS
<1>2. SiteDistinct(s) /\ \A i \in DOMAIN s : SitePassOK(s[i])
    BY DEF SiteBase, SiteRowsOK
<1>3. /\ SiteDomains(t) = (SiteDomains(s) \ {s[id].domain}) \cup {row.domain}
      /\ SiteActive(t) = (SiteActive(s) \ {s[id].domain})
                           \cup (IF row.status = "active" THEN {row.domain} ELSE {})
    BY <1>1, <1>2, SiteChanged
<1>4. \A i \in DOMAIN s : i # id => s[i].domain # row.domain
    OBVIOUS
<1> HIDE DEF s, t
<1>5. SiteDistinct(t)
    BY ONLY <1>1, <1>2, <1>4 DEF SiteDistinct
<1>6. \A i \in DOMAIN t : SitePassOK(t[i])
    BY <1>1, <1>2
<1>7. n = 0 => SiteTidy(u)
    BY <1>3 DEF SiteBase, SiteTidy, s, t
<1> QED
    BY <1>5, <1>6, <1>7 DEF SiteBase, SiteRowsOK, t

(* What is to be shown of a request.                                        *)
LEMMA SiteBecomes ==
    ASSUME SiteInv, NEW u, Web!SetWorld(u), SiteGood(u, siteFaults'), UNCHANGED server,
           siteLastId' \in 0..SiteMaxId, DOMAIN u.sites \subseteq 1..siteLastId',
           siteFaults' \in Nat, siteFaults' = 0 => siteFaults = 0
    PROVE  SiteInv'
<1>1. /\ sites' = u.sites /\ files' = u.files /\ links' = u.links /\ siteServed' = u.served
      /\ rejected' = u.rejected
    BY DEF Web!SetWorld
<1>2. SiteIsWorld(u)
    BY DEF SiteGood, SiteBase, SiteWorldOK
<1>3. Web!World' = u
    BY <1>1, <1>2 DEF Web!World, SiteIsWorld
<1>4. SiteGood(Web!World, siteFaults)'
    BY <1>3 DEF SiteGood, SiteBase, SiteWorldOK, SiteIsWorld, SiteRowsOK, SiteDistinct, SiteFilesOK,
       SiteTidy, SiteCalm, SiteActive, SiteDomains, SitePassOK, SiteFileOK, SiteRow, SiteFile
<1>5. SiteTypes' /\ SiteServer'
    BY <1>1 DEF SiteInv, SiteTypes, SiteServer, SiteServerSet
<1> QED
    BY <1>4, <1>5 DEF SiteInv

(* The present world is good.                                               *)
LEMMA SiteStart ==
    ASSUME SiteInv, NEW n, n = 0 => siteFaults = 0
    PROVE  SiteGood(Web!World, n) /\ SiteBase(Web!World, n)
BY DEF SiteInv, SiteGood, SiteBase

(* The check of the domain.                                                 *)
LEMMA SiteCounted ==
    ASSUME SiteInv, NEW domain, NEW id, Web!CountByDomain(domain, id) = 0
    PROVE  \A i \in DOMAIN sites \ {id} : sites[i].domain # domain
<1> DEFINE S == {i \in DOMAIN sites \ {id} : sites[i].domain = domain}
<1>1. siteLastId \in Nat /\ S \subseteq 1..siteLastId
    BY DEF SiteInv, SiteTypes
<1>2. IsFiniteSet(1..siteLastId)
    BY <1>1, FS_Interval
<1>3. IsFiniteSet(S)
    BY <1>1, <1>2, FS_Subset
<1>4. Web!Cardinality(S) = 0
    BY DEF Web!CountByDomain
<1>5. S = {}
    BY <1>3, <1>4, SiteSets
<1> QED
    BY <1>5

(* Create: the row, the file, the link, the reload.                         *)
LEMMA SiteCreates ==
    ASSUME SiteInv, Web!CreateWebsite
    PROVE  SiteInv'
<1>1. PICK req \in Reqs, at \in {"none", "write"} :
        /\ siteLastId < SiteMaxId /\ siteLastId' = siteLastId + 1
        /\ Web!CountByDomain(req.domain, 0) = 0
        /\ Web!SetWorld(Web!Create(Web!World, req, siteLastId', at)) /\ Web!Charge(at)
        /\ UNCHANGED server
    BY DEF Web!CreateWebsite
<1> DEFINE w == Web!World
           id == siteLastId'
           row == Web!NewSite(req)
           inserted == Web!repoCreate(w, id, row)
           written == IF at = "write" THEN inserted ELSE Web!writeConfigForServer(inserted, row)
           x == Web!Linked(written, row.domain)
           u == Web!reloadIfRunning(x)
<1>2. siteFaults' \in Nat /\ (siteFaults' = 0 => siteFaults = 0 /\ at = "none")
    BY <1>1, SiteCharge DEF SiteInv
<1>3. /\ SiteBase(w, siteFaults') /\ w.sites = sites /\ w.served = siteServed
    BY <1>2, SiteStart, SiteNow
<1>4. /\ siteLastId \in Nat /\ DOMAIN sites \subseteq 1..siteLastId /\ id \in Nat
      /\ id \notin DOMAIN sites /\ 0 \notin DOMAIN sites
    BY <1>1 DEF SiteInv, SiteTypes
<1>5. row \in SiteRow /\ SitePassOK(row) /\ row.domain = req.domain /\ row.status = "active"
    BY SiteNew
<1>6. Web!SetWorld(u)
    BY <1>1 DEF Web!Create
<1>7. \A i \in DOMAIN sites : sites[i].domain # row.domain
    BY <1>1, <1>4, <1>5, SiteCounted
<1> HIDE DEF row, w
<1> DEFINE t == Web!With(w.sites, id, row)
<1>8. /\ DOMAIN t = DOMAIN w.sites \cup {id} /\ t[id] = row /\ \A i \in DOMAIN w.sites : t[i] = w.sites[i]
      /\ SiteDomains(t) = SiteDomains(w.sites) \cup {row.domain}
      /\ SiteActive(t) = SiteActive(w.sites) \cup {row.domain}
  <2>1. id \notin DOMAIN w.sites
    BY <1>3, <1>4
  <2>2. SiteRowAdded(t, w.sites, id, row)
    BY <1>5, <2>1, SiteAdded
  <2> HIDE DEF t, id
  <2> QED
    BY <2>2 DEF SiteRowAdded
<1>9. t \in [DOMAIN t -> SiteRow]
  <2>1. w.sites \in [DOMAIN w.sites -> SiteRow]
    BY <1>3 DEF SiteBase, SiteWorldOK
  <2> QED
    BY <1>5, <2>1 DEF Web!With
<1>10. /\ SiteWorldOK(inserted) /\ inserted.sites = t /\ inserted.files = w.files
       /\ inserted.links = w.links /\ inserted.served = w.served
  <2>1. inserted = [w EXCEPT !.sites = t]
    BY DEF Web!repoCreate
  <2>2. SiteWorldOK(w)
    BY <1>3 DEF SiteBase
  <2> HIDE DEF inserted, t
  <2> QED
    BY <1>9, <2>1, <2>2, SiteTable
<1> HIDE DEF t, inserted
<1>11. /\ SiteWorldOK(written) /\ written.sites = t /\ written.links = w.links
       /\ written.served = w.served /\ SiteFilesOK(written.files)
       /\ at = "none" => DOMAIN written.files = DOMAIN w.files \cup {row.domain}
  <2>1. SiteFilesOK(inserted.files)
    BY <1>3, <1>10 DEF SiteBase
  <2>2. CASE at = "write"
    BY <1>10, <2>1, <2>2
  <2>3. CASE at # "write"
    BY <1>5, <1>10, <2>1, <2>3, SiteWritten
  <2> QED
    BY <2>2, <2>3
<1> HIDE DEF written
<1>12. /\ SiteWorldOK(x) /\ x.sites = t /\ x.files = written.files /\ x.served = w.served
       /\ x.links = w.links \cup {row.domain}
    BY <1>5, <1>11, SiteLinked, SiteNamed
<1> HIDE DEF x
<1>13. SiteBase(x, siteFaults')
  <2>1. SiteDistinct(t)
    <3>1. SiteDistinct(w.sites) /\ \A i \in DOMAIN w.sites : w.sites[i].domain # row.domain
        BY <1>3, <1>7 DEF SiteBase, SiteRowsOK
    <3> QED
        BY <1>8, <3>1 DEF SiteDistinct
  <2>2. \A i \in DOMAIN t : SitePassOK(t[i])
    BY <1>3, <1>5, <1>8 DEF SiteBase, SiteRowsOK
  <2>3. siteFaults' = 0 => SiteTidy(x)
    BY <1>2, <1>3, <1>8, <1>11, <1>12 DEF SiteBase, SiteTidy
  <2> QED
    BY <1>3, <1>11, <1>12, <2>1, <2>2, <2>3 DEF SiteBase, SiteRowsOK
<1>14. SiteReloaded(u, x)
    BY <1>12, SiteTold
<1> HIDE DEF u
<1>15. SiteGood(u, siteFaults')
    BY <1>2, <1>13, <1>14, SiteSettles DEF SiteInv
<1>16. DOMAIN u.sites \subseteq 1..siteLastId'
    BY <1>1, <1>3, <1>4, <1>8, <1>12, <1>14 DEF SiteReloaded
<1>17. siteLastId' \in 0..SiteMaxId
    BY <1>1, SiteNumbers DEF SiteInv, SiteTypes
<1> QED
    BY <1>1, <1>2, <1>6, <1>15, <1>16, <1>17, SiteBecomes

(* Update: a rename moves file and link; another type gets its proxy        *)
(* settings.                                                                *)
LEMMA SiteUpdates ==
    ASSUME SiteInv, Web!UpdateWebsite
    PROVE  SiteInv'
<1>1. PICK id \in DOMAIN sites, edit \in Edits, at \in {"none", "write"} :
        /\ "domain" \in DOMAIN edit => Web!CountByDomain(edit.domain, id) = 0
        /\ Web!SetWorld(Web!Update(Web!World, id, edit, at)) /\ Web!Charge(at)
        /\ UNCHANGED <<server, siteLastId>>
    BY DEF Web!UpdateWebsite
<1> DEFINE w == Web!World
           old == w.sites[id]
           set == [f \in DOMAIN old |-> IF f \in DOMAIN edit THEN edit[f] ELSE old[f]]
           row == IF set.type # old.type THEN Web!recalcProxyDefaults(set) ELSE set
           noted == Web!repoUpdate(w, id, row)
           moved == IF row.domain # old.domain THEN Web!removeConfigForServer(noted, old.domain)
                    ELSE noted
           written == Web!writeConfigForServer(moved, row)
           x == IF row.status = "active" /\ row.domain # old.domain
                THEN Web!Linked(written, row.domain) ELSE written
           u == IF at = "write" THEN moved ELSE Web!reloadIfRunning(x)
<1>2. siteFaults' \in Nat /\ (siteFaults' = 0 => siteFaults = 0 /\ at = "none")
    BY <1>1, SiteCharge DEF SiteInv
<1>3. SiteBase(w, siteFaults') /\ w.sites = sites
    BY <1>2, SiteStart, SiteNow, SMTT(40)
<1>4. Web!SetWorld(u)
    BY <1>1 DEF Web!Update
<1>5. old \in SiteRow /\ SitePassOK(old) /\ SiteWorldOK(w)
    BY <1>3 DEF SiteBase, SiteWorldOK, SiteRowsOK
<1> HIDE DEF w
<1>6. /\ set \in SiteRow /\ set.pass = old.pass /\ set.status = old.status
      /\ set.domain = IF "domain" \in DOMAIN edit THEN edit.domain ELSE old.domain
  <2> HIDE DEF old
  <2> QED
    BY <1>5, SiteEdited
<1> HIDE DEF old, set
<1>7. /\ row \in SiteRow /\ SitePassOK(row) /\ row.status = old.status /\ row.domain = set.domain
  <2>1. CASE set.type # old.type
    BY <1>6, <2>1, SiteRecalc
  <2>2. CASE set.type = old.type
    BY <1>5, <1>6, <2>2 DEF SitePassOK
  <2> QED
    BY <2>1, <2>2
<1> HIDE DEF row
<1>8. \A i \in DOMAIN w.sites \ {id} : w.sites[i].domain # row.domain
  <2>1. CASE "domain" \in DOMAIN edit
    BY <1>1, <1>3, <1>6, <1>7, <2>1, SiteCounted
  <2>2. CASE "domain" \notin DOMAIN edit
    BY <1>1, <1>3, <1>6, <1>7, <2>2 DEF SiteBase, SiteRowsOK, SiteDistinct, old
  <2> QED
    BY <2>1, <2>2
<1>9. SiteRowSet(noted, w, id, row)
    BY <1>1, <1>3, <1>5, <1>7, SiteUpdated
<1> HIDE DEF noted
<1> DEFINE same == row.domain = old.domain
<1>10. /\ SiteWorldOK(moved) /\ moved.sites = [w.sites EXCEPT ![id] = row] /\ SiteFilesOK(moved.files)
       /\ moved.served = w.served
       /\ moved.links = IF same THEN w.links ELSE w.links \ {old.domain}
       /\ DOMAIN moved.files = IF same THEN DOMAIN w.files ELSE DOMAIN w.files \ {old.domain}
  <2>1. /\ SiteWorldOK(noted) /\ noted.sites = [w.sites EXCEPT ![id] = row] /\ noted.files = w.files
        /\ noted.links = w.links /\ noted.served = w.served
    BY <1>9 DEF SiteRowSet
  <2>2. SiteFilesOK(noted.files)
    BY <1>3, <2>1 DEF SiteBase
  <2>3. CASE same
    BY <2>1, <2>2, <2>3
  <2>4. CASE ~same
    <3>1. moved = Web!removeConfigForServer(noted, old.domain)
        BY <2>4
    <3> HIDE DEF moved, same
    <3>2. /\ SiteWorldOK(moved) /\ moved.sites = noted.sites /\ moved.served = noted.served
          /\ moved.links = noted.links \ {old.domain} /\ SiteFilesOK(moved.files)
          /\ DOMAIN moved.files = DOMAIN noted.files \ {old.domain}
        BY <2>1, <2>2, <3>1, SiteRemoved
    <3> QED
        BY <2>1, <2>4, <3>2
  <2> QED
    BY <2>3, <2>4
<1> HIDE DEF moved
<1>11. /\ SiteWorldOK(written) /\ written.sites = moved.sites /\ SiteFilesOK(written.files)
       /\ written.served = w.served /\ written.links = moved.links
       /\ DOMAIN written.files = DOMAIN moved.files \cup {row.domain}
    BY <1>7, <1>10, SiteWritten
<1> HIDE DEF written
<1>12. /\ SiteWorldOK(x) /\ x.sites = moved.sites /\ x.files = written.files /\ x.served = w.served
       /\ x.links = IF row.status = "active" /\ ~same THEN moved.links \cup {row.domain}
                    ELSE moved.links
  <2>1. CASE row.status = "active" /\ ~same
    <3>1. x = Web!Linked(written, row.domain)
        BY <2>1
    <3> HIDE DEF x, same
    <3> QED
        BY <1>7, <1>11, <2>1, <3>1, SiteLinked, SiteNamed
  <2>2. CASE ~(row.status = "active" /\ ~same)
    BY <1>11, <2>2
  <2> QED
    BY <2>1, <2>2
<1> HIDE DEF x
<1>13. SiteBase(x, siteFaults')
  <2>1. siteFaults' = 0 =>
          /\ DOMAIN x.files = (DOMAIN w.files \ {old.domain}) \cup {row.domain}
          /\ x.links = (w.links \ {old.domain}) \cup (IF row.status = "active" THEN {row.domain} ELSE {})
    <3> SUFFICES ASSUME siteFaults' = 0
                 PROVE  /\ DOMAIN x.files = (DOMAIN w.files \ {old.domain}) \cup {row.domain}
                        /\ x.links = (w.links \ {old.domain})
                                       \cup (IF row.status = "active" THEN {row.domain} ELSE {})
        OBVIOUS
    <3>1. w.links = SiteActive(w.sites) /\ DOMAIN w.files = SiteDomains(w.sites)
        BY <1>3 DEF SiteBase, SiteTidy
    <3>2. old.domain \in DOMAIN w.files
        BY <1>3, <3>1 DEF SiteDomains, old
    <3>3. old.domain \in w.links <=> old.status = "active"
        BY <1>3, <3>1 DEF SiteActive, old, SiteBase, SiteRowsOK, SiteDistinct
    <3>4. DOMAIN x.files = (DOMAIN w.files \ {old.domain}) \cup {row.domain}
        BY <1>10, <1>11, <1>12, <3>2
    <3>5. CASE same
        BY <1>7, <1>10, <1>12, <3>3, <3>4, <3>5
    <3>6. CASE ~same
        BY <1>7, <1>10, <1>12, <3>4, <3>6
    <3> QED
        BY <3>5, <3>6
  <2> QED
    BY <1>1, <1>3, <1>7, <1>8, <1>10, <1>11, <1>12, <2>1, SiteReplaced DEF old
<1>14. SiteGood(u, siteFaults')
  <2>1. CASE at = "write"
    <3>1. siteFaults' # 0
        BY <1>2, <2>1
    <3>2. SiteBase(moved, siteFaults')
        BY <1>1, <1>3, <1>7, <1>8, <1>10, <3>1, SiteReplaced DEF old
    <3> QED
        BY <2>1, <3>1, <3>2 DEF SiteGood
  <2>2. CASE at # "write"
    <3>1. SiteReloaded(u, x)
        BY <1>12, <2>2, SiteTold
    <3> HIDE DEF u
    <3> QED
        BY <1>2, <1>13, <3>1, SiteSettles DEF SiteInv
  <2> QED
    BY <2>1, <2>2
<1>15. u.sites = [w.sites EXCEPT ![id] = row]
  <2>1. CASE at = "write"
    BY <1>10, <2>1
  <2>2. CASE at # "write"
    BY <1>10, <1>12, <2>2, SiteTold DEF SiteReloaded
  <2> QED
    BY <2>1, <2>2
<1> HIDE DEF u
<1>16. siteLastId' \in 0..SiteMaxId /\ DOMAIN u.sites \subseteq 1..siteLastId'
    BY <1>1, <1>3, <1>15 DEF SiteInv, SiteTypes
<1> QED
    BY <1>1, <1>2, <1>4, <1>14, <1>16, SiteBecomes

(* A request on a row that changes what it is about and then notes that.    *)
LEMMA SiteRequest ==
    ASSUME SiteInv, NEW u, Web!SetWorld(u), SiteGood(u, siteFaults),
           UNCHANGED <<server, siteLastId, siteFaults>>, DOMAIN u.sites \subseteq DOMAIN sites
    PROVE  SiteInv'
BY SiteBecomes DEF SiteInv, SiteTypes

(* Delete: file, link and row go; nginx is not told.                        *)
LEMMA SiteDeletes ==
    ASSUME SiteInv, Web!DeleteWebsite
    PROVE  SiteInv'
<1>1. PICK id \in DOMAIN sites :
        /\ Web!SetWorld(Web!Delete(Web!World, id)) /\ UNCHANGED <<server, siteLastId, siteFaults>>
    BY DEF Web!DeleteWebsite, Web!OnSite
<1> DEFINE w == Web!World
           d == w.sites[id].domain
           removed == Web!removeConfigForServer(w, d)
           t == Web!Without(removed.sites, id)
           u == Web!Delete(w, id)
<1>2. SiteGood(w, siteFaults) /\ SiteBase(w, siteFaults) /\ w.sites = sites
    BY SiteStart, SiteNow
<1>3. /\ SiteWorldOK(removed) /\ removed.sites = w.sites /\ removed.served = w.served
      /\ removed.rejected = w.rejected /\ removed.links = w.links \ {d}
      /\ SiteFilesOK(removed.files) /\ DOMAIN removed.files = DOMAIN w.files \ {d}
    BY <1>2, SiteRemoved DEF SiteBase
<1>4. u = [removed EXCEPT !.sites = t]
    BY DEF Web!Delete, Web!repoDelete
<1> HIDE DEF w, removed
<1>5. SiteDistinct(w.sites)
    BY <1>2 DEF SiteBase, SiteRowsOK
<1>7. t \in [DOMAIN t -> SiteRow]
    BY <1>2, <1>3 DEF SiteBase, SiteWorldOK, Web!Without
<1>12. t = Web!Without(w.sites, id) /\ id \in DOMAIN w.sites
    BY <1>2, <1>3
<1> HIDE DEF t, u
<1>6. /\ DOMAIN t = DOMAIN w.sites \ {id} /\ \A i \in DOMAIN t : t[i] = w.sites[i]
      /\ SiteDomains(t) = SiteDomains(w.sites) \ {d}
      /\ SiteActive(t) = SiteActive(w.sites) \ {d}
    BY ONLY <1>5, <1>12, SiteGone, SMTT(40)
<1> HIDE DEF d
<1>8. /\ SiteWorldOK(u) /\ u.sites = t /\ u.files = removed.files /\ u.links = removed.links
      /\ u.served = removed.served /\ u.rejected = removed.rejected
    BY <1>3, <1>4, <1>7, SiteTable
<1>9. SiteBase(u, siteFaults)
  <2>1. SiteRowsOK(t)
    BY <1>2, <1>6 DEF SiteBase, SiteRowsOK, SiteDistinct
  <2>2. siteFaults = 0 => SiteTidy(u)
    BY <1>2, <1>3, <1>6, <1>8 DEF SiteBase, SiteTidy
  <2> QED
    BY <1>2, <1>3, <1>8, <2>1, <2>2 DEF SiteBase
<1>10. siteFaults = 0 => SiteCalm(u)
    BY <1>2, <1>3, <1>6, <1>8 DEF SiteGood, SiteCalm
<1>11. Web!SetWorld(u) /\ DOMAIN u.sites \subseteq DOMAIN sites
    BY <1>1, <1>2, <1>6, <1>8 DEF u, w
<1> QED
    BY <1>1, <1>9, <1>10, <1>11, SiteRequest DEF SiteGood

(* Enable and Disable: nginx is told of the links before the row is marked. *)
LEMMA SiteSwitches ==
    ASSUME SiteInv, NEW id \in DOMAIN sites, NEW status \in {"active", "disabled"},
           NEW x, SiteWorldOK(x), x.sites = sites, SiteFilesOK(x.files), x.served = siteServed,
           siteFaults = 0 => DOMAIN x.files = DOMAIN files,
           x.links = IF status = "active" THEN links \cup {sites[id].domain}
                     ELSE links \ {sites[id].domain},
           Web!SetWorld(Web!UpdateStatus(Web!reloadWebServer(x), id, status)),
           UNCHANGED <<server, siteLastId, siteFaults>>
    PROVE  SiteInv'
<1> DEFINE w == Web!World
           row == SiteStatus(sites[id], status)
           v == Web!reloadWebServer(x)
           u == Web!UpdateStatus(v, id, status)
           y == Web!UpdateStatus(x, id, status)
<1>1. SiteReloaded(v, x)
    BY SiteTold
<1>2. SiteWorldOK(v) /\ v.sites = sites
    BY <1>1 DEF SiteReloaded
<1> HIDE DEF v
<1>3. SiteRowSet(u, v, id, row) /\ SiteRowSet(y, x, id, row)
    BY <1>2, SiteMarked
<1> HIDE DEF u, y
<1>4. SiteReloaded(u, y)
    BY <1>1, <1>3, SiteNoted
<1>5. /\ SiteBase(w, siteFaults) /\ w.sites = sites /\ w.files = files /\ w.links = links
      /\ w.served = siteServed
    BY SiteStart, SiteNow
<1>6. sites[id] \in SiteRow /\ SitePassOK(sites[id]) /\ SiteDistinct(sites)
    BY <1>5 DEF SiteBase, SiteWorldOK, SiteRowsOK
<1>7. /\ row \in SiteRow /\ SitePassOK(row) /\ row.domain = sites[id].domain /\ row.status = status
    BY <1>6, SiteRowKinds
<1> HIDE DEF row, w
<1>8. SiteBase(y, siteFaults)
  <2>1. /\ SiteWorldOK(y) /\ y.sites = [w.sites EXCEPT ![id] = row] /\ SiteFilesOK(y.files)
        /\ y.served = w.served /\ y.files = x.files /\ y.links = x.links
    BY <1>3, <1>5 DEF SiteRowSet
  <2>2. \A i \in DOMAIN w.sites \ {id} : w.sites[i].domain # row.domain
    BY <1>5, <1>6, <1>7 DEF SiteDistinct
  <2>3. siteFaults = 0 =>
          /\ DOMAIN y.files = (DOMAIN w.files \ {w.sites[id].domain}) \cup {row.domain}
          /\ y.links = (w.links \ {w.sites[id].domain})
                         \cup (IF row.status = "active" THEN {row.domain} ELSE {})
    <3> SUFFICES ASSUME siteFaults = 0
                 PROVE  /\ DOMAIN y.files = (DOMAIN w.files \ {w.sites[id].domain}) \cup {row.domain}
                        /\ y.links = (w.links \ {w.sites[id].domain})
                                       \cup (IF row.status = "active" THEN {row.domain} ELSE {})
        OBVIOUS
    <3>1. sites[id].domain \in DOMAIN files
        BY <1>5 DEF SiteBase, SiteTidy, SiteDomains
    <3>2. DOMAIN y.files = (DOMAIN w.files \ {w.sites[id].domain}) \cup {row.domain}
        BY <1>5, <1>7, <2>1, <3>1
    <3>3. y.links = (w.links \ {w.sites[id].domain})
                      \cup (IF row.status = "active" THEN {row.domain} ELSE {})
        BY <1>5, <1>7, <2>1
    <3> QED
        BY <3>2, <3>3
  <2> QED
    BY <1>5, <1>7, <2>1, <2>2, <2>3, SiteReplaced
<1>9. SiteGood(u, siteFaults)
    BY <1>4, <1>8, SiteSettles DEF SiteInv
<1>10. Web!SetWorld(u) /\ DOMAIN u.sites \subseteq DOMAIN sites
    BY <1>2, <1>3 DEF u, v, SiteRowSet
<1> QED
    BY <1>9, <1>10, SiteRequest

(* Enable.                                                                  *)
LEMMA SiteEnables ==
    ASSUME SiteInv, Web!EnableWebsite
    PROVE  SiteInv'
<1>1. PICK id \in DOMAIN sites :
        /\ Web!SetWorld(Web!Enable(Web!World, id)) /\ UNCHANGED <<server, siteLastId, siteFaults>>
    BY DEF Web!EnableWebsite, Web!OnSite
<1> DEFINE w == Web!World
           written == Web!writeConfigForServer(w, w.sites[id])
           x == Web!Linked(written, w.sites[id].domain)
<1>2. /\ SiteBase(w, siteFaults) /\ w.sites = sites /\ w.files = files /\ w.links = links
      /\ w.served = siteServed
    BY SiteStart, SiteNow
<1>3. w.sites[id] \in SiteRow
    BY <1>2 DEF SiteBase, SiteWorldOK
<1>4. Web!SetWorld(Web!UpdateStatus(Web!reloadWebServer(x), id, "active"))
    BY <1>1 DEF Web!Enable
<1> HIDE DEF w
<1>5. /\ SiteWorldOK(written) /\ written.sites = w.sites /\ written.links = w.links
      /\ written.served = w.served /\ SiteFilesOK(written.files)
      /\ DOMAIN written.files = DOMAIN w.files \cup {w.sites[id].domain}
    BY <1>2, <1>3, SiteWritten DEF SiteBase
<1> HIDE DEF written
<1>6. /\ SiteWorldOK(x) /\ x.sites = w.sites /\ x.files = written.files /\ x.served = w.served
      /\ x.links = w.links \cup {w.sites[id].domain}
    BY <1>3, <1>5, SiteLinked, SiteNamed
<1> HIDE DEF x
<1>7. siteFaults = 0 => DOMAIN x.files = DOMAIN files
    BY <1>2, <1>5, <1>6 DEF SiteBase, SiteTidy, SiteDomains
<1> QED
    BY <1>1, <1>2, <1>4, <1>5, <1>6, <1>7, SiteSwitches

(* Disable.                                                                 *)
LEMMA SiteDisables ==
    ASSUME SiteInv, Web!DisableWebsite
    PROVE  SiteInv'
<1>1. PICK id \in DOMAIN sites :
        /\ Web!SetWorld(Web!Disable(Web!World, id)) /\ UNCHANGED <<server, siteLastId, siteFaults>>
    BY DEF Web!DisableWebsite, Web!OnSite
<1> DEFINE w == Web!World
           x == Web!Unlinked(w, w.sites[id].domain)
<1>2. /\ SiteBase(w, siteFaults) /\ w.sites = sites /\ w.files = files /\ w.links = links
      /\ w.served = siteServed
    BY SiteStart, SiteNow
<1>3. Web!SetWorld(Web!UpdateStatus(Web!reloadWebServer(x), id, "disabled"))
    BY <1>1 DEF Web!Disable
<1> HIDE DEF w
<1>4. /\ SiteWorldOK(x) /\ x.sites = w.sites /\ x.files = w.files /\ x.served = w.served
      /\ x.links = w.links \ {w.sites[id].domain}
    BY <1>2, SiteLinked DEF SiteBase
<1> HIDE DEF x
<1> QED
    BY <1>1, <1>2, <1>3, <1>4, SiteSwitches DEF SiteBase

(* The file of a site is written again, and nginx told.                     *)
LEMMA SiteRewritten ==
    ASSUME SiteInv, NEW w, SiteBase(w, siteFaults), NEW id \in DOMAIN w.sites,
           DOMAIN w.sites = DOMAIN sites,
           NEW u, LET x == Web!writeConfigForServer(w, w.sites[id])
                  IN u = Web!reloadWebServer(x) \/ u = Web!reloadIfRunning(x)
    PROVE  SiteGood(u, siteFaults) /\ DOMAIN u.sites = DOMAIN sites
<1> DEFINE x == Web!writeConfigForServer(w, w.sites[id])
<1>1. w.sites[id] \in SiteRow
    BY DEF SiteBase, SiteWorldOK
<1>2. /\ SiteWorldOK(x) /\ x.sites = w.sites /\ x.links = w.links /\ x.served = w.served
      /\ SiteFilesOK(x.files) /\ DOMAIN x.files = DOMAIN w.files \cup {w.sites[id].domain}
    BY <1>1, SiteWritten DEF SiteBase
<1> HIDE DEF x
<1>3. siteFaults = 0 => SiteTidy(x)
  <2>1. siteFaults = 0 => w.sites[id].domain \in DOMAIN w.files
    BY DEF SiteBase, SiteTidy, SiteDomains
  <2> QED
    BY <1>2, <2>1 DEF SiteBase, SiteTidy
<1>4. SiteBase(x, siteFaults)
    BY <1>2, <1>3 DEF SiteBase
<1>5. SiteReloaded(u, x)
    BY <1>2, SiteTold DEF x
<1> QED
    BY <1>2, <1>4, <1>5, SiteSettles DEF SiteInv, SiteReloaded

(* A row is marked as having a certificate.                                 *)
LEMMA SiteSecured ==
    ASSUME NEW w, NEW n, SiteBase(w, n), NEW id \in DOMAIN w.sites, NEW u,
           SiteRowSet(u, w, id, SiteSSL(w.sites[id]))
    PROVE  SiteBase(u, n)
<1> DEFINE row == SiteSSL(w.sites[id])
<1>1. w.sites[id] \in SiteRow /\ SitePassOK(w.sites[id]) /\ SiteDistinct(w.sites)
    BY DEF SiteBase, SiteWorldOK, SiteRowsOK
<1>2. /\ row \in SiteRow /\ SitePassOK(row) /\ row.domain = w.sites[id].domain
      /\ row.status = w.sites[id].status
    BY <1>1, SiteRowKinds
<1> HIDE DEF row
<1>3. /\ SiteWorldOK(u) /\ u.sites = [w.sites EXCEPT ![id] = row] /\ SiteFilesOK(u.files)
      /\ u.served = w.served /\ u.files = w.files /\ u.links = w.links
    BY DEF SiteRowSet, SiteBase, row
<1>4. \A i \in DOMAIN w.sites \ {id} : w.sites[i].domain # row.domain
    BY <1>1, <1>2 DEF SiteDistinct
<1>5. ASSUME n = 0
      PROVE  /\ DOMAIN u.files = (DOMAIN w.files \ {w.sites[id].domain}) \cup {row.domain}
             /\ u.links = (w.links \ {w.sites[id].domain})
                            \cup (IF row.status = "active" THEN {row.domain} ELSE {})
  <2>1. w.links = SiteActive(w.sites) /\ DOMAIN w.files = SiteDomains(w.sites)
    BY <1>5 DEF SiteBase, SiteTidy
  <2>2. w.sites[id].domain \in DOMAIN w.files
    BY <2>1 DEF SiteDomains
  <2>3. w.sites[id].domain \in w.links <=> w.sites[id].status = "active"
    BY <1>1, <2>1 DEF SiteActive, SiteDistinct
  <2>4. DOMAIN u.files = (DOMAIN w.files \ {w.sites[id].domain}) \cup {row.domain}
    BY <1>2, <1>3, <2>2
  <2>5. u.links = (w.links \ {w.sites[id].domain})
                    \cup (IF row.status = "active" THEN {row.domain} ELSE {})
    BY <1>2, <1>3, <2>3
  <2> QED
    BY <2>4, <2>5
<1> QED
    BY <1>2, <1>3, <1>4, <1>5, SiteReplaced

(* UploadSSL.                                                               *)
LEMMA SiteUploads ==
    ASSUME SiteInv, Web!UploadWebsiteSSL
    PROVE  SiteInv'
<1>1. PICK id \in DOMAIN sites :
        /\ Web!SetWorld(Web!UploadSSL(Web!World, id)) /\ UNCHANGED <<server, siteLastId, siteFaults>>
    BY DEF Web!UploadWebsiteSSL, Web!OnSite
<1> DEFINE w == Web!World
           marked == Web!UpdateSSL(w, id)
           u == Web!UploadSSL(w, id)
<1>2. SiteBase(w, siteFaults) /\ w.sites = sites
    BY SiteStart, SiteNow
<1>3. u = Web!reloadIfRunning(Web!writeConfigForServer(marked, marked.sites[id]))
    BY DEF Web!UploadSSL
<1> HIDE DEF w
<1>4. SiteRowSet(marked, w, id, SiteSSL(w.sites[id]))
    BY <1>2, SiteMarked DEF SiteBase
<1> HIDE DEF marked, u
<1>5. SiteBase(marked, siteFaults)
    BY <1>2, <1>4, SiteSecured
<1>6. DOMAIN marked.sites = DOMAIN sites
    BY <1>2, <1>4 DEF SiteRowSet
<1>7. SiteGood(u, siteFaults) /\ DOMAIN u.sites = DOMAIN sites
    BY <1>3, <1>5, <1>6, SiteRewritten
<1> QED
    BY <1>1, <1>7, SiteRequest DEF u, w

(* certbot puts the certificate into the file, nginx is told, and the row   *)
(* is marked last.                                                          *)
LEMMA SiteCertified ==
    ASSUME NEW w, NEW n, SiteBase(w, n), NEW d \in DOMAIN w.files,
           NEW x, x = [w EXCEPT !.files[d].ssl = TRUE]
    PROVE  SiteBase(x, n) /\ x.sites = w.sites
<1> DEFINE f == [w.files EXCEPT ![d].ssl = TRUE]
<1>1. w = [sites |-> w.sites, files |-> w.files, links |-> w.links, served |-> w.served,
           rejected |-> w.rejected]
    BY DEF SiteBase, SiteWorldOK, SiteIsWorld
<1>2. x = [sites |-> w.sites, files |-> f, links |-> w.links, served |-> w.served,
           rejected |-> w.rejected]
    BY <1>1
<1>3. w.files \in [DOMAIN w.files -> SiteFile] /\ SiteFilesOK(w.files)
    BY DEF SiteBase, SiteWorldOK
<1>4. /\ [w.files[d] EXCEPT !.ssl = TRUE] \in SiteFile
      /\ SiteFileOK([w.files[d] EXCEPT !.ssl = TRUE])
    BY <1>3 DEF SiteFile, SiteFileOK, SiteFilesOK
<1>5. f \in [DOMAIN f -> SiteFile] /\ SiteFilesOK(f) /\ DOMAIN f = DOMAIN w.files
    BY <1>3, <1>4 DEF SiteFilesOK
<1> HIDE DEF f
<1>8. /\ SiteIsWorld(x) /\ x.sites = w.sites /\ x.files = f /\ x.links = w.links
      /\ x.served = w.served
    BY ONLY <1>2 DEF SiteIsWorld
<1>9. /\ w.sites \in [DOMAIN w.sites -> SiteRow] /\ SiteRowsOK(w.sites)
      /\ ~server.active => w.served = {}
      /\ n = 0 => SiteTidy(w)
      /\ DOMAIN w.files \cup w.links \cup w.served \subseteq Domains
    BY DEF SiteBase, SiteWorldOK
<1>6. SiteWorldOK(x)
    BY ONLY <1>5, <1>8, <1>9 DEF SiteWorldOK
<1>7. n = 0 => SiteTidy(x)
    BY ONLY <1>5, <1>8, <1>9 DEF SiteTidy
<1> QED
    BY ONLY <1>5, <1>6, <1>7, <1>8, <1>9 DEF SiteBase

(* ApplySSL.                                                                *)
LEMMA SiteApplies ==
    ASSUME SiteInv, Web!ApplyWebsiteSSL
    PROVE  SiteInv'
<1>1. PICK id \in DOMAIN sites :
        /\ sites[id].domain \in DOMAIN files
        /\ Web!SetWorld(Web!ApplySSL(Web!World, id)) /\ UNCHANGED <<server, siteLastId, siteFaults>>
    BY DEF Web!ApplyWebsiteSSL
<1> DEFINE w == Web!World
           x == [w EXCEPT !.files[w.sites[id].domain].ssl = TRUE]
           v == Web!reloadWebServer(x)
           y == Web!UpdateSSL(x, id)
           u == Web!ApplySSL(w, id)
<1>2. SiteBase(w, siteFaults) /\ w.sites = sites /\ w.files = files
    BY SiteStart, SiteNow
<1>3. u = Web!UpdateSSL(v, id)
    BY DEF Web!ApplySSL
<1>4. SiteBase(x, siteFaults) /\ x.sites = w.sites
    BY <1>1, <1>2, SiteCertified
<1> HIDE DEF w, x
<1>5. SiteReloaded(v, x)
    BY <1>4, SiteTold DEF SiteBase
<1>6. SiteWorldOK(v) /\ v.sites = sites
    BY <1>2, <1>4, <1>5 DEF SiteReloaded
<1> HIDE DEF v
<1>7. SiteRowSet(u, v, id, SiteSSL(sites[id]))
    BY <1>3, <1>6, SiteMarked
<1>8. SiteRowSet(y, x, id, SiteSSL(x.sites[id])) /\ x.sites = sites
    BY <1>2, <1>4, SiteMarked DEF SiteBase
<1> HIDE DEF u, y
<1>9. SiteReloaded(u, y)
    BY <1>5, <1>7, <1>8, SiteNoted
<1>10. SiteBase(y, siteFaults)
    BY <1>4, <1>8, SiteSecured
<1>11. SiteGood(u, siteFaults)
    BY <1>9, <1>10, SiteSettles DEF SiteInv
<1>12. DOMAIN u.sites = DOMAIN sites
    BY <1>6, <1>7 DEF SiteRowSet
<1> QED
    BY <1>1, <1>11, <1>12, SiteRequest DEF u, w

(* UploadIcon and DeleteIcon.                                               *)
LEMMA SiteIcons ==
    ASSUME SiteInv, Web!UploadIcon \/ Web!DeleteIcon
    PROVE  SiteInv'
<1>1. PICK id \in DOMAIN sites :
        /\ Web!SetWorld(Web!regenerateConfig(Web!World, sites[id]))
        /\ UNCHANGED <<server, siteLastId, siteFaults>>
    BY DEF Web!UploadIcon, Web!DeleteIcon
<1> DEFINE w == Web!World
           u == Web!regenerateConfig(w, sites[id])
<1>2. SiteBase(w, siteFaults) /\ w.sites = sites
    BY SiteStart, SiteNow
<1>3. u = Web!reloadWebServer(Web!writeConfigForServer(w, w.sites[id]))
    BY <1>2 DEF Web!regenerateConfig
<1> HIDE DEF w, u
<1>4. SiteGood(u, siteFaults) /\ DOMAIN u.sites = DOMAIN sites
    BY <1>2, <1>3, SiteRewritten
<1> QED
    BY <1>1, <1>4, SiteRequest DEF u, w

(* What is to be shown of a request on the server itself.                   *)
LEMMA SiteServes ==
    ASSUME SiteInv, UNCHANGED <<sites, siteLastId, files, links, rejected>>,
           server' \in SiteServerSet, server'.active => server'.installed,
           siteFaults' \in Nat, siteFaults' = 0 => siteFaults = 0,
           siteFaults' = 0 /\ server'.active => server'.status = "running",
           siteServed' \in {siteServed, links, {}},
           ~server'.active => siteServed' = {}
    PROVE  SiteInv'
<1> DEFINE w == Web!World
           u == Web!World'
           n == siteFaults'
<1>1. /\ SiteIsWorld(w) /\ w.sites = sites /\ w.files = files /\ w.links = links
      /\ w.served = siteServed /\ w.rejected = rejected
      /\ SiteIsWorld(u) /\ u.sites = sites /\ u.files = files /\ u.links = links
      /\ u.served = siteServed' /\ u.rejected = rejected
    BY DEF Web!World, SiteIsWorld
<1>2. SiteGood(w, n) /\ SiteBase(w, n)
    BY SiteStart
<1> HIDE DEF w, u
<1>3. SiteWorldOK(u) /\ SiteRowsOK(u.sites) /\ SiteFilesOK(u.files)
    BY <1>1, <1>2 DEF SiteBase, SiteWorldOK
<1>4. n = 0 => SiteTidy(u)
    BY <1>1, <1>2 DEF SiteBase, SiteTidy
<1>5. ASSUME n = 0, ~u.rejected, NEW i \in DOMAIN u.sites, u.sites[i].status = "disabled"
      PROVE  u.sites[i].domain \notin u.served
  <2>1. u.sites[i].domain \notin siteServed
    BY <1>1, <1>2, <1>5 DEF SiteGood, SiteCalm
  <2>2. u.sites[i].domain \notin SiteActive(u.sites)
    BY <1>3, <1>5 DEF SiteRowsOK, SiteDistinct, SiteActive
  <2>3. u.sites[i].domain \notin links
    BY <1>1, <1>4, <1>5, <2>2 DEF SiteTidy
  <2> QED
    BY <1>1, <2>1, <2>3
<1>6. n = 0 => SiteCalm(u)
    BY <1>5 DEF SiteCalm
<1>7. /\ SiteWorldOK(Web!World)' /\ SiteRowsOK(Web!World.sites)' /\ SiteFilesOK(Web!World.files)'
      /\ (siteFaults = 0 => SiteTidy(Web!World))' /\ (siteFaults = 0 => SiteCalm(Web!World))'
    BY <1>3, <1>4, <1>6 DEF SiteWorldOK, SiteIsWorld, SiteRowsOK, SiteDistinct, SiteFilesOK,
       SiteTidy, SiteCalm, SiteActive, SiteDomains, SitePassOK, SiteFileOK, SiteRow, SiteFile, u
<1>8. (~server.active => Web!World.served = {})'
    BY <1>1 DEF u
<1>9. SiteTypes' /\ SiteServer'
    BY DEF SiteInv, SiteTypes, SiteServer, SiteServerSet
<1> QED
    BY <1>7, <1>8, <1>9 DEF SiteInv, SiteGood, SiteBase

(* The requests on the server.                                              *)
LEMMA SiteInstalls ==
    ASSUME SiteInv, Web!Install
    PROVE  SiteInv'
<1>1. PICK at \in {"none", "install", "enable", "start"} :
        /\ server' = [status |-> IF at = "none" THEN "running" ELSE server.status,
                      installed |-> server.installed \/ at # "install",
                      active |-> server.active \/ at = "none"]
        /\ siteServed' = IF at = "none" /\ ~server.active THEN links ELSE siteServed
        /\ Web!Charge(IF at = "start" /\ ~Web!TestConfig(Web!World) THEN "none" ELSE at)
        /\ UNCHANGED <<sites, siteLastId, files, links, rejected>>
    BY DEF Web!Install, Web!SetServer, Web!RestUnchanged
<1>2. /\ server \in SiteServerSet /\ (server.active => server.installed)
      /\ siteFaults = 0 /\ server.active => server.status = "running"
      /\ ~server.active => siteServed = {}
    BY SiteNow DEF SiteInv, SiteTypes, SiteServer, SiteGood, SiteBase
<1>3. siteFaults' \in Nat /\ (siteFaults' = 0 => siteFaults = 0)
    BY <1>1, SiteCharge DEF SiteInv
<1>4. siteFaults' = 0 => at \in {"none", "start"}
    BY <1>1, SiteCharge DEF SiteInv
<1>5. /\ server'.status = (IF at = "none" THEN "running" ELSE server.status)
      /\ server'.installed = (server.installed \/ at # "install")
      /\ server'.active = (server.active \/ at = "none")
    BY <1>1
<1>6. server' \in SiteServerSet
  <2> DEFINE status == IF at = "none" THEN "running" ELSE server.status
             has == server.installed \/ at # "install"
             runs == server.active \/ at = "none"
  <2>1. /\ status \in {"not_installed", "stopped", "running"}
        /\ has \in BOOLEAN /\ runs \in BOOLEAN
    BY <1>2 DEF SiteServerSet
  <2>2. server' = [status |-> status, installed |-> has, active |-> runs]
    BY <1>1
  <2> HIDE DEF status, has, runs
  <2> QED
    BY ONLY <2>1, <2>2 DEF SiteServerSet
<1>7. server'.active => server'.installed
    BY ONLY <1>2, <1>5
<1>8. siteFaults' = 0 /\ server'.active => server'.status = "running"
    BY <1>2, <1>3, <1>5
<1>9. siteServed' \in {siteServed, links, {}} /\ (~server'.active => siteServed' = {})
    BY <1>1, <1>2, <1>5
<1> QED
    BY <1>1, <1>3, <1>6, <1>7, <1>8, <1>9, SiteServes

(* Uninstall: only without sites; the service is stopped even when the      *)
(* package stays.                                                           *)
LEMMA SiteUninstalls ==
    ASSUME SiteInv, Web!Uninstall
    PROVE  SiteInv'
<1>1. PICK at \in {"none", "stop", "remove"} :
        /\ server' = [status |-> IF at = "remove" THEN server.status ELSE "not_installed",
                      installed |-> server.installed /\ at = "remove", active |-> FALSE]
        /\ siteServed' = {} /\ Web!Charge(at)
        /\ UNCHANGED <<sites, siteLastId, files, links, rejected>>
    BY DEF Web!Uninstall, Web!SetServer, Web!RestUnchanged
<1>2. server \in SiteServerSet
    BY DEF SiteInv, SiteTypes
<1>3. siteFaults' \in Nat /\ (siteFaults' = 0 => siteFaults = 0)
    BY <1>1, SiteCharge DEF SiteInv
<1>4. server' \in SiteServerSet /\ ~server'.active
    BY <1>1, <1>2 DEF SiteServerSet
<1> QED
    BY <1>1, <1>3, <1>4, SiteServes

(* Start, Stop, Restart, Reload and RefreshStatus.                          *)
LEMMA SiteOperates ==
    ASSUME SiteInv, Web!Start \/ Web!Stop \/ Web!Restart \/ Web!Reload \/ Web!RefreshStatus
    PROVE  SiteInv'
<1>1. /\ server \in SiteServerSet /\ (server.active => server.installed)
      /\ siteFaults = 0 /\ server.active => server.status = "running"
      /\ ~server.active => siteServed = {}
      /\ siteFaults \in Nat
    BY SiteNow DEF SiteInv, SiteTypes, SiteServer, SiteGood, SiteBase
<1>2. UNCHANGED <<sites, siteLastId, files, links, rejected, siteFaults>>
    BY DEF Web!Start, Web!Stop, Web!Restart, Web!Reload, Web!RefreshStatus, Web!RestUnchanged
<1>3. /\ server' \in SiteServerSet /\ (server'.active => server'.installed)
      /\ siteFaults = 0 /\ server'.active => server'.status = "running"
      /\ siteServed' \in {siteServed, links, {}} /\ (~server'.active => siteServed' = {})
  <2>1. CASE Web!Start
    BY <1>1, <2>1 DEF Web!Start, Web!SetServer, SiteServerSet
  <2>2. CASE Web!Stop
    BY <1>1, <2>2 DEF Web!Stop, Web!SetServer, SiteServerSet
  <2>3. CASE Web!Restart
    <3>1. /\ siteServed' \in {links, {}}
          /\ \/ server' = [status |-> "running", installed |-> TRUE, active |-> TRUE]
             \/ /\ server' = [status |-> server.status, installed |-> TRUE, active |-> FALSE]
                /\ siteServed' = {}
      BY <2>3 DEF Web!Restart, Web!SetServer
    <3>2. CASE server' = [status |-> "running", installed |-> TRUE, active |-> TRUE]
      <4>1. server' \in SiteServerSet /\ server'.installed /\ server'.status = "running"
            /\ server'.active
        BY ONLY <3>2 DEF SiteServerSet
      <4> QED
        BY ONLY <3>1, <4>1
    <3>3. CASE /\ server' = [status |-> server.status, installed |-> TRUE, active |-> FALSE]
               /\ siteServed' = {}
      <4>1. server' \in SiteServerSet /\ ~server'.active
        BY ONLY <1>1, <3>3 DEF SiteServerSet
      <4> QED
        BY ONLY <3>3, <4>1
    <3> QED
      BY ONLY <3>1, <3>2, <3>3
  <2>4. CASE Web!Reload
    BY <1>1, <2>4 DEF Web!Reload
  <2>5. CASE Web!RefreshStatus
    <3> DEFINE status == Web!StatusNow(server.installed, server.active)
               has == server.installed
               runs == server.active
    <3>1. /\ status \in {"not_installed", "stopped", "running"}
          /\ has \in BOOLEAN /\ runs \in BOOLEAN
          /\ (runs => has) /\ (runs => status = "running")
      BY <1>1 DEF SiteServerSet, Web!StatusNow
    <3>2. /\ server' = [status |-> status, installed |-> has, active |-> runs]
          /\ siteServed' = siteServed
      BY <2>5 DEF Web!RefreshStatus, Web!SetServer
    <3>3. ~runs => siteServed = {}
      BY <1>1
    <3> HIDE DEF status, has, runs
    <3> QED
      BY ONLY <3>1, <3>2, <3>3 DEF SiteServerSet
  <2> QED
    BY <2>1, <2>2, <2>3, <2>4, <2>5
<1>4. /\ siteFaults' \in Nat /\ (siteFaults' = 0 => siteFaults = 0)
      /\ siteFaults' = 0 /\ server'.active => server'.status = "running"
    BY <1>1, <1>2, <1>3
<1> QED
    BY ONLY SiteInv, <1>2, <1>3, <1>4, SiteServes

(* nginx is stopped or started outside the panel.                           *)
LEMMA SiteOutside ==
    ASSUME SiteInv, Web!OutsidePanel
    PROVE  SiteInv'
<1>1. /\ server \in SiteServerSet /\ server.installed
      /\ ~server.active => siteServed = {}
    BY SiteNow DEF SiteInv, SiteTypes, SiteGood, SiteBase, Web!OutsidePanel
<1>2. UNCHANGED <<sites, siteLastId, files, links, rejected>> /\ Web!Charge("outside")
    BY DEF Web!OutsidePanel, Web!RestUnchanged
<1>3. siteFaults' \in Nat /\ siteFaults' # 0
    BY <1>2, SiteCharge DEF SiteInv
<1>4. /\ server' \in SiteServerSet /\ (server'.active => server'.installed)
      /\ siteServed' \in {siteServed, links, {}} /\ (~server'.active => siteServed' = {})
  <2>1. /\ siteServed' \in {links, {}}
        /\ \/ server' = [status |-> server.status, installed |-> TRUE, active |-> TRUE]
           \/ /\ server' = [status |-> server.status, installed |-> TRUE, active |-> FALSE]
              /\ siteServed' = {}
    BY DEF Web!OutsidePanel, Web!SetServer
  <2>2. CASE server' = [status |-> server.status, installed |-> TRUE, active |-> TRUE]
    <3>1. server' \in SiteServerSet /\ server'.installed /\ server'.active
      BY ONLY <1>1, <2>2 DEF SiteServerSet
    <3> QED
      BY ONLY <2>1, <3>1
  <2>3. CASE /\ server' = [status |-> server.status, installed |-> TRUE, active |-> FALSE]
             /\ siteServed' = {}
    <3>1. server' \in SiteServerSet /\ ~server'.active
      BY ONLY <1>1, <2>3 DEF SiteServerSet
    <3> QED
      BY ONLY <2>3, <3>1
  <2> QED
    BY ONLY <2>1, <2>2, <2>3
<1> QED
    BY ONLY SiteInv, <1>2, <1>3, <1>4, SiteServes

(* The invariant holds on while the part does nothing.                      *)
LEMMA SiteStutter ==
    ASSUME SiteInv, UNCHANGED <<server, sites, siteLastId, files, links, siteServed, rejected,
                                siteFaults>>
    PROVE  SiteInv'
<1>1. Web!World' = Web!World
    BY DEF Web!World
<1> QED
    BY <1>1 DEF SiteInv, SiteTypes, SiteServer, SiteServerSet, SiteGood, SiteBase, SiteWorldOK,
       SiteIsWorld, SiteRowsOK, SiteDistinct, SiteFilesOK, SiteTidy, SiteCalm, SiteActive,
       SiteDomains, SitePassOK, SiteFileOK, SiteRow, SiteFile

(* Every step of the sites keeps the invariant.                             *)
LEMMA SiteStep ==
    ASSUME SiteInv, Web!Next
    PROVE  SiteInv'
<1>1. Web!FirstBan => SiteInv'
    BY SiteStutter DEF Web!FirstBan
<1> QED
    BY <1>1, SiteCreates, SiteUpdates, SiteDeletes, SiteEnables, SiteDisables, SiteUploads,
       SiteApplies, SiteIcons, SiteInstalls, SiteUninstalls, SiteOperates, SiteOutside
       DEF Web!Next

(* What the invariant says: the three properties.                           *)
LEMMA SiteShows ==
    ASSUME SiteInv
    PROVE  Web!LinksAreActiveSites /\ Web!AppsAreProxied /\ Web!DisabledNotServed
<1>1. /\ SiteWorldOK(Web!World) /\ SiteRowsOK(sites) /\ SiteFilesOK(files)
      /\ siteFaults = 0 => SiteTidy(Web!World) /\ SiteCalm(Web!World)
    BY SiteNow DEF SiteInv, SiteGood, SiteBase
<1>2. Web!LinksAreActiveSites
    BY <1>1, SiteNow DEF Web!LinksAreActiveSites, SiteTidy, SiteActive, SiteDomains
<1>3. Web!AppsAreProxied
    BY <1>1 DEF Web!AppsAreProxied, SiteRowsOK, SitePassOK, SiteFilesOK, SiteFileOK
<1>4. Web!DisabledNotServed
    BY <1>1, SiteNow DEF Web!DisabledNotServed, SiteCalm
<1> QED
    BY <1>2, <1>3, <1>4


(* Types. Icons are those of sites.                                         *)
SiteTyped == SiteInv /\ icons \subseteq Domains

(* The icons hold at the start.                                             *)
LEMMA SiteTypedInit == Init => SiteTyped
BY SiteInit DEF SiteTyped, Init, Web!Init

(* Only the requests on icons change them.                                  *)
LEMMA SiteKeepsIcons ==
    ASSUME Web!Next
    PROVE  icons' = icons \/ Web!UploadIcon \/ Web!DeleteIcon
<1>1. CASE Web!CreateWebsite \/ Web!UpdateWebsite
    BY <1>1 DEF Web!CreateWebsite, Web!UpdateWebsite
<1>2. CASE Web!DeleteWebsite \/ Web!DisableWebsite \/ Web!EnableWebsite \/ Web!UploadWebsiteSSL
    BY <1>2 DEF Web!DeleteWebsite, Web!DisableWebsite, Web!EnableWebsite, Web!UploadWebsiteSSL, Web!OnSite
<1>3. CASE Web!ApplyWebsiteSSL \/ Web!FirstBan
    BY <1>3 DEF Web!ApplyWebsiteSSL, Web!FirstBan
<1>4. CASE Web!Install \/ Web!Uninstall
    BY <1>4 DEF Web!Install, Web!Uninstall, Web!RestUnchanged
<1>5. CASE Web!Start \/ Web!Stop \/ Web!Restart \/ Web!Reload \/ Web!RefreshStatus \/ Web!OutsidePanel
    BY <1>5 DEF Web!Start, Web!Stop, Web!Restart, Web!Reload, Web!RefreshStatus, Web!OutsidePanel, Web!RestUnchanged
<1> QED
    BY <1>1, <1>2, <1>3, <1>4, <1>5 DEF Web!Next

(* Every step keeps the types.                                              *)
LEMMA SiteTypedStep == ASSUME SiteTyped, Web!Next PROVE SiteTyped'
<1>1. CASE Web!UploadIcon \/ Web!DeleteIcon
  <2>1. PICK id \in DOMAIN sites : icons' = icons \cup {sites[id].domain} \/ icons' = icons \ {sites[id].domain}
      BY <1>1 DEF Web!UploadIcon, Web!DeleteIcon
  <2>2. sites[id] \in SiteRow
      BY SiteStart, SiteNow DEF SiteTyped, SiteBase, SiteWorldOK
  <2> QED
      BY <2>1, <2>2, SiteNamed, SiteStep DEF SiteTyped
<1> QED
    BY <1>1, SiteKeepsIcons, SiteStep DEF SiteTyped

(* The types hold on while the part does nothing.                           *)
LEMMA SiteTypedStutter == ASSUME SiteTyped, UNCHANGED siteVars PROVE SiteTyped'
BY SiteStutter DEF SiteTyped, siteVars

(* What the invariant says of types.                                        *)
LEMMA SiteTypedShows == ASSUME SiteTyped PROVE Web!TypeOK
<1>1. SiteWorldOK(Web!World)
    BY SiteStart DEF SiteTyped, SiteBase
<1>2. /\ sites \in [DOMAIN sites -> SiteRow] /\ DOMAIN files \cup links \cup siteServed \subseteq Domains
    BY <1>1, SiteNow DEF SiteWorldOK
<1>3. \A i \in DOMAIN sites : sites[i].domain \in Domains /\ sites[i].type \in Web!Types
    BY <1>2 DEF SiteRow
<1>4. server.status \in {"not_installed", "stopped", "running"} /\ (server.active => server.installed)
    BY DEF SiteTyped, SiteInv, SiteTypes, SiteServer, SiteServerSet
<1> QED
    BY <1>2, <1>3, <1>4, SiteNumbers DEF SiteTyped, SiteInv, SiteTypes, Web!TypeOK

-----------------------------------------------------------------------------
(* Bans. Beside the types, the property is inductive: a request that did    *)
(* not fail rewrites the file from all rows.                                *)
BanRow == [ip : IPs, site : Sites \cup {Global}, temp : BOOLEAN, over : BOOLEAN]
BanTypes ==
    /\ bans \in [DOMAIN bans -> BanRow]
    /\ DOMAIN bans \subseteq 1..banLastId /\ banLastId \in Nat /\ banFaults \in Nat
BanInv == BanTypes /\ Ban!BannedIsDenied

(* The invariant holds at the start.                                        *)
LEMMA BanInit == Init => BanInv
<1> SUFFICES ASSUME Init PROVE BanInv
    OBVIOUS
<1>1. bans = <<>> /\ banLastId = 0 /\ loaded = {} /\ banFaults = 0
    BY DEF Init, Ban!Init
<1>2. DOMAIN bans = {}
    BY <1>1
<1>3. BanTypes
    BY <1>1, <1>2 DEF BanTypes
<1> QED
    BY <1>1, <1>2, <1>3 DEF BanInv, Ban!BannedIsDenied, Ban!ListAllBannedIPs

(* A failing step is counted.                                               *)
LEMMA BanCharge ==
    ASSUME BanTypes, NEW at, Ban!Charge(at)
    PROVE  banFaults' \in Nat /\ (banFaults' = 0 => banFaults = 0 /\ at = "none")
BY DEF BanTypes, Ban!Charge

(* The file is written from all rows and nginx is told, unless that fails.  *)
LEMMA BanRefreshed ==
    ASSUME NEW b, Ban!refreshNginxBanFile(b, "none")
    PROVE  /\ Ban!ListAllBannedIPs(b) \subseteq loaded'
           /\ \A ip \in loaded' : \E i \in DOMAIN b : b[i].ip = ip
BY DEF Ban!refreshNginxBanFile, Ban!ListAllBannedIPs

(* BanIP: one row is added.                                                 *)
LEMMA BanBans ==
    ASSUME BanInv, Ban!BanIP
    PROVE  BanInv'
<1>1. PICK site \in Sites \cup {Global}, ip \in IPs, temp \in BOOLEAN,
           at \in {"none", "firewall", "file", "nginx"} :
        /\ banLastId' = banLastId + 1 /\ bans' = Ban!AddBannedIP(banLastId', ip, site, temp)
        /\ at # "firewall" => Ban!refreshNginxBanFile(bans', at)
        /\ Ban!Charge(at)
    BY Zenon DEF Ban!BanIP
<1>2. banFaults' \in Nat /\ (banFaults' = 0 => at = "none")
    BY <1>1, BanCharge DEF BanInv
<1>3. BanTypes'
  <2> DEFINE row == [ip |-> ip, site |-> site, temp |-> temp, over |-> FALSE]
  <2>1. row \in BanRow
    BY DEF BanRow
  <2>2. bans' = [i \in DOMAIN bans \cup {banLastId'} |-> IF i = banLastId' THEN row ELSE bans[i]]
    BY <1>1 DEF Ban!AddBannedIP
  <2> HIDE DEF row
  <2>3. bans' \in [DOMAIN bans' -> BanRow] /\ DOMAIN bans' = DOMAIN bans \cup {banLastId'}
    BY <2>1, <2>2 DEF BanInv, BanTypes
  <2> QED
    BY <1>1, <1>2, <2>3 DEF BanInv, BanTypes
<1>4. Ban!BannedIsDenied'
    BY <1>1, <1>2, BanRefreshed DEF Ban!BannedIsDenied
<1> QED
    BY <1>3, <1>4 DEF BanInv

(* UnbanIP: one row goes; others may name the same address.                 *)
LEMMA BanUnbans ==
    ASSUME BanInv, Ban!UnbanIP
    PROVE  BanInv'
<1>1. PICK id \in DOMAIN bans, at \in {"none", "firewall", "file", "nginx"} :
        /\ bans' = Ban!RemoveBannedIP(id) /\ Ban!refreshNginxBanFile(bans', at)
        /\ Ban!Charge(at) /\ UNCHANGED banLastId
    BY Zenon DEF Ban!UnbanIP
<1>2. banFaults' \in Nat /\ (banFaults' = 0 => at = "none")
    BY <1>1, BanCharge DEF BanInv
<1>3. BanTypes'
    BY <1>1, <1>2 DEF BanInv, BanTypes, Ban!RemoveBannedIP, Ban!Without
<1>4. Ban!BannedIsDenied'
    BY <1>1, <1>2, BanRefreshed DEF Ban!BannedIsDenied
<1> QED
    BY <1>3, <1>4 DEF BanInv

(* The expired bans are swept.                                              *)
LEMMA BanExpires ==
    ASSUME BanInv, Ban!Expire
    PROVE  BanInv'
<1>1. PICK id \in DOMAIN bans :
        /\ bans' = [bans EXCEPT ![id].over = TRUE]
        /\ UNCHANGED <<banLastId, banRules, denied, loaded, banFaults>>
    BY DEF Ban!Expire
<1>2. bans[id] \in BanRow
    BY DEF BanInv, BanTypes
<1>3. [bans[id] EXCEPT !.over = TRUE] \in BanRow
    BY <1>2 DEF BanRow
<1>4. BanTypes'
    BY <1>1, <1>3 DEF BanInv, BanTypes
<1>5. /\ DOMAIN bans' = DOMAIN bans
      /\ \A i \in DOMAIN bans : bans'[i].ip = bans[i].ip /\ (bans[i].over => bans'[i].over)
    BY <1>1, <1>2, <1>3 DEF BanInv, BanTypes, BanRow
<1>6. Ban!BannedIsDenied'
    BY <1>1, <1>5 DEF BanInv, Ban!BannedIsDenied, Ban!ListAllBannedIPs, Ban!Active
<1> QED
    BY <1>4, <1>6 DEF BanInv

(* Every request on bans keeps the invariant.                               *)
LEMMA BanStep == BanInv /\ Ban!Next => BanInv'
BY BanBans, BanUnbans, BanExpires DEF Ban!Next

(* The invariant holds on while the part does nothing.                      *)
LEMMA BanStutter == BanInv /\ UNCHANGED banVars => BanInv'
<1> SUFFICES ASSUME BanInv, UNCHANGED banVars PROVE BanInv'
    OBVIOUS
<1>1. UNCHANGED <<bans, banLastId, loaded, banFaults>>
    BY DEF banVars
<1> QED
    BY <1>1 DEF BanInv, BanTypes, Ban!BannedIsDenied, Ban!ListAllBannedIPs, Ban!Active

(* What the invariant says.                                                 *)
LEMMA BanShows == BanInv => Ban!BannedIsDenied
BY DEF BanInv


(* Types. Rules are numbered as bans are, and nginx denies addresses only.  *)
BanMore ==
    /\ DOMAIN banRules \subseteq 1 .. banLastId /\ banLastId <= BanMaxId
    /\ banFaults \in 0 .. BanMaxFaults /\ denied \subseteq IPs /\ loaded \subseteq IPs
BanTyped == BanInv /\ BanMore

(* The bounds are numbers.                                                  *)
LEMMA BanNumbers == BanMaxId \in Nat /\ BanMaxFaults \in Nat
BY BanAssumption DEF Ban!BanBounds

(* The types hold at the start.                                             *)
LEMMA BanTypedInit == Init => BanTyped
<1> SUFFICES ASSUME Init PROVE BanMore
    BY BanInit DEF BanTyped
<1>1. banRules = <<>> /\ banLastId = 0 /\ denied = {} /\ loaded = {} /\ banFaults = 0
    BY DEF Init, Ban!Init
<1>2. DOMAIN banRules = {}
    BY <1>1
<1> QED
    BY <1>1, <1>2, BanNumbers DEF BanMore

(* refreshNginxBanFile writes addresses of bans.                            *)
LEMMA BanWrites ==
    ASSUME BanTyped, NEW b, \A i \in DOMAIN b : b[i] \in BanRow, NEW at, Ban!refreshNginxBanFile(b, at)
    PROVE  denied' \subseteq IPs /\ loaded' \subseteq IPs
<1>1. Ban!ListAllBannedIPs(b) \subseteq IPs
    BY DEF Ban!ListAllBannedIPs, BanRow
<1>2. denied' \subseteq IPs
    BY <1>1 DEF Ban!refreshNginxBanFile, BanTyped, BanMore
<1> QED
    BY <1>2 DEF Ban!refreshNginxBanFile, BanTyped, BanMore

(* Every step keeps the types.                                              *)
LEMMA BanTypedStep == ASSUME BanTyped, Ban!Next PROVE BanTyped'
<1>1. BanInv'
    BY BanStep DEF BanTyped
<1>2. \A i \in DOMAIN bans' : bans'[i] \in BanRow
    BY <1>1 DEF BanInv, BanTypes
<1>3. CASE Ban!BanIP
  <2>1. PICK ip \in IPs, at \in {"none", "firewall", "file", "nginx"} :
          /\ banLastId < BanMaxId /\ banLastId' = banLastId + 1
          /\ IF at = "firewall" THEN UNCHANGED <<banRules, denied, loaded>>
             ELSE /\ banRules' = [i \in DOMAIN banRules \cup {banLastId'} |->
                                    IF i = banLastId' THEN ip ELSE banRules[i]]
                  /\ Ban!refreshNginxBanFile(bans', at)
          /\ Ban!Charge(at)
      BY <1>3, Zenon DEF Ban!BanIP
  <2>2. banFaults' \in 0 .. BanMaxFaults
      BY <2>1, BanNumbers DEF BanTyped, BanMore, Ban!Charge
  <2>3. denied' \subseteq IPs /\ loaded' \subseteq IPs
      BY <1>2, <2>1, BanWrites DEF BanTyped, BanMore
  <2>4. DOMAIN banRules' \subseteq DOMAIN banRules \cup {banLastId'}
      BY <2>1
  <2>5. banLastId \in Nat /\ BanMaxId \in Nat /\ DOMAIN banRules \subseteq 1 .. banLastId
      BY BanNumbers DEF BanTyped, BanMore, BanInv, BanTypes
  <2>6. banLastId < BanMaxId /\ banLastId' = banLastId + 1
      BY <2>1
  <2>7. DOMAIN banRules' \subseteq 1 .. banLastId' /\ banLastId' <= BanMaxId
      BY ONLY <2>4, <2>5, <2>6
  <2> QED
      BY ONLY <1>1, <2>2, <2>3, <2>7 DEF BanTyped, BanMore
<1>4. CASE Ban!UnbanIP
  <2>1. PICK at \in {"none", "firewall", "file", "nginx"} :
          /\ \E S : banRules' = IF at = "firewall" THEN banRules ELSE Ban!Without(banRules, S)
          /\ Ban!refreshNginxBanFile(bans', at) /\ Ban!Charge(at) /\ UNCHANGED banLastId
      BY <1>4, Zenon DEF Ban!UnbanIP
  <2>2. banFaults' \in 0 .. BanMaxFaults
      BY <2>1, BanNumbers DEF BanTyped, BanMore, Ban!Charge
  <2>3. denied' \subseteq IPs /\ loaded' \subseteq IPs
      BY <1>2, <2>1, BanWrites
  <2>4. DOMAIN banRules' \subseteq DOMAIN banRules
      BY <2>1 DEF Ban!Without
  <2> QED
      BY <1>1, <2>1, <2>2, <2>3, <2>4 DEF BanTyped, BanMore
<1>5. CASE Ban!Expire
    BY <1>1, <1>5 DEF Ban!Expire, BanTyped, BanMore
<1> QED
    BY <1>3, <1>4, <1>5 DEF Ban!Next

(* The types hold on while the part does nothing.                           *)
LEMMA BanTypedStutter == ASSUME BanTyped, UNCHANGED banVars PROVE BanTyped'
BY BanStutter DEF BanTyped, BanMore, banVars

(* What the invariant says of types.                                        *)
LEMMA BanTypedShows == ASSUME BanTyped PROVE Ban!TypeOK
BY BanNumbers DEF BanTyped, BanMore, BanInv, BanTypes, Ban!TypeOK

-----------------------------------------------------------------------------
(* Container engines. The settings that Docker saved are in the file and    *)
(* what it runs with, and it is installed: that is when a request restarts  *)
(* it.                                                                      *)
EngineTypes == saved \in [mirrors : SUBSET {"none", "m"}, insecure : SUBSET {"i"}]
EngineSaved ==
    engine = "docker" /\ saved # Engine!NoSettings =>
        /\ installed /\ file.ok
        /\ file.mirrors = saved.mirrors /\ file.insecure = saved.insecure
        /\ live.mirrors = saved.mirrors /\ live.insecure = saved.insecure
EngineInv == EngineTypes /\ EngineSaved

(* Docker takes its settings from the file or goes on with those it has.    *)
EngineKeeps ==
    /\ UNCHANGED <<engine, file, saved>>
    /\ installed => installed'
    /\ live' \in {live, file}

(* A step that keeps the settings and the files keeps the invariant.        *)
LEMMA EngineKept ==
    ASSUME EngineInv, EngineKeeps
    PROVE  EngineInv'
BY DEF EngineInv, EngineTypes, EngineSaved, EngineKeeps, Engine!NoSettings

(* The invariant holds at the start.                                        *)
LEMMA EngineInit == Init => EngineInv
BY DEF Init, Engine!Init, EngineInv, EngineTypes, EngineSaved, Engine!NoSettings

(* Installing the packages of an engine keeps the settings.                 *)
LEMMA EngineInstalls ==
    ASSUME NEW at, Engine!Install(at)
    PROVE  EngineKeeps
<1>1. Engine!installSteps(at) /\ UNCHANGED <<engine, Engine!settings, Engine!rest>>
    BY DEF Engine!Install, Engine!installDocker, Engine!installPodman
<1> QED
    BY <1>1 DEF Engine!installSteps, Engine!Launch, Engine!settings, EngineKeeps

(* Starting, stopping and restarting keep the settings.                     *)
LEMMA EngineRuns ==
    ASSUME NEW at, \/ Engine!StartEngine(at)
                   \/ Engine!StopEngine(at)
                   \/ Engine!RestartEngine(at)
                   \/ Engine!EnableSocket(at)
    PROVE  EngineKeeps
BY DEF Engine!StartEngine, Engine!StopEngine, Engine!RestartEngine, Engine!EnableSocket,
   Engine!Launch, Engine!Restart, Engine!settings, EngineKeeps

(* SetRegistryConfig: the file is written, Docker restarted, and only then  *)
(* the settings are reported as saved.                                      *)
LEMMA EngineSets ==
    ASSUME EngineInv, NEW cfg \in Engine!Configs, NEW at, Engine!SetRegistryConfig(cfg, at)
    PROVE  EngineInv'
<1>1. cfg \in [mirrors : SUBSET {"none", "m"}, insecure : SUBSET {"i"}]
    BY DEF Engine!Configs
<1>2. UNCHANGED <<engine, installed>>
    BY DEF Engine!SetRegistryConfig
<1>3. CASE engine = "podman"
  <2>1. saved' \in {cfg, Engine!NoSettings}
    BY <1>3 DEF Engine!SetRegistryConfig, Engine!isPodmanEngine, Engine!setPodmanRegistryConfig
  <2> QED
    BY <1>1, <1>2, <1>3, <2>1 DEF EngineInv, EngineTypes, EngineSaved, Engine!NoSettings
<1>4. CASE engine # "podman"
  <2>1. Engine!setDockerRegistryConfig(cfg, at)
    BY <1>4 DEF Engine!SetRegistryConfig, Engine!isPodmanEngine
  <2>2. CASE at = "none" /\ installed
    <3>1. /\ file' = [ok |-> TRUE, mirrors |-> cfg.mirrors, insecure |-> cfg.insecure,
                      other |-> file.ok /\ file.other]
          /\ live' = file' /\ saved' = cfg
        BY <2>1, <2>2 DEF Engine!setDockerRegistryConfig, Engine!Restart
    <3> QED
        BY <1>1, <1>2, <2>2, <3>1 DEF EngineInv, EngineTypes, EngineSaved
  <2>3. CASE ~(at = "none" /\ installed)
    <3>1. saved' = Engine!NoSettings
        BY <2>1, <2>3 DEF Engine!setDockerRegistryConfig
    <3> QED
        BY <3>1 DEF EngineInv, EngineTypes, EngineSaved, Engine!NoSettings
  <2> QED
    BY <2>2, <2>3
<1> QED
    BY <1>3, <1>4

(* Every request on an engine keeps the invariant.                          *)
LEMMA EngineStep == EngineInv /\ Engine!Next => EngineInv'
<1> SUFFICES ASSUME EngineInv, Engine!Next PROVE EngineInv'
    OBVIOUS
<1>1. CASE Engine!InstallEngine
    BY <1>1, EngineInstalls, EngineKept DEF Engine!InstallEngine
<1>2. CASE Engine!PostStart \/ Engine!PostStop \/ Engine!PostRestart \/ Engine!PostSocket
    BY <1>2, EngineRuns, EngineKept
    DEF Engine!PostStart, Engine!PostStop, Engine!PostRestart, Engine!PostSocket
<1>3. CASE Engine!PutMirror
  <2>1. [mirrors |-> {"m"}, insecure |-> {}] \in Engine!Configs
    BY DEF Engine!Configs
  <2> QED
    BY <1>3, <2>1, EngineSets DEF Engine!PutMirror, Engine!ConfigureMirror
<1>4. CASE Engine!PutRegistry
    BY <1>4, EngineSets DEF Engine!PutRegistry
<1>5. CASE Engine!EditFile
    BY <1>5 DEF Engine!EditFile, EngineInv, EngineTypes, EngineSaved, Engine!NoSettings
<1>6. CASE UNCHANGED <<engine, installed, file, live, saved>>
    BY <1>6, EngineKept DEF EngineKeeps
<1>7. CASE \/ Engine!PostLogin \/ Engine!PostLogout \/ Engine!PostVolume \/ Engine!DeleteVolume
           \/ Engine!PostNetwork \/ Engine!DeleteNetwork
    BY <1>6, <1>7 DEF Engine!PostLogin, Engine!PostLogout, Engine!PostVolume,
       Engine!DeleteVolume, Engine!PostNetwork, Engine!DeleteNetwork,
       Engine!RegistryLogin, Engine!RegistryLogout, Engine!CreateVolume, Engine!RemoveVolume,
       Engine!CreateNetwork, Engine!RemoveNetwork, Engine!Extra, Engine!Store, Engine!unit,
       Engine!settings
<1>8. CASE \/ Engine!PostComposeUp \/ Engine!PostComposeDown \/ Engine!PostComposeRestart
           \/ Engine!PutCompose
    BY <1>6, <1>8 DEF Engine!PostComposeUp, Engine!PostComposeDown, Engine!PostComposeRestart,
       Engine!PutCompose, Engine!ComposeUp, Engine!ComposeDown, Engine!ComposeRestart,
       Engine!Compose, Engine!ComposeSaveConfig, Engine!unit, Engine!settings
<1> QED
    BY <1>1, <1>2, <1>3, <1>4, <1>5, <1>7, <1>8 DEF Engine!Next

(* The invariant holds on while the part does nothing.                      *)
LEMMA EngineStutter == EngineInv /\ UNCHANGED engineVars => EngineInv'
BY EngineKept DEF engineVars, EngineKeeps

(* What the invariant says: GetRegistryConfig tells what Docker runs with.  *)
LEMMA EngineShows == EngineInv => Engine!SavedIsLive
BY DEF EngineInv, EngineTypes, EngineSaved, Engine!SavedIsLive, Engine!GetRegistryConfig,
   Engine!isPodmanEngine, Engine!getDockerRegistryConfig


(* Types. A unit is enabled or active only of an engine that is installed,  *)
(* and a project was brought up with what some compose file held.           *)
EngineProject == \A n \in DOMAIN project : project[n] \in EngineVers
EngineMore ==
    /\ engine \in Engines /\ installed \in BOOLEAN /\ enabled \in BOOLEAN /\ active \in BOOLEAN
    /\ (enabled \/ active) => installed
    /\ creds \subseteq Servers /\ extras \subseteq {"volume", "network"}
    /\ EngineProject /\ running \in EngineVers \cup {0} /\ engineFaults \in 0 .. EngineMaxFaults
EngineTyped == EngineInv /\ EngineMore

(* The bounds are numbers, and there are engines and versions.              *)
LEMMA EngineNumbers == EngineMaxFaults \in Nat /\ EngineVers # {} /\ Engines # {}
BY EngineAssumption DEF Engine!EngineBounds

(* A failure stays within the bound on failures.                            *)
LEMMA EngineCharged ==
    ASSUME EngineMore, NEW at, Engine!Charge(at)
    PROVE  engineFaults' \in 0 .. EngineMaxFaults
BY EngineNumbers DEF EngineMore, Engine!Charge

(* The types hold at the start.                                             *)
LEMMA EngineTypedInit == Init => EngineTyped
<1> SUFFICES ASSUME Init PROVE EngineMore
    BY EngineInit DEF EngineTyped
<1>1. /\ engine \in Engines /\ installed = FALSE /\ enabled = FALSE /\ active = FALSE
      /\ creds = {} /\ extras = {} /\ running = 0 /\ engineFaults = 0
      /\ project \in {[n \in {} |-> 0], [n \in {"compose.yml"} |-> CHOOSE v \in EngineVers : TRUE]}
    BY DEF Init, Engine!Init
<1>2. (CHOOSE v \in EngineVers : TRUE) \in EngineVers
    BY EngineNumbers
<1>3. EngineProject
    BY <1>1, <1>2 DEF EngineProject
<1>4. installed \in BOOLEAN /\ enabled \in BOOLEAN /\ active \in BOOLEAN /\ (enabled \/ active => installed)
    BY <1>1, Zenon
<1>5. engineFaults \in 0 .. EngineMaxFaults
    BY <1>1, EngineNumbers
<1> QED
    BY ONLY <1>1, <1>3, <1>4, <1>5 DEF EngineMore

(* Steps that only touch the unit.                                          *)
LEMMA EngineUnit ==
    ASSUME EngineMore, installed' \in BOOLEAN, enabled' \in BOOLEAN, active' \in BOOLEAN,
           (enabled' \/ active') => installed', engineFaults' \in 0 .. EngineMaxFaults,
           UNCHANGED <<engine, creds, extras, project, running>>
    PROVE  EngineMore'
BY DEF EngineMore, EngineProject

(* findComposeFile names a file that is there.                              *)
LEMMA EngineFound ==
    ASSUME EngineMore, Engine!findComposeFile # ""
    PROVE  Engine!findComposeFile \in DOMAIN project
<1> DEFINE Here == {i \in 1 .. 4 : Engine!Candidates[i] \in DOMAIN project}
           First(i) == Engine!Candidates[i] \in DOMAIN project
                       /\ \A j \in 1 .. (i - 1) : Engine!Candidates[j] \notin DOMAIN project
           k == CHOOSE i \in 1 .. 4 : First(i)
<1>1. Here # {}
    BY Zenon DEF Engine!findComposeFile
<1>2. PICK m \in Here : \A j \in Here : m <= j
  <2> HIDE DEF Here
  <2>1. Here \subseteq 1 .. 4
      BY DEF Here
  <2>2. CASE 1 \in Here
      BY ONLY <2>1, <2>2
  <2>3. CASE 1 \notin Here /\ 2 \in Here
      BY ONLY <2>1, <2>3
  <2>4. CASE 1 \notin Here /\ 2 \notin Here /\ 3 \in Here
      BY ONLY <2>1, <2>4
  <2>5. CASE 1 \notin Here /\ 2 \notin Here /\ 3 \notin Here
    <3>1. PICK i \in Here : TRUE
        BY ONLY <1>1
    <3>2. \A j \in Here : j = 4
        BY ONLY <2>1, <2>5
    <3>3. 4 \in Here /\ (\A j \in Here : 4 <= j)
        BY ONLY <3>1, <3>2
    <3> QED
        BY ONLY <3>3
  <2> QED
      BY <2>2, <2>3, <2>4, <2>5
<1>3. First(m)
  <2>1. ASSUME NEW j \in 1 .. (m - 1) PROVE j \notin Here
    <3> HIDE DEF Here
    <3>1. m \in 1 .. 4
        BY <1>2 DEF Here
    <3>2. ~ (m <= j)
        BY ONLY <3>1, j \in 1 .. (m - 1)
    <3> QED
        BY ONLY <1>2, <3>2
  <2>2. m \in 1 .. 4
      BY <1>2
  <2>3. \A j \in 1 .. (m - 1) : j \in 1 .. 4
      BY ONLY <2>2
  <2> QED
      BY <1>2, <2>1, <2>3, Zenon
<1>4. Engine!findComposeFile = Engine!Candidates[k]
    BY <1>1, Zenon DEF Engine!findComposeFile
<1>5. First(k)
  <2>1. m \in 1 .. 4
      BY <1>2
  <2> HIDE DEF First
  <2> QED
      BY <1>3, <2>1
<1> QED
    BY <1>4, <1>5, Zenon

(* A compose command runs what the file holds, or nothing.                  *)
LEMMA EngineComposes ==
    ASSUME EngineMore, NEW v \in EngineVers \cup {0}, NEW at, Engine!Compose(v, at)
    PROVE  EngineMore'
<1>1. /\ running' \in {running, v}
      /\ UNCHANGED <<engine, installed, enabled, active, creds, extras, project>>
    BY DEF Engine!Compose, Engine!unit
<1>2. engineFaults' \in 0 .. EngineMaxFaults
    BY EngineCharged DEF Engine!Compose
<1> QED
    BY <1>1, <1>2 DEF EngineMore, EngineProject

(* Credentials, volumes and networks are kept by the engine.                *)
LEMMA EngineStores ==
    ASSUME EngineMore, NEW c, c \subseteq Servers, NEW e, e \subseteq {"volume", "network"}, NEW at,
           Engine!Charge(at), Engine!Store(c, e)
    PROVE  EngineMore'
<1>1. creds' = c /\ extras' = e /\ UNCHANGED <<engine, installed, enabled, active, project, running>>
    BY DEF Engine!Store, Engine!unit
<1> QED
    BY <1>1, EngineCharged DEF EngineMore, EngineProject

(* A volume or a network is made or removed.                                *)
LEMMA EngineExtras ==
    ASSUME EngineMore, NEW x \in {"volume", "network"}, NEW has, NEW at, Engine!Extra(x, has, at)
    PROVE  EngineMore'
<1> DEFINE e == IF ~ active \/ at = "call" THEN extras
                ELSE IF has THEN extras \cup {x} ELSE extras \ {x}
<1>1. e \subseteq {"volume", "network"} /\ creds \subseteq Servers
    BY DEF EngineMore
<1>2. Engine!Charge(at) /\ Engine!Store(creds, e)
    BY DEF Engine!Extra
<1> QED
    BY ONLY EngineMore, <1>1, <1>2, EngineStores

(* The unit: installation, start, stop, restart and the socket.             *)
LEMMA EngineUnits ==
    ASSUME EngineMore, \/ Engine!InstallEngine \/ Engine!PostStart \/ Engine!PostStop
                       \/ Engine!PostRestart \/ Engine!PostSocket
    PROVE  EngineMore'
<1>0. /\ installed \in BOOLEAN /\ enabled \in BOOLEAN /\ active \in BOOLEAN
      /\ (enabled \/ active) => installed
    BY DEF EngineMore
<1>1. CASE Engine!InstallEngine
  <2>1. PICK at : /\ Engine!installSteps(at) /\ UNCHANGED <<engine, creds, extras, project, running>>
      BY <1>1 DEF Engine!InstallEngine, Engine!Install, Engine!installDocker, Engine!installPodman, Engine!rest
  <2>2. engineFaults' \in 0 .. EngineMaxFaults
      BY <2>1, EngineCharged DEF Engine!installSteps
  <2>3. /\ installed' = (installed \/ at # "package")
        /\ enabled' = (enabled \/ (TRUE /\ at \notin {"package", "enable"}))
        /\ active' = (active \/ at = "none")
      BY <2>1 DEF Engine!installSteps, Engine!EnableUnit, Engine!Launch
  <2>4. /\ installed' \in BOOLEAN /\ enabled' \in BOOLEAN /\ active' \in BOOLEAN
        /\ (enabled' \/ active') => installed'
      BY <1>0, <2>3
  <2> QED
      BY <2>1, <2>2, <2>4, EngineUnit
<1>2. CASE Engine!PostStart
  <2>1. PICK at : /\ Engine!Charge(at) /\ active' = (active \/ (installed /\ at = "none"))
                  /\ UNCHANGED <<engine, installed, enabled, creds, extras, project, running>>
      BY <1>2 DEF Engine!PostStart, Engine!StartEngine, Engine!Launch, Engine!rest
  <2>2. active' \in BOOLEAN /\ (enabled \/ active' => installed)
      BY <1>0, <2>1
  <2> QED
      BY <1>0, <2>1, <2>2, EngineCharged, EngineUnit
<1>3. CASE Engine!PostStop
  <2>1. PICK at : /\ Engine!Charge(at) /\ active' = (active /\ at = "stop")
                  /\ UNCHANGED <<engine, installed, enabled, creds, extras, project, running>>
      BY <1>3 DEF Engine!PostStop, Engine!StopEngine, Engine!rest
  <2>2. active' \in BOOLEAN /\ (enabled \/ active' => installed)
      BY <1>0, <2>1
  <2> QED
      BY <1>0, <2>1, <2>2, EngineCharged, EngineUnit
<1>4. CASE Engine!PostRestart
  <2>1. PICK at : /\ Engine!Charge(at) /\ ((active' = active) \/ (installed /\ active' = TRUE))
                  /\ UNCHANGED <<engine, installed, enabled, creds, extras, project, running>>
      BY <1>4 DEF Engine!PostRestart, Engine!RestartEngine, Engine!Restart, Engine!rest
  <2>2. active' \in BOOLEAN /\ (enabled \/ active' => installed)
    <3>1. CASE active' = active
        BY <1>0, <3>1, Zenon
    <3>2. CASE installed /\ active' = TRUE
        BY <1>0, <3>2, Zenon
    <3> QED
        BY <2>1, <3>1, <3>2
  <2> QED
      BY <1>0, <2>1, <2>2, EngineCharged, EngineUnit
<1>5. CASE Engine!PostSocket
  <2>1. PICK at : /\ Engine!Charge(at) /\ active' = (active \/ (installed /\ at = "none"))
                  /\ enabled' = (enabled \/ (installed /\ at \notin {"package", "enable"}))
                  /\ UNCHANGED <<engine, installed, creds, extras, project, running>>
      BY <1>5 DEF Engine!PostSocket, Engine!EnableSocket, Engine!EnableUnit, Engine!Launch, Engine!rest
  <2>2. enabled' \in BOOLEAN /\ active' \in BOOLEAN /\ (enabled' \/ active' => installed)
      BY <1>0, <2>1
  <2> QED
      BY <1>0, <2>1, <2>2, EngineCharged, EngineUnit
<1> QED
    BY <1>1, <1>2, <1>3, <1>4, <1>5

(* The requests on the registry settings.                                   *)
LEMMA EngineConfigures ==
    ASSUME EngineMore, Engine!PutMirror \/ Engine!PutRegistry \/ Engine!EditFile
    PROVE  EngineMore'
<1>0. /\ installed \in BOOLEAN /\ enabled \in BOOLEAN /\ active \in BOOLEAN
      /\ (enabled \/ active) => installed
    BY DEF EngineMore
<1>1. ASSUME NEW cfg, NEW at, Engine!SetRegistryConfig(cfg, at) PROVE EngineMore'
  <2>1. /\ Engine!Charge(at) /\ ((active' = active) \/ (installed /\ active' = TRUE))
        /\ UNCHANGED <<engine, installed, enabled, creds, extras, project, running>>
      BY <1>1 DEF Engine!SetRegistryConfig, Engine!setPodmanRegistryConfig,
         Engine!setDockerRegistryConfig, Engine!Restart, Engine!rest
  <2>2. active' \in BOOLEAN /\ (enabled \/ active' => installed)
    <3>1. CASE active' = active
        BY <1>0, <3>1, Zenon
    <3>2. CASE installed /\ active' = TRUE
        BY <1>0, <3>2, Zenon
    <3> QED
        BY <2>1, <3>1, <3>2
  <2> QED
      BY <1>0, <2>1, <2>2, EngineCharged, EngineUnit
<1>2. CASE Engine!EditFile
    BY <1>2 DEF Engine!EditFile, Engine!unit, Engine!rest, EngineMore, EngineProject
<1> QED
    BY <1>1, <1>2 DEF Engine!PutMirror, Engine!PutRegistry, Engine!ConfigureMirror

(* Credentials, volumes, networks and compose projects.                     *)
LEMMA EngineOthers ==
    ASSUME EngineMore, \/ Engine!PostLogin \/ Engine!PostLogout \/ Engine!PostVolume
                       \/ Engine!DeleteVolume \/ Engine!PostNetwork \/ Engine!DeleteNetwork
                       \/ Engine!PostComposeUp \/ Engine!PostComposeDown
                       \/ Engine!PostComposeRestart \/ Engine!PutCompose
    PROVE  EngineMore'
<1>0. creds \subseteq Servers /\ extras \subseteq {"volume", "network"} /\ running \in EngineVers \cup {0}
    BY DEF EngineMore
<1>1. CASE Engine!PostLogin \/ Engine!PostLogout
  <2>1. PICK s, at : /\ s \in Servers /\ Engine!Charge(at)
                     /\ \E c \in {creds, creds \cup {s}, creds \ {s}} : Engine!Store(c, extras)
      BY <1>1, Zenon DEF Engine!PostLogin, Engine!PostLogout, Engine!RegistryLogin, Engine!RegistryLogout
  <2> QED
      BY <1>0, <2>1, EngineStores
<1>2. CASE \/ Engine!PostVolume \/ Engine!DeleteVolume \/ Engine!PostNetwork \/ Engine!DeleteNetwork
  <2>1. PICK x \in {"volume", "network"} : \E has \in BOOLEAN : \E at : Engine!Extra(x, has, at)
      BY <1>2, Zenon DEF Engine!PostVolume, Engine!DeleteVolume, Engine!PostNetwork, Engine!DeleteNetwork,
         Engine!CreateVolume, Engine!RemoveVolume, Engine!CreateNetwork, Engine!RemoveNetwork
  <2> QED
      BY <2>1, EngineExtras
<1>3. CASE Engine!PostComposeUp
  <2>1. PICK at : Engine!Compose(Engine!ComposeGetConfig, at)
      BY <1>3 DEF Engine!PostComposeUp, Engine!ComposeUp
  <2>2. Engine!ComposeGetConfig \in EngineVers \cup {0}
    <3>1. CASE Engine!findComposeFile = ""
        BY <3>1, Zenon DEF Engine!ComposeGetConfig
    <3>2. CASE Engine!findComposeFile # ""
      <4>1. Engine!ComposeGetConfig = project[Engine!findComposeFile]
          BY <3>2, Zenon DEF Engine!ComposeGetConfig
      <4> QED
          BY <3>2, <4>1, EngineFound DEF EngineMore, EngineProject
    <3> QED
        BY <3>1, <3>2
  <2> QED
      BY <2>1, <2>2, EngineComposes
<1>4. CASE Engine!PostComposeDown \/ Engine!PostComposeRestart
    BY <1>0, <1>4, EngineComposes DEF Engine!PostComposeDown, Engine!PostComposeRestart, Engine!ComposeDown,
       Engine!ComposeRestart
<1>5. CASE Engine!PutCompose
  <2>1. PICK v, at : v \in EngineVers /\ Engine!ComposeSaveConfig(v, at)
      BY <1>5 DEF Engine!PutCompose
  <2>2. PICK f : project' = IF at = "write" THEN project
                            ELSE [n \in DOMAIN project \cup {f} |-> IF n = f THEN v ELSE project[n]]
      BY <2>1, Zenon DEF Engine!ComposeSaveConfig
  <2>3. Engine!Charge(at) /\ UNCHANGED <<engine, installed, enabled, active, creds, extras, running>>
      BY <2>1 DEF Engine!ComposeSaveConfig, Engine!unit
  <2>4. EngineProject'
    <3>1. EngineProject /\ v \in EngineVers
        BY <2>1 DEF EngineMore
    <3>2. \A n \in DOMAIN project' : project'[n] \in EngineVers
        BY ONLY <2>2, <3>1 DEF EngineProject
    <3> QED
        BY <3>2 DEF EngineProject
  <2> QED
      BY <2>3, <2>4, EngineCharged DEF EngineMore
<1> QED
    BY <1>1, <1>2, <1>3, <1>4, <1>5

(* Every step keeps the types.                                              *)
LEMMA EngineTypedStep == ASSUME EngineTyped, Engine!Next PROVE EngineTyped'
BY EngineStep, EngineUnits, EngineConfigures, EngineOthers DEF EngineTyped, Engine!Next

(* The types hold on while the part does nothing.                           *)
LEMMA EngineTypedStutter == ASSUME EngineTyped, UNCHANGED engineVars PROVE EngineTyped'
<1>1. UNCHANGED <<engine, installed, enabled, active, creds, extras, project, running, engineFaults>>
    BY DEF engineVars
<1>2. EngineMore'
    BY <1>1 DEF EngineTyped, EngineMore, EngineProject
<1> QED
    BY <1>2, EngineStutter DEF EngineTyped

(* What the invariant says of types.                                        *)
LEMMA EngineTypedShows == ASSUME EngineTyped PROVE Engine!TypeOK
BY DEF EngineTyped, EngineMore, Engine!TypeOK

-----------------------------------------------------------------------------
(* Runtimes. A version that is being installed has no marker yet, and when  *)
(* mise is done with it it is complete.                                     *)
RunTask == [op : {"none", "install", "uninstall"}, status : {"none", "running", "failed"},
            pc : {"none", "deps", "mise", "mark"}]
RunTypes == /\ dir \in [RunVers -> {"none", "part", "whole"}] /\ marker \subseteq RunVers
            /\ tasks \in [RunVers -> RunTask]
RunAbsent == \A v \in RunVers : tasks[v].op = "install" /\ tasks[v].pc # "none" => v \notin marker
RunBuilt == \A v \in RunVers : tasks[v].op = "install" /\ tasks[v].pc = "mark" => dir[v] = "whole"
RunInv == RunTypes /\ RunAbsent /\ RunBuilt /\ Run!MarkedIsWhole

(* The invariant holds at the start.                                        *)
LEMMA RunInit == Init => RunInv
BY DEF Init, Run!Init, Run!NoTask, RunInv, RunTypes, RunTask, RunAbsent, RunBuilt, Run!MarkedIsWhole

(* The task of a version ends.                                              *)
LEMMA RunEnds ==
    ASSUME RunTypes, NEW v \in RunVers, NEW ok \in BOOLEAN, Run!Ends(v, ok)
    PROVE  /\ tasks' \in [RunVers -> RunTask] /\ tasks'[v].pc = "none"
           /\ \A u \in RunVers : u # v => tasks'[u] = tasks[u]
<1> DEFINE new == IF ok THEN Run!NoTask ELSE [tasks[v] EXCEPT !.status = "failed", !.pc = "none"]
<1>1. tasks' = [tasks EXCEPT ![v] = new]
    BY DEF Run!Ends
<1>2. new \in RunTask /\ new.pc = "none"
    BY DEF RunTypes, RunTask, Run!NoTask
<1> HIDE DEF new
<1> QED
    BY <1>1, <1>2 DEF RunTypes

(* It goes on with its next step.                                           *)
LEMMA RunGoes ==
    ASSUME RunTypes, NEW v \in RunVers, NEW pc \in {"mise", "mark"}, Run!Goes(v, pc)
    PROVE  /\ tasks' \in [RunVers -> RunTask] /\ tasks'[v].pc = pc /\ tasks'[v].op = tasks[v].op
           /\ \A u \in RunVers : u # v => tasks'[u] = tasks[u]
<1> DEFINE new == [tasks[v] EXCEPT !.pc = pc]
<1>1. tasks' = [tasks EXCEPT ![v] = new]
    BY DEF Run!Goes
<1>2. new \in RunTask /\ new.pc = pc /\ new.op = tasks[v].op
    BY DEF RunTypes, RunTask
<1> HIDE DEF new
<1> QED
    BY <1>1, <1>2 DEF RunTypes

(* A step of one version: what has to be shown of it.                       *)
LEMMA RunOne ==
    ASSUME RunInv, NEW v \in RunVers, tasks' \in [RunVers -> RunTask],
           dir' \in [RunVers -> {"none", "part", "whole"}],
           marker' \subseteq RunVers,
           \A u \in RunVers : u # v => /\ tasks'[u] = tasks[u] /\ dir'[u] = dir[u]
                                       /\ (u \in marker' <=> u \in marker)
                                       /\ (u \in spoiled' <=> u \in spoiled),
           tasks'[v].op = "install" /\ tasks'[v].pc # "none" => v \notin marker',
           tasks'[v].op = "install" /\ tasks'[v].pc = "mark" => dir'[v] = "whole",
           v \in marker' => v \in spoiled' \/ dir'[v] = "whole"
    PROVE  RunInv'
BY DEF RunInv, RunTypes, RunAbsent, RunBuilt, Run!MarkedIsWhole

(* A task begins: an install only where there is no marker.                 *)
LEMMA RunStarts ==
    ASSUME RunInv, NEW v \in RunVers, NEW at, Run!Install(v, at) \/ Run!Uninstall(v, at)
    PROVE  RunInv'
<1>1. UNCHANGED <<dir, marker, spoiled>>
    BY DEF Run!Install, Run!Uninstall
<1>2. CASE UNCHANGED tasks
    BY <1>1, <1>2 DEF RunInv, RunTypes, RunAbsent, RunBuilt, Run!MarkedIsWhole
<1>3. CASE ~UNCHANGED tasks
  <2>1. \/ v \notin marker /\ Run!StartWithLog(v, "install", "deps")
        \/ Run!StartWithLog(v, "uninstall", "mise")
    BY <1>3 DEF Run!Install, Run!Uninstall, Run!Installed
  <2>2. /\ tasks' \in [RunVers -> RunTask] /\ (tasks'[v].op = "install" => v \notin marker)
        /\ tasks'[v].pc # "mark" /\ \A u \in RunVers : u # v => tasks'[u] = tasks[u]
    BY <2>1 DEF Run!StartWithLog, RunInv, RunTypes, RunTask
  <2> QED
    BY <1>1, <2>2, RunOne DEF RunInv, RunTypes, Run!MarkedIsWhole
<1> QED
    BY <1>2, <1>3

(* The build dependencies are installed, or that fails.                     *)
LEMMA RunDeps ==
    ASSUME RunInv, NEW v \in RunVers, NEW at, Run!ensureBuildDeps(v, at)
    PROVE  RunInv'
<1>1. /\ tasks[v].op = "install" /\ tasks[v].pc = "deps" /\ UNCHANGED <<dir, marker, spoiled>>
      /\ Run!Ends(v, FALSE) \/ Run!Goes(v, "mise")
    BY DEF Run!ensureBuildDeps, Run!Step
<1>2. /\ tasks' \in [RunVers -> RunTask] /\ tasks'[v].pc # "mark"
      /\ \A u \in RunVers : u # v => tasks'[u] = tasks[u]
    BY <1>1, RunEnds, RunGoes DEF RunInv
<1>3. v \notin marker
    BY <1>1 DEF RunInv, RunAbsent
<1> QED
    BY <1>1, <1>2, <1>3, RunOne DEF RunInv, RunTypes

(* mise builds the version, or fails after a part of it.                    *)
LEMMA RunBuilds ==
    ASSUME RunInv, NEW v \in RunVers, NEW at, Run!runInstallLike(v, at)
    PROVE  RunInv'
<1>1. /\ tasks[v].op = "install" /\ tasks[v].pc = "mise" /\ UNCHANGED <<marker, spoiled>>
      /\ \/ dir' = [dir EXCEPT ![v] = "part"] /\ Run!Ends(v, FALSE)
         \/ dir' = [dir EXCEPT ![v] = "whole"] /\ Run!Goes(v, "mark")
    BY DEF Run!runInstallLike, Run!Step
<1>2. /\ tasks' \in [RunVers -> RunTask] /\ \A u \in RunVers : u # v => tasks'[u] = tasks[u]
      /\ tasks'[v].pc = "mark" => dir' = [dir EXCEPT ![v] = "whole"]
    BY <1>1, RunEnds, RunGoes DEF RunInv
<1>3. v \notin marker
    BY <1>1 DEF RunInv, RunAbsent
<1>4. /\ dir' \in [RunVers -> {"none", "part", "whole"}]
      /\ \A u \in RunVers : u # v => dir'[u] = dir[u]
      /\ tasks'[v].pc = "mark" => dir'[v] = "whole"
    BY <1>1, <1>2 DEF RunInv, RunTypes
<1> QED
    BY <1>1, <1>2, <1>3, <1>4, RunOne DEF RunInv, RunTypes

(* The marker is written, or that fails.                                    *)
LEMMA RunMarks ==
    ASSUME RunInv, NEW v \in RunVers, NEW at, Run!installRuntime(v, at)
    PROVE  RunInv'
<1>1. /\ tasks[v].op = "install" /\ tasks[v].pc = "mark" /\ UNCHANGED dir
      /\ marker' \in {marker, marker \cup {v}} /\ spoiled' = spoiled \ {v}
      /\ Run!Ends(v, at = "none")
    BY DEF Run!installRuntime, Run!Step
<1>2. /\ tasks' \in [RunVers -> RunTask] /\ tasks'[v].pc = "none"
      /\ \A u \in RunVers : u # v => tasks'[u] = tasks[u]
    BY <1>1, RunEnds DEF RunInv
<1>3. dir[v] = "whole"
    BY <1>1 DEF RunInv, RunBuilt
<1> QED
    BY <1>1, <1>2, <1>3, RunOne DEF RunInv, RunTypes

(* The directory is removed, or a part of it.                               *)
LEMMA RunRemoves ==
    ASSUME RunInv, NEW v \in RunVers, NEW at, Run!uninstallRuntime(v, at)
    PROVE  RunInv'
<1>1. /\ tasks[v].op = "uninstall" /\ spoiled' = spoiled \cup {v}
      /\ \E d \in {"none", "part", "whole"} : dir' = [dir EXCEPT ![v] = d]
      /\ marker' \in {marker, marker \ {v}}
      /\ Run!Ends(v, FALSE) \/ Run!Goes(v, "mark")
    BY DEF Run!uninstallRuntime, Run!Step
<1>2. /\ tasks' \in [RunVers -> RunTask] /\ \A u \in RunVers : u # v => tasks'[u] = tasks[u]
      /\ tasks'[v].pc = "none" \/ tasks'[v].op = "uninstall"
    BY <1>1, RunEnds, RunGoes DEF RunInv
<1>3. /\ dir' \in [RunVers -> {"none", "part", "whole"}]
      /\ \A u \in RunVers : u # v => dir'[u] = dir[u]
    BY <1>1 DEF RunInv, RunTypes
<1> QED
    BY <1>1, <1>2, <1>3, RunOne DEF RunInv, RunTypes

(* The marker is removed.                                                   *)
LEMMA RunUnmarks ==
    ASSUME RunInv, NEW v \in RunVers, NEW at, Run!uninstallMarker(v, at)
    PROVE  RunInv'
<1>1. /\ UNCHANGED <<dir, spoiled>> /\ marker' \in {marker, marker \ {v}}
      /\ Run!Ends(v, at = "none")
    BY DEF Run!uninstallMarker
<1>2. /\ tasks' \in [RunVers -> RunTask] /\ tasks'[v].pc = "none"
      /\ \A u \in RunVers : u # v => tasks'[u] = tasks[u]
    BY <1>1, RunEnds DEF RunInv
<1> QED
    BY <1>1, <1>2, RunOne DEF RunInv, RunTypes, Run!MarkedIsWhole

(* The panel restarts: the tasks are forgotten.                             *)
LEMMA RunRestarts ==
    ASSUME RunInv, Run!PanelRestarts
    PROVE  RunInv'
<1>1. /\ tasks' = [v \in RunVers |-> Run!NoTask] /\ UNCHANGED <<marker, spoiled>>
      /\ dir' = [v \in RunVers |-> IF tasks[v].op = "install" /\ tasks[v].pc = "mise" THEN "part"
                                   ELSE dir[v]]
    BY DEF Run!PanelRestarts
<1>2. RunTypes'
    BY <1>1 DEF RunInv, RunTypes, RunTask, Run!NoTask
<1>3. \A v \in marker : dir'[v] = dir[v]
    BY <1>1 DEF RunInv, RunTypes, RunAbsent
<1> QED
    BY <1>1, <1>2, <1>3 DEF RunInv, RunTypes, RunAbsent, RunBuilt, Run!MarkedIsWhole, Run!NoTask

(* Steps that leave the versions and their tasks alone keep the invariant.  *)
LEMMA RunStutter == RunInv /\ UNCHANGED <<dir, marker, tasks, spoiled>> => RunInv'
BY DEF RunInv, RunTypes, RunAbsent, RunBuilt, Run!MarkedIsWhole

(* Every step of the runtimes keeps the invariant.                          *)
LEMMA RunStep == RunInv /\ Run!Next => RunInv'
<1> SUFFICES ASSUME RunInv, Run!Next PROVE RunInv'
    OBVIOUS
<1>1. CASE Run!PostInstall \/ Run!PostUninstall
    BY <1>1, RunStarts DEF Run!PostInstall, Run!PostUninstall
<1>2. CASE Run!PostMirror \/ Run!PutMirror \/ Run!DeleteMirror \/ Run!EditConf
    BY <1>2, RunStutter DEF Run!PostMirror, Run!PutMirror, Run!DeleteMirror, Run!EditConf,
       Run!Upsert, Run!Delete, Run!UpsertEnv, Run!DeleteEnv, Run!Mirror
<1>3. CASE \E v \in RunVers : Run!TaskStep(v)
    BY <1>3, RunDeps, RunBuilds, RunMarks, RunRemoves, RunUnmarks DEF Run!TaskStep
<1> QED
    BY <1>1, <1>2, <1>3, RunRestarts DEF Run!Next


(* Types. What was ever removed is a version, and the mirror is the only    *)
(* key the panel writes.                                                    *)
RunMore ==
    /\ spoiled \subseteq RunVers /\ env \subseteq {"mirror"} /\ conf \in {"ok", "bad"}
    /\ runFaults \in 0 .. RunMaxFaults
RunTyped == RunInv /\ RunMore

(* The bound on failures is a number.                                       *)
LEMMA RunNumbers == RunMaxFaults \in Nat
BY RunAssumption DEF Run!RunBounds

(* A failure stays within it.                                               *)
LEMMA RunCharged ==
    ASSUME RunMore, NEW at, Run!Charge(at)
    PROVE  runFaults' \in 0 .. RunMaxFaults
BY RunNumbers DEF RunMore, Run!Charge

(* The types hold at the start.                                             *)
LEMMA RunTypedInit == Init => RunTyped
BY RunInit, RunNumbers DEF Init, Run!Init, RunTyped, RunMore

(* The steps of a task.                                                     *)
LEMMA RunTasksTyped ==
    ASSUME RunMore, NEW v \in RunVers, Run!TaskStep(v)
    PROVE  RunMore'
<1>1. PICK at : Run!Charge(at) /\ UNCHANGED <<env, conf>>
                /\ spoiled' \in {spoiled, spoiled \ {v}, spoiled \cup {v}}
    BY DEF Run!TaskStep, Run!ensureBuildDeps, Run!runInstallLike, Run!installRuntime,
       Run!uninstallRuntime, Run!uninstallMarker, Run!Step
<1> QED
    BY <1>1, RunCharged DEF RunMore

(* Every step keeps the types.                                              *)
LEMMA RunTypedStep == ASSUME RunTyped, Run!Next PROVE RunTyped'
<1>1. CASE Run!PostInstall \/ Run!PostUninstall
  <2>1. PICK at : Run!Charge(at) /\ UNCHANGED <<spoiled, env, conf>>
      BY <1>1 DEF Run!PostInstall, Run!PostUninstall, Run!Install, Run!Uninstall
  <2> QED
      BY <2>1, RunStep, RunCharged DEF RunTyped, RunMore
<1>2. CASE Run!PostMirror \/ Run!PutMirror \/ Run!DeleteMirror
  <2>1. PICK ks, at : ks \in {env \cup {"mirror"}, env \ {"mirror"}} /\ Run!Mirror(ks, at)
      BY <1>2 DEF Run!PostMirror, Run!PutMirror, Run!DeleteMirror, Run!Upsert, Run!Delete,
         Run!UpsertEnv, Run!DeleteEnv
  <2>2. env' \subseteq {"mirror"} /\ Run!Charge(at) /\ UNCHANGED <<spoiled, conf>>
      BY <2>1 DEF Run!Mirror, RunTyped, RunMore
  <2> QED
      BY <2>2, RunStep, RunCharged DEF RunTyped, RunMore
<1>3. CASE Run!EditConf
    BY <1>3, RunStep DEF RunTyped, RunMore, Run!EditConf
<1>4. CASE \E v \in RunVers : Run!TaskStep(v)
    BY <1>4, RunStep, RunTasksTyped DEF RunTyped
<1>5. CASE Run!PanelRestarts
    BY <1>5, RunStep DEF RunTyped, RunMore, Run!PanelRestarts
<1> QED
    BY <1>1, <1>2, <1>3, <1>4, <1>5 DEF Run!Next

(* The types hold on while the part does nothing.                           *)
LEMMA RunTypedStutter == ASSUME RunTyped, UNCHANGED runVars PROVE RunTyped'
BY RunStutter DEF RunTyped, RunMore, runVars

(* What the invariant says of types.                                        *)
LEMMA RunTypedShows == ASSUME RunTyped PROVE Run!TypeOK
BY DEF RunTyped, RunMore, RunInv, RunTypes, RunTask, Run!TypeOK

-----------------------------------------------------------------------------
(* Packages. A package that was reported as installed is one of its         *)
(* manager; of pnpm, only while pnpm is found.                              *)
PkgTypes ==
    /\ own = [r \in Pkg!Runtimes |-> own[r]] /\ pnpm = [found |-> pnpm.found, pkgs |-> pnpm.pkgs]
    /\ done \subseteq Pkg!Targets
PkgHas(d) == IF d[2] = "pnpm" THEN pnpm.found /\ d[3] \in DOMAIN pnpm.pkgs
             ELSE d[3] \in DOMAIN own[d[1]]
PkgListed == \A d \in done : d[1] \in there /\ PkgHas(d)
PkgInv == PkgTypes /\ PkgListed

(* The invariant holds at the start.                                        *)
LEMMA PkgInit == Init => PkgInv
<1> SUFFICES ASSUME Init PROVE PkgInv
    OBVIOUS
<1>1. /\ own = [r \in Pkg!Runtimes |-> Pkg!NoPkgs] /\ done = {}
      /\ pnpm \in {[found |-> f, pkgs |-> Pkg!NoPkgs] : f \in BOOLEAN}
    BY DEF Init, Pkg!Init
<1> QED
    BY <1>1 DEF PkgInv, PkgTypes, PkgListed

(* A target is a runtime, a manager of it and a package.                    *)
LEMMA PkgTarget ==
    ASSUME NEW t \in Pkg!Targets
    PROVE  /\ t = <<t[1], t[2], t[3]>> /\ t[1] \in Pkg!Runtimes
           /\ t[2] \in {"npm", "pnpm", "pip"} /\ t[2] \in Pkg!Managers(t[1])
           /\ t[2] = "pip" <=> t[1] \notin Nodes
BY DEF Pkg!Targets, Pkg!Managers

(* What a command of a manager changes.                                     *)
LEMMA PkgCommand ==
    ASSUME PkgTypes, NEW r \in Pkg!Runtimes, NEW m, NEW pkgs, Pkg!runManagerCmd(r, m, pkgs)
    PROVE  /\ own' = [q \in Pkg!Runtimes |-> own'[q]]
           /\ pnpm' = [found |-> pnpm'.found, pkgs |-> pnpm'.pkgs]
           /\ m = "pnpm" => own' = own /\ pnpm'.found /\ pnpm'.pkgs = pkgs
           /\ m # "pnpm" => pnpm' = pnpm /\ own'[r] = pkgs
           /\ \A q \in Pkg!Runtimes : q # r => own'[q] = own[q]
BY DEF PkgTypes, Pkg!runManagerCmd

(* Nothing that was there goes.                                             *)
PkgGrows ==
    /\ own' = [r \in Pkg!Runtimes |-> own'[r]] /\ pnpm' = [found |-> pnpm'.found, pkgs |-> pnpm'.pkgs]
    /\ \A r \in Pkg!Runtimes : DOMAIN own[r] \subseteq DOMAIN own'[r]
    /\ (pnpm.found => pnpm'.found) /\ DOMAIN pnpm.pkgs \subseteq DOMAIN pnpm'.pkgs
    /\ there \subseteq there'

(* What was done and is still listed keeps the invariant.                   *)
LEMMA PkgKept ==
    ASSUME PkgInv, PkgGrows, NEW t \in Pkg!Targets, done' \subseteq done \cup {t},
           t \in done' => t[1] \in there' /\ PkgHas(t)'
    PROVE  PkgInv'
<1>1. \A d \in done : d[1] \in Pkg!Runtimes
    BY PkgTarget DEF PkgInv, PkgTypes
<1>2. \A d \in done : d[1] \in there' /\ PkgHas(d)'
    BY <1>1 DEF PkgInv, PkgListed, PkgHas, PkgGrows
<1>3. PkgTypes'
    BY DEF PkgInv, PkgTypes, PkgGrows
<1> QED
    BY <1>2, <1>3 DEF PkgInv, PkgListed

(* Package lists that only grow keep the invariant.                         *)
LEMMA PkgStays ==
    ASSUME PkgInv, PkgGrows, done' = done
    PROVE  PkgInv'
<1>1. CASE done = {}
    BY <1>1 DEF PkgInv, PkgTypes, PkgListed, PkgGrows
<1>2. CASE done # {}
  <2>1. PICK t \in done : TRUE
    BY <1>2
  <2>2. t \in Pkg!Targets
    BY DEF PkgInv, PkgTypes
  <2>3. t[1] \in there' /\ PkgHas(t)'
    BY <2>2, PkgTarget DEF PkgInv, PkgListed, PkgHas, PkgGrows
  <2> QED
    BY <2>2, <2>3, PkgKept
<1> QED
    BY <1>1, <1>2

(* The invariant holds on while lists and results do not change.            *)
LEMMA PkgSame == PkgInv /\ UNCHANGED <<there, own, pnpm, done>> => PkgInv'
BY PkgStays DEF PkgGrows, PkgInv, PkgTypes

(* A package is written under a manager's packages.                         *)
LEMMA PkgWrites ==
    ASSUME PkgInv, NEW t \in Pkg!Targets, NEW v, UNCHANGED there,
           Pkg!runManagerCmd(t[1], t[2], Pkg!With(Pkg!Of(t[1], t[2]), t[3], v))
    PROVE  PkgGrows /\ PkgHas(t)'
<1> DEFINE r == t[1]
           m == t[2]
           pkgs == Pkg!With(Pkg!Of(r, m), t[3], v)
<1>1. DOMAIN pkgs = DOMAIN Pkg!Of(r, m) \cup {t[3]}
    BY DEF Pkg!With
<1>2. r \in Pkg!Runtimes
    BY PkgTarget
<1>3. DOMAIN Pkg!Of(r, m) = IF m = "pnpm" THEN DOMAIN pnpm.pkgs ELSE DOMAIN own[r]
    BY DEF Pkg!Of
<1> HIDE DEF pkgs
<1>4. Pkg!runManagerCmd(r, m, pkgs)
    BY DEF pkgs
<1> HIDE DEF r, m
<1>5. /\ own' = [q \in Pkg!Runtimes |-> own'[q]]
      /\ pnpm' = [found |-> pnpm'.found, pkgs |-> pnpm'.pkgs]
      /\ m = "pnpm" => own' = own /\ pnpm'.found /\ pnpm'.pkgs = pkgs
      /\ m # "pnpm" => pnpm' = pnpm /\ own'[r] = pkgs
      /\ \A q \in Pkg!Runtimes : q # r => own'[q] = own[q]
    BY <1>2, <1>4, PkgCommand DEF PkgInv
<1>6. PkgGrows
    BY <1>1, <1>2, <1>3, <1>5 DEF PkgGrows
<1>7. PkgHas(t)'
    BY <1>1, <1>2, <1>5 DEF PkgHas, r, m
<1> QED
    BY <1>6, <1>7

(* InstallPackage, which may fail.                                          *)
LEMMA PkgInstalls ==
    ASSUME PkgInv, NEW t \in Pkg!Targets, NEW at, Pkg!InstallPackage(t[1], t[2], t[3], at)
    PROVE  PkgInv'
<1>1. t[1] \in there /\ UNCHANGED there
    BY DEF Pkg!InstallPackage, Pkg!Pkg
<1>2. \/ UNCHANGED <<own, pnpm, done>>
      \/ pnpm' = [pnpm EXCEPT !.found = @ \/ t[2] = "pnpm"] /\ UNCHANGED <<own, done>>
      \/ /\ Pkg!runManagerCmd(t[1], t[2], Pkg!With(Pkg!Of(t[1], t[2]), t[3], 1))
         /\ done' = done \cup {<<t[1], t[2], t[3]>>}
    BY DEF Pkg!InstallPackage, Pkg!installNpmPackage, Pkg!installPipPackage
<1>3. CASE UNCHANGED <<own, pnpm, done>>
    BY <1>1, <1>3, PkgSame
<1>4. CASE pnpm' = [pnpm EXCEPT !.found = @ \/ t[2] = "pnpm"] /\ UNCHANGED <<own, done>>
    BY <1>1, <1>4, PkgStays DEF PkgGrows, PkgInv, PkgTypes
<1>5. CASE /\ Pkg!runManagerCmd(t[1], t[2], Pkg!With(Pkg!Of(t[1], t[2]), t[3], 1))
           /\ done' = done \cup {<<t[1], t[2], t[3]>>}
  <2>1. PkgGrows /\ PkgHas(t)'
    BY <1>1, <1>5, PkgWrites
  <2>2. done' = done \cup {t}
    BY <1>5, PkgTarget
  <2> QED
    BY <1>1, <2>1, <2>2, PkgKept
<1> QED
    BY <1>2, <1>3, <1>4, <1>5

(* UpdatePackages, which may fail.                                          *)
LEMMA PkgUpdates ==
    ASSUME PkgInv, NEW t \in Pkg!Targets, NEW at, Pkg!UpdatePackage(t[1], t[2], t[3], at)
    PROVE  PkgInv'
<1>1. UNCHANGED <<there, done>>
    BY DEF Pkg!UpdatePackage, Pkg!Pkg, Pkg!updateNpmPackage, Pkg!updatePipPackage
<1>2. \/ UNCHANGED <<own, pnpm>>
      \/ Pkg!runManagerCmd(t[1], t[2], Pkg!With(Pkg!Of(t[1], t[2]), t[3], 2))
    BY DEF Pkg!UpdatePackage, Pkg!updateNpmPackage, Pkg!updatePipPackage
<1> QED
    BY <1>1, <1>2, PkgWrites, PkgStays, PkgSame

(* UninstallPackage: the package is no longer counted as installed.         *)
LEMMA PkgUninstalls ==
    ASSUME PkgInv, NEW t \in Pkg!Targets, NEW at, Pkg!UninstallPackage(t[1], t[2], t[3], at)
    PROVE  PkgInv'
<1> DEFINE r == t[1]
           m == t[2]
           p == t[3]
           pkgs == Pkg!Without(Pkg!Of(r, m), p)
<1>1. UNCHANGED there
    BY DEF Pkg!UninstallPackage, Pkg!Pkg
<1>2. CASE UNCHANGED <<own, pnpm, done>>
    BY <1>1, <1>2, PkgSame
<1>3. CASE ~UNCHANGED <<own, pnpm, done>>
  <2>1. Pkg!runManagerCmd(r, m, pkgs)
    BY <1>3 DEF Pkg!UninstallPackage, Pkg!uninstallNpmPackage, Pkg!uninstallPipPackage
  <2>2. done' = done \ {<<r, m, p>>} \/ done' = {d \in done : ~(d[2] = m /\ d[3] = p /\ (m = "pnpm" \/ d[1] = r))}
    BY <1>3 DEF Pkg!UninstallPackage, Pkg!uninstallNpmPackage, Pkg!uninstallPipPackage
  <2>3. m = "pip" => done' = done \ {<<r, m, p>>}
    BY <1>3 DEF Pkg!UninstallPackage, Pkg!uninstallPipPackage
  <2>4. m # "pip" => done' = {d \in done : ~(d[2] = m /\ d[3] = p /\ (m = "pnpm" \/ d[1] = r))}
    BY <1>3 DEF Pkg!UninstallPackage, Pkg!uninstallNpmPackage
  <2>5. /\ r \in Pkg!Runtimes /\ m \in {"npm", "pnpm", "pip"} /\ (m = "pip" <=> r \notin Nodes)
    BY PkgTarget
  <2>6. DOMAIN pkgs = (IF m = "pnpm" THEN DOMAIN pnpm.pkgs ELSE DOMAIN own[r]) \ {p}
    BY DEF Pkg!Without, Pkg!Of
  <2> HIDE DEF pkgs, r, m, p
  <2>7. /\ own' = [q \in Pkg!Runtimes |-> own'[q]]
        /\ pnpm' = [found |-> pnpm'.found, pkgs |-> pnpm'.pkgs]
        /\ m = "pnpm" => own' = own /\ pnpm'.found /\ pnpm'.pkgs = pkgs
        /\ m # "pnpm" => pnpm' = pnpm /\ own'[r] = pkgs
        /\ \A q \in Pkg!Runtimes : q # r => own'[q] = own[q]
    BY <2>1, <2>5, PkgCommand DEF PkgInv
  <2>8. done' \subseteq done
    BY <2>2
  <2>9. ASSUME NEW d \in done' PROVE d[1] \in there /\ PkgHas(d)'
    <3>1. /\ d = <<d[1], d[2], d[3]>> /\ d[1] \in Pkg!Runtimes /\ d[2] \in {"npm", "pnpm", "pip"}
          /\ (d[2] = "pip" <=> d[1] \notin Nodes)
        BY <2>8, PkgTarget DEF PkgInv, PkgTypes
    <3>2. d[1] \in there /\ PkgHas(d)
        BY <2>8 DEF PkgInv, PkgListed
    <3>3. d[2] = m /\ (m = "pnpm" \/ d[1] = r) => d[3] # p
      <4>1. CASE m = "pip"
        BY <2>3, <3>1, <4>1
      <4>2. CASE m # "pip"
        BY <2>4, <4>2
      <4> QED
        BY <4>1, <4>2
    <3>4. d[1] = r => (d[2] = "pnpm" <=> m = "pnpm") \/ d[2] # m
        OBVIOUS
    <3>5. CASE d[2] = "pnpm"
        BY <2>6, <2>7, <3>2, <3>3, <3>5 DEF PkgHas
    <3>6. CASE d[2] # "pnpm" /\ d[1] = r /\ m # "pnpm"
      <4>1. d[2] = m
        BY <2>5, <3>1, <3>6
      <4> QED
        BY <2>6, <2>7, <3>2, <3>3, <3>6, <4>1 DEF PkgHas
    <3>7. CASE d[2] # "pnpm" /\ ~(d[1] = r /\ m # "pnpm")
        BY <2>7, <3>1, <3>2, <3>7 DEF PkgHas
    <3> QED
        BY <3>5, <3>6, <3>7
  <2>10. PkgTypes'
    BY <2>7, <2>8 DEF PkgInv, PkgTypes
  <2> QED
    BY <1>1, <2>9, <2>10 DEF PkgInv, PkgListed
<1> QED
    BY <1>2, <1>3

(* A runtime is removed with the packages it had; those of the others stay. *)
LEMMA PkgRuntimeGoes ==
    ASSUME PkgInv, NEW r \in Pkg!Runtimes, Pkg!RuntimeRemoved(r)
    PROVE  PkgInv'
<1>1. /\ there' = there \ {r} /\ own' = [own EXCEPT ![r] = Pkg!NoPkgs]
      /\ done' = {d \in done : d[1] # r /\ (pnpm'.found \/ d[2] # "pnpm")}
    BY DEF Pkg!RuntimeRemoved
<1>2. pnpm' = pnpm \/ pnpm' = [pnpm EXCEPT !.found = FALSE]
    BY DEF Pkg!RuntimeRemoved
<1>3. pnpm' = [found |-> pnpm'.found, pkgs |-> pnpm'.pkgs] /\ pnpm'.pkgs = pnpm.pkgs
    BY <1>2 DEF PkgInv, PkgTypes
<1>4. own' = [q \in Pkg!Runtimes |-> own'[q]] /\ \A q \in Pkg!Runtimes : q # r => own'[q] = own[q]
    BY <1>1 DEF PkgInv, PkgTypes
<1>5. PkgTypes'
    BY <1>1, <1>3, <1>4 DEF PkgInv, PkgTypes
<1>6. ASSUME NEW d \in done' PROVE d[1] \in there' /\ PkgHas(d)'
  <2>1. d \in done /\ d[1] # r /\ (d[2] = "pnpm" => pnpm'.found)
    BY <1>1
  <2>2. d[1] \in Pkg!Runtimes
    BY <2>1, PkgTarget DEF PkgInv, PkgTypes
  <2>3. d[1] \in there /\ PkgHas(d)
    BY <2>1 DEF PkgInv, PkgListed
  <2> QED
    BY <1>1, <1>3, <1>4, <2>1, <2>2, <2>3 DEF PkgHas
<1> QED
    BY <1>5, <1>6 DEF PkgInv, PkgListed

(* Every step of the packages keeps the invariant.                          *)
LEMMA PkgStep == PkgInv /\ Pkg!Next => PkgInv'
<1> SUFFICES ASSUME PkgInv, Pkg!Next PROVE PkgInv'
    OBVIOUS
<1>1. CASE Pkg!PostPackage
    BY <1>1, PkgInstalls DEF Pkg!PostPackage
<1>2. CASE Pkg!PostRemove
    BY <1>2, PkgUninstalls DEF Pkg!PostRemove
<1>3. CASE Pkg!PostUpdate
    BY <1>3, PkgUpdates DEF Pkg!PostUpdate
<1>4. CASE Pkg!PostRegistry
    BY <1>4, PkgSame DEF Pkg!PostRegistry, Pkg!SetRegistry
<1>5. CASE \E r \in Pkg!Runtimes : Pkg!RuntimeInstalled(r)
    BY <1>5, PkgStays DEF Pkg!RuntimeInstalled, PkgGrows, PkgInv, PkgTypes
<1>6. CASE \E r \in Pkg!Runtimes : Pkg!RuntimeRemoved(r)
    BY <1>6, PkgRuntimeGoes
<1> QED
    BY <1>1, <1>2, <1>3, <1>4, <1>5, <1>6 DEF Pkg!Next

(* The invariant holds on while the part does nothing.                      *)
LEMMA PkgStutter == PkgInv /\ UNCHANGED pkgVars => PkgInv'
BY PkgSame DEF pkgVars

(* What the invariant says of the lists that the panel shows.               *)
LEMMA PkgShows == PkgInv => Pkg!InstalledIsListed
<1> SUFFICES ASSUME PkgInv, NEW d \in done
             PROVE  d[1] \in there /\ <<d[2], d[3]>> \in Pkg!ListPackages(d[1])
    BY DEF Pkg!InstalledIsListed
<1>1. /\ d[2] \in {"npm", "pnpm", "pip"} /\ (d[2] = "pip" <=> d[1] \notin Nodes)
    BY PkgTarget DEF PkgInv, PkgTypes
<1>2. d[1] \in there /\ PkgHas(d)
    BY DEF PkgInv, PkgListed
<1> QED
    BY <1>1, <1>2 DEF PkgHas, Pkg!ListPackages, Pkg!scanNodePackages, Pkg!scanNpmPackages,
       Pkg!scanPnpmPackages, Pkg!scanPipPackages


(* Types. Lists are of packages, and of runtimes.                           *)
PkgMore ==
    /\ there \subseteq Pkg!Runtimes /\ pkgFaults \in 0 .. PkgMaxFaults
    /\ \A r \in Pkg!Runtimes : DOMAIN own[r] \subseteq Pkgs
    /\ DOMAIN pnpm.pkgs \subseteq Pkgs
PkgTyped == PkgInv /\ PkgMore

(* The bound on failures is a number.                                       *)
LEMMA PkgNumbers == PkgMaxFaults \in Nat
BY PkgAssumption DEF Pkg!PkgBounds

(* A failure stays within it.                                               *)
LEMMA PkgCharged ==
    ASSUME PkgMore, NEW at, Pkg!Charge(at)
    PROVE  pkgFaults' \in 0 .. PkgMaxFaults
BY PkgNumbers DEF PkgMore, Pkg!Charge

(* The types hold at the start.                                             *)
LEMMA PkgTypedInit == Init => PkgTyped
<1> SUFFICES ASSUME Init PROVE PkgMore
    BY PkgInit DEF PkgTyped
<1>1. /\ there = {} /\ own = [r \in Pkg!Runtimes |-> Pkg!NoPkgs] /\ pkgFaults = 0
      /\ \E f \in BOOLEAN : pnpm = [found |-> f, pkgs |-> Pkg!NoPkgs]
    BY DEF Init, Pkg!Init
<1>2. DOMAIN Pkg!NoPkgs = {}
    BY DEF Pkg!NoPkgs
<1>3. pnpm.pkgs = Pkg!NoPkgs
    BY <1>1
<1> QED
    BY <1>1, <1>2, <1>3, PkgNumbers DEF PkgMore

(* A command of a package manager changes the list of a runtime.            *)
LEMMA PkgListsTyped ==
    ASSUME PkgTyped, NEW r \in Pkg!Runtimes, NEW m, NEW pkgs, DOMAIN pkgs \subseteq Pkgs,
           Pkg!runManagerCmd(r, m, pkgs), UNCHANGED there, pkgFaults' \in 0 .. PkgMaxFaults
    PROVE  PkgMore'
<1>1. /\ m = "pnpm" => own' = own /\ pnpm'.pkgs = pkgs
      /\ m # "pnpm" => pnpm' = pnpm /\ own'[r] = pkgs
      /\ \A q \in Pkg!Runtimes : q # r => own'[q] = own[q]
    BY PkgCommand DEF PkgTyped, PkgInv
<1> QED
    BY <1>1 DEF PkgTyped, PkgMore

(* A list with one package more or less is one of packages.                 *)
LEMMA PkgOfTyped ==
    ASSUME PkgMore, NEW t \in Pkg!Targets, NEW v
    PROVE  /\ DOMAIN Pkg!With(Pkg!Of(t[1], t[2]), t[3], v) \subseteq Pkgs
           /\ DOMAIN Pkg!Without(Pkg!Of(t[1], t[2]), t[3]) \subseteq Pkgs
           /\ t[1] \in Pkg!Runtimes
<1>1. t[1] \in Pkg!Runtimes /\ t[3] \in Pkgs
    BY DEF Pkg!Targets
<1>2. DOMAIN Pkg!Of(t[1], t[2]) \subseteq Pkgs
    BY <1>1 DEF Pkg!Of, PkgMore
<1> QED
    BY <1>1, <1>2 DEF Pkg!With, Pkg!Without

(* The types hold on while the lists do not change.                         *)
LEMMA PkgSameTyped ==
    ASSUME PkgMore, there' \subseteq Pkg!Runtimes, UNCHANGED own, pnpm'.pkgs = pnpm.pkgs,
           pkgFaults' \in 0 .. PkgMaxFaults
    PROVE  PkgMore'
BY DEF PkgMore

(* Every step keeps the types.                                              *)
LEMMA PkgTypedStep == ASSUME PkgTyped, Pkg!Next PROVE PkgTyped'
<1>0. there \subseteq Pkg!Runtimes /\ pkgFaults \in 0 .. PkgMaxFaults
    BY DEF PkgTyped, PkgMore
<1>1. CASE Pkg!PostPackage
  <2>1. PICK t \in Pkg!Targets : \E at : Pkg!InstallPackage(t[1], t[2], t[3], at)
      BY <1>1 DEF Pkg!PostPackage
  <2>2. PICK at :
        /\ Pkg!Charge(at) /\ UNCHANGED there
        /\ \/ UNCHANGED <<own, pnpm>>
           \/ pnpm' = [pnpm EXCEPT !.found = @ \/ t[2] = "pnpm"] /\ UNCHANGED own
           \/ Pkg!runManagerCmd(t[1], t[2], Pkg!With(Pkg!Of(t[1], t[2]), t[3], 1))
      BY <2>1 DEF Pkg!InstallPackage, Pkg!installPipPackage, Pkg!installNpmPackage, Pkg!Pkg
  <2>3. pkgFaults' \in 0 .. PkgMaxFaults
      BY <2>2, PkgCharged DEF PkgTyped
  <2>4. CASE UNCHANGED <<own, pnpm>>
      BY <1>0, <2>2, <2>3, <2>4, PkgSameTyped, PkgStep DEF PkgTyped
  <2>5. CASE pnpm' = [pnpm EXCEPT !.found = @ \/ t[2] = "pnpm"] /\ UNCHANGED own
    <3>1. pnpm'.pkgs = pnpm.pkgs
        BY <2>5 DEF PkgTyped, PkgInv, PkgTypes
    <3> QED
        BY <1>0, <2>2, <2>3, <2>5, <3>1, PkgSameTyped, PkgStep DEF PkgTyped
  <2>6. CASE Pkg!runManagerCmd(t[1], t[2], Pkg!With(Pkg!Of(t[1], t[2]), t[3], 1))
      BY <2>2, <2>3, <2>6, PkgOfTyped, PkgListsTyped, PkgStep DEF PkgTyped
  <2> QED
      BY <2>2, <2>4, <2>5, <2>6
<1>2. CASE Pkg!PostRemove
  <2>1. PICK t \in Pkg!Targets : \E at : Pkg!UninstallPackage(t[1], t[2], t[3], at)
      BY <1>2 DEF Pkg!PostRemove
  <2>2. PICK at :
        /\ Pkg!Charge(at) /\ UNCHANGED there
        /\ \/ UNCHANGED <<own, pnpm>>
           \/ Pkg!runManagerCmd(t[1], t[2], Pkg!Without(Pkg!Of(t[1], t[2]), t[3]))
      BY <2>1 DEF Pkg!UninstallPackage, Pkg!uninstallPipPackage, Pkg!uninstallNpmPackage, Pkg!Pkg
  <2>3. pkgFaults' \in 0 .. PkgMaxFaults
      BY <2>2, PkgCharged DEF PkgTyped
  <2> QED
      BY <1>0, <2>2, <2>3, PkgSameTyped, PkgOfTyped, PkgListsTyped, PkgStep DEF PkgTyped
<1>3. CASE Pkg!PostUpdate
  <2>1. PICK t \in Pkg!Targets : \E at : Pkg!UpdatePackage(t[1], t[2], t[3], at)
      BY <1>3 DEF Pkg!PostUpdate
  <2>2. PICK at :
        /\ Pkg!Charge(at) /\ UNCHANGED there
        /\ \/ UNCHANGED <<own, pnpm>>
           \/ Pkg!runManagerCmd(t[1], t[2], Pkg!With(Pkg!Of(t[1], t[2]), t[3], 2))
      BY <2>1 DEF Pkg!UpdatePackage, Pkg!updatePipPackage, Pkg!updateNpmPackage, Pkg!Pkg
  <2>3. pkgFaults' \in 0 .. PkgMaxFaults
      BY <2>2, PkgCharged DEF PkgTyped
  <2> QED
      BY <1>0, <2>2, <2>3, PkgSameTyped, PkgOfTyped, PkgListsTyped, PkgStep DEF PkgTyped
<1>4. CASE Pkg!PostRegistry
  <2>1. PICK at : Pkg!Charge(at) /\ UNCHANGED <<there, own, pnpm>>
      BY <1>4 DEF Pkg!PostRegistry, Pkg!SetRegistry
  <2> QED
      BY <1>0, <2>1, PkgCharged, PkgSameTyped, PkgStep DEF PkgTyped
<1>5. CASE \E r \in Pkg!Runtimes : Pkg!RuntimeInstalled(r)
    BY <1>0, <1>5, PkgSameTyped, PkgStep DEF PkgTyped, Pkg!RuntimeInstalled
<1>6. CASE \E r \in Pkg!Runtimes : Pkg!RuntimeRemoved(r)
  <2>1. PICK r \in Pkg!Runtimes : Pkg!RuntimeRemoved(r)
      BY <1>6
  <2>2. /\ there' = there \ {r} /\ own' = [own EXCEPT ![r] = Pkg!NoPkgs] /\ UNCHANGED pkgFaults
        /\ pnpm' = pnpm \/ pnpm' = [pnpm EXCEPT !.found = FALSE]
      BY <2>1 DEF Pkg!RuntimeRemoved
  <2>3. pnpm'.pkgs = pnpm.pkgs
      BY <2>2 DEF PkgTyped, PkgInv, PkgTypes
  <2>4. \A q \in Pkg!Runtimes : own'[q] = own[q] \/ own'[q] = Pkg!NoPkgs
      BY <2>2 DEF PkgTyped, PkgInv, PkgTypes
  <2>5. DOMAIN Pkg!NoPkgs = {}
      BY DEF Pkg!NoPkgs
  <2>6. PkgMore'
      BY <2>2, <2>3, <2>4, <2>5 DEF PkgTyped, PkgMore
  <2> QED
      BY <2>6, PkgStep DEF PkgTyped
<1> QED
    BY <1>1, <1>2, <1>3, <1>4, <1>5, <1>6 DEF Pkg!Next

(* The types hold on while the part does nothing.                           *)
LEMMA PkgTypedStutter == ASSUME PkgTyped, UNCHANGED pkgVars PROVE PkgTyped'
BY PkgStutter DEF PkgTyped, PkgMore, pkgVars

(* What the invariant says of types.                                        *)
LEMMA PkgTypedShows == ASSUME PkgTyped PROVE Pkg!TypeOK
BY DEF PkgTyped, PkgMore, PkgInv, PkgTypes, Pkg!TypeOK

-----------------------------------------------------------------------------
(* Alerts. Below its threshold a rule's state is fresh, unless the rules    *)
(* were just replaced; above it, it counts from the rise, and a rule that   *)
(* has fired since has its cooldown from then.                              *)
AlTypes ==
    /\ alertRules \in RuleLists /\ clock \in Nat /\ clock <= MaxClock /\ edited \in 0..clock
    /\ states \in [Alert!Ids -> [first : 0..clock, triggered : BOOLEAN]]
    /\ cooldowns \in [Alert!Ids -> 0..clock]
    /\ rows \subseteq [rule : Metrics, at : 1..clock, read : BOOLEAN]
    /\ rose \in [Metrics -> 0..clock]
AlFresh ==
    \A i \in DOMAIN alertRules :
        rose[alertRules[i]] = 0 /\ edited < clock => states[i] = Alert!Fresh
AlRose ==
    \A i \in DOMAIN alertRules :
        LET since == rose[alertRules[i]]
        IN since # 0 /\ edited + 1 < since =>
               states[i].first = since /\ (states[i].triggered => cooldowns[i] >= since)
AlLate(i) ==
    /\ rose[alertRules[i]] # 0 /\ edited + 1 < rose[alertRules[i]]
    /\ clock - rose[alertRules[i]] >= Duration[alertRules[i]] + Cooldown
    => cooldowns[i] >= rose[alertRules[i]]
AlSustained == \A i \in DOMAIN alertRules : AlLate(i)
AlInv == AlTypes /\ AlFresh /\ AlRose /\ AlSustained /\ Alert!OnePerHour

(* The bounds are numbers.                                                  *)
LEMMA AlNumbers ==
    /\ MaxRules \in Nat /\ Cooldown \in Nat /\ Hour \in Nat /\ MaxClock \in Nat
    /\ Duration \in [Metrics -> Nat]
    /\ \A l \in RuleLists : /\ DOMAIN l \subseteq Alert!Ids /\ \A i \in DOMAIN l : l[i] \in Metrics
                            /\ DOMAIN l = 1..Len(l) /\ Len(l) \in Nat
<1>1. /\ {MaxRules, Cooldown, Hour, MaxClock} \subseteq Nat /\ Duration \in [Metrics -> Nat]
      /\ \A l \in RuleLists : l \in Seq(Metrics) /\ Len(l) <= MaxRules
    BY AlertAssumption DEF Alert!AlertBounds
<1> QED
    BY <1>1 DEF Alert!Ids

(* The invariant holds at the start.                                        *)
LEMMA AlInit == Init => AlInv
<1> SUFFICES ASSUME Init PROVE AlInv
    OBVIOUS
<1>1. /\ alertRules \in RuleLists /\ states = [i \in Alert!Ids |-> Alert!Fresh]
      /\ cooldowns = [i \in Alert!Ids |-> 0] /\ rows = {} /\ clock = 0 /\ edited = 0
      /\ rose = [m \in Metrics |-> 0]
    BY DEF Init, Alert!Init
<1>2. AlTypes
    BY <1>1, AlNumbers DEF AlTypes, Alert!Fresh
<1> QED
    BY <1>1, <1>2, AlNumbers
    DEF AlInv, AlFresh, AlRose, AlSustained, AlLate, Alert!OnePerHour

(* What a point makes of a rule.                                            *)
LEMMA AlRule ==
    ASSUME AlInv, NEW high \in SUBSET Metrics, Alert!Evaluate(high), NEW i \in DOMAIN alertRules
    PROVE  /\ i \in Alert!Ids /\ alertRules[i] \in Metrics
           /\ states'[i] = Alert!NewState(i, high)
           /\ cooldowns'[i] = IF Alert!Fires(i, high) THEN clock + 1 ELSE cooldowns[i]
           /\ rose'[alertRules[i]] = IF alertRules[i] \notin high THEN 0
                                     ELSE IF rose[alertRules[i]] = 0 THEN clock + 1
                                     ELSE rose[alertRules[i]]
<1>1. i \in Alert!Ids /\ alertRules[i] \in Metrics
    BY AlNumbers DEF AlInv, AlTypes
<1> QED
    BY <1>1 DEF Alert!Evaluate

(* The rules of a list have indices among the ids.                          *)
LEMMA AlSizes ==
    ASSUME AlInv
    PROVE  /\ clock \in Nat /\ edited \in Nat /\ edited <= clock
           /\ \A i \in DOMAIN alertRules :
                /\ i \in Alert!Ids /\ alertRules[i] \in Metrics
                /\ states[i].first \in Nat /\ states[i].first <= clock
                /\ states[i].triggered \in BOOLEAN
                /\ cooldowns[i] \in Nat /\ cooldowns[i] <= clock
                /\ rose[alertRules[i]] \in Nat /\ rose[alertRules[i]] <= clock
<1>1. \A i \in DOMAIN alertRules : i \in Alert!Ids /\ alertRules[i] \in Metrics
    BY AlNumbers DEF AlInv, AlTypes
<1> QED
    BY <1>1 DEF AlInv, AlTypes

(* Evaluate: a tick of the monitor.                                         *)
LEMMA AlEvaluates ==
    ASSUME AlInv, NEW high \in SUBSET Metrics, Alert!Evaluate(high)
    PROVE  AlInv'
<1> DEFINE firing == {i \in DOMAIN alertRules : Alert!Fires(i, high)}
           made == {[rule |-> n, at |-> clock + 1, read |-> FALSE] :
                        n \in Alert!CreateIfNotExists({alertRules[i] : i \in firing})}
<1>1. /\ clock' = clock + 1 /\ UNCHANGED <<alertRules, edited>>
      /\ states' = [i \in Alert!Ids |-> IF i \in DOMAIN alertRules THEN Alert!NewState(i, high)
                                        ELSE states[i]]
      /\ cooldowns' = [i \in Alert!Ids |-> IF i \in firing THEN clock + 1 ELSE cooldowns[i]]
      /\ rose' = [m \in Metrics |-> IF m \notin high THEN 0
                                    ELSE IF rose[m] = 0 THEN clock + 1 ELSE rose[m]]
    BY DEF Alert!Evaluate
<1>2. rows' = rows \cup made
    BY DEF Alert!Evaluate, Alert!sendAlert
<1>3. /\ clock \in Nat /\ edited \in Nat /\ edited <= clock
      /\ \A i \in DOMAIN alertRules :
           /\ i \in Alert!Ids /\ alertRules[i] \in Metrics
           /\ states[i].first \in Nat /\ states[i].first <= clock
           /\ states[i].triggered \in BOOLEAN
           /\ cooldowns[i] \in Nat /\ cooldowns[i] <= clock
           /\ rose[alertRules[i]] \in Nat /\ rose[alertRules[i]] <= clock
    BY AlSizes
<1>4. \A r \in made : /\ r \in [rule : Metrics, at : 1..(clock + 1), read : BOOLEAN]
                      /\ r.at = clock + 1
                      /\ \A q \in rows : q.rule = r.rule => ~(q.at > clock + 1 - Hour)
  <2>1. {alertRules[i] : i \in firing} \subseteq Metrics
    BY <1>3
  <2>2. ASSUME NEW r \in made
        PROVE  /\ r \in [rule : Metrics, at : 1..(clock + 1), read : BOOLEAN]
               /\ r.at = clock + 1
               /\ \A q \in rows : q.rule = r.rule => ~(q.at > clock + 1 - Hour)
    <3>1. PICK n \in Alert!CreateIfNotExists({alertRules[i] : i \in firing}) :
              r = [rule |-> n, at |-> clock + 1, read |-> FALSE]
        OBVIOUS
    <3>2. n \in Metrics /\ ~\E q \in rows : q.rule = n /\ q.at > clock + 1 - Hour
        BY <2>1 DEF Alert!CreateIfNotExists
    <3>3. clock + 1 \in 1..(clock + 1)
        BY <1>3
    <3> QED
        BY <3>1, <3>2, <3>3
  <2> QED
    BY <2>2
<1> HIDE DEF made
<1>5. AlTypes'
  <2>1. \A i \in DOMAIN alertRules :
            Alert!NewState(i, high) \in [first : 0..(clock + 1), triggered : BOOLEAN]
    BY <1>3 DEF Alert!NewState, Alert!FirstAbove, Alert!Fresh, Alert!Fires
  <2>2. states' \in [Alert!Ids -> [first : 0..(clock + 1), triggered : BOOLEAN]]
    BY <1>1, <1>3, <2>1 DEF AlInv, AlTypes
  <2>3. cooldowns' \in [Alert!Ids -> 0..(clock + 1)] /\ rose' \in [Metrics -> 0..(clock + 1)]
    BY <1>1, <1>3 DEF AlInv, AlTypes
  <2>4. rows' \subseteq [rule : Metrics, at : 1..(clock + 1), read : BOOLEAN]
    BY <1>2, <1>3, <1>4 DEF AlInv, AlTypes
  <2>5. alertRules' \in RuleLists /\ clock' = clock + 1 /\ edited' \in 0..clock'
    BY <1>1, <1>3 DEF AlInv, AlTypes
  <2>6. clock' \in Nat /\ clock' <= MaxClock
    BY <1>3, <2>5, AlNumbers DEF Alert!Evaluate
  <2> QED
    BY <2>2, <2>3, <2>4, <2>5, <2>6 DEF AlTypes
<1> HIDE DEF firing
<1>6. ASSUME NEW i \in DOMAIN alertRules
      PROVE  /\ rose'[alertRules[i]] = 0 /\ edited < clock + 1 => states'[i] = Alert!Fresh
             /\ rose'[alertRules[i]] # 0 /\ edited + 1 < rose'[alertRules[i]] =>
                  /\ states'[i].first = rose'[alertRules[i]]
                  /\ states'[i].triggered => cooldowns'[i] >= rose'[alertRules[i]]
                  /\ clock' - rose'[alertRules[i]] >= Duration[alertRules[i]] + Cooldown =>
                       cooldowns'[i] >= rose'[alertRules[i]]
  <2> DEFINE m == alertRules[i]
             s == states[i]
             c == cooldowns[i]
             d == Duration[m]
  <2>1. /\ i \in Alert!Ids /\ m \in Metrics
        /\ states'[i] = Alert!NewState(i, high)
        /\ cooldowns'[i] = IF Alert!Fires(i, high) THEN clock + 1 ELSE c
        /\ rose'[m] = IF m \notin high THEN 0 ELSE IF rose[m] = 0 THEN clock + 1 ELSE rose[m]
    BY AlRule
  <2>2. /\ s.first \in Nat /\ s.first <= clock /\ s.triggered \in BOOLEAN
        /\ c \in Nat /\ c <= clock /\ rose[m] \in Nat /\ rose[m] <= clock
    BY <1>3
  <2>3. d \in Nat /\ Cooldown \in Nat
    BY <2>1, AlNumbers
  <2>4. /\ rose[m] = 0 /\ edited < clock => s.first = 0 /\ ~s.triggered
        /\ rose[m] # 0 /\ edited + 1 < rose[m] =>
             /\ s.first = rose[m] /\ (s.triggered => c >= rose[m])
             /\ clock - rose[m] >= d + Cooldown => c >= rose[m]
    BY DEF AlInv, AlFresh, AlRose, AlSustained, AlLate, Alert!Fresh
  <2>5. m \notin high => states'[i] = Alert!Fresh
    BY <2>1 DEF Alert!NewState
  <2>6. m \in high => /\ states'[i].first = (IF s.first = 0 THEN clock + 1 ELSE s.first)
                      /\ states'[i].triggered = (s.triggered \/ Alert!Fires(i, high))
    BY <2>1 DEF Alert!NewState, Alert!FirstAbove
  <2>7. Alert!Fires(i, high) <=>
            /\ m \in high /\ ~s.triggered
            /\ clock + 1 - (IF s.first = 0 THEN clock + 1 ELSE s.first) >= d
            /\ c = 0 \/ clock + 1 - c >= Cooldown
    BY DEF Alert!Fires, Alert!FirstAbove
  <2> HIDE DEF m, s, c, d
  <2>8. CASE m \notin high
    BY <2>1, <2>5, <2>8 DEF m
  <2>9. clock' = clock + 1
    BY <1>1
  <2>10. CASE m \in high /\ rose[m] = 0
    BY <1>3, <2>1, <2>2, <2>3, <2>4, <2>6, <2>7, <2>10, <2>9 DEF m, d
  <2>11. CASE m \in high /\ rose[m] # 0
    BY <1>3, <2>1, <2>2, <2>3, <2>4, <2>6, <2>7, <2>11, <2>9 DEF m, d
  <2> QED
    BY <2>8, <2>10, <2>11
<1>7. AlFresh' /\ AlRose' /\ AlSustained'
  <2>1. clock' = clock + 1 /\ UNCHANGED <<alertRules, edited>>
    BY <1>1
  <2>2. AlFresh'
    BY <1>6, <2>1 DEF AlFresh, Alert!Fresh
  <2>3. AlRose'
    BY ONLY <1>6, <2>1 DEF AlRose
  <2>4. AlSustained'
    <3> SUFFICES ASSUME NEW i \in DOMAIN alertRules' PROVE AlLate(i)'
        BY DEF AlSustained
    <3>1. alertRules' = alertRules /\ edited' = edited /\ clock' = clock + 1
        BY <2>1
    <3>2. /\ rose'[alertRules[i]] # 0 /\ edited + 1 < rose'[alertRules[i]]
          /\ clock' - rose'[alertRules[i]] >= Duration[alertRules[i]] + Cooldown
          => cooldowns'[i] >= rose'[alertRules[i]]
        BY <1>6, <3>1
    <3>3. alertRules' = alertRules /\ edited' = edited
        BY <3>1
    <3> QED
        BY ONLY <3>2, <3>3 DEF AlLate
  <2> QED
    BY <2>2, <2>3, <2>4
<1>8. Alert!OnePerHour'
  <2> SUFFICES ASSUME NEW q \in rows', NEW r \in rows', q.rule = r.rule, q.at < r.at
               PROVE  r.at - q.at >= Hour
    BY DEF Alert!OnePerHour
  <2>1. /\ \A x \in rows : x.at \in 1..clock
        /\ \A x, y \in rows : x.rule = y.rule /\ x.at < y.at => y.at - x.at >= Hour
    BY DEF AlInv, AlTypes, Alert!OnePerHour
  <2>2. Hour \in Nat
    BY AlNumbers
  <2>3. CASE r \in made
    <3>1. q \in rows
        BY <1>2, <1>3, <1>4, <2>3
    <3>2. ~(q.at > clock + 1 - Hour) /\ r.at = clock + 1 /\ q.at \in 1..clock
        BY <1>4, <2>1, <2>3, <3>1
    <3> QED
        BY <1>3, <2>2, <3>2
  <2>4. CASE r \in rows
    <3>1. q \in rows
        BY <1>2, <1>3, <1>4, <2>1, <2>4
    <3> QED
        BY <2>1, <2>4, <3>1
  <2> QED
    BY <1>2, <2>3, <2>4
<1> QED
    BY <1>5, <1>7, <1>8 DEF AlInv

(* UpdateAlertRules: the states start afresh.                               *)
LEMMA AlUpdates ==
    ASSUME AlInv, NEW list \in RuleLists, Alert!UpdateAlertRules(list)
    PROVE  AlInv'
<1>1. /\ alertRules' = list /\ edited' = clock /\ UNCHANGED <<cooldowns, rows, clock, rose>>
      /\ states' = [i \in Alert!Ids |-> IF i <= Len(list) THEN states[i] ELSE Alert!Fresh]
    BY DEF Alert!UpdateAlertRules, Alert!SetRules
<1>2. clock \in Nat /\ \A i \in DOMAIN list : rose[list[i]] \in 0..clock
    BY AlNumbers DEF AlInv, AlTypes
<1>3. states' \in [Alert!Ids -> [first : 0..clock, triggered : BOOLEAN]]
  <2>1. Alert!Fresh \in [first : 0..clock, triggered : BOOLEAN]
    BY <1>2 DEF Alert!Fresh
  <2> QED
    BY <1>1, <2>1 DEF AlInv, AlTypes
<1>4. AlTypes'
    BY <1>1, <1>2, <1>3 DEF AlInv, AlTypes
<1>5. AlFresh' /\ AlRose' /\ AlSustained'
    BY <1>1, <1>2 DEF AlFresh, AlRose, AlSustained, AlLate
<1>6. Alert!OnePerHour'
    BY <1>1 DEF AlInv, Alert!OnePerHour
<1> QED
    BY <1>4, <1>5, <1>6 DEF AlInv

(* A request on notifications: they are read, or fewer.                     *)
LEMMA AlReads ==
    ASSUME AlInv, UNCHANGED <<alertRules, states, cooldowns, clock, rose, edited>>,
           \A q \in rows' : \E r \in rows : q \in {r, [r EXCEPT !.read = TRUE]}
    PROVE  AlInv'
<1>1. ASSUME NEW q \in rows'
      PROVE  /\ q \in [rule : Metrics, at : 1..clock, read : BOOLEAN]
             /\ \E r \in rows : q.rule = r.rule /\ q.at = r.at
  <2>1. PICK r \in rows : q \in {r, [r EXCEPT !.read = TRUE]}
    OBVIOUS
  <2>2. r \in [rule : Metrics, at : 1..clock, read : BOOLEAN]
    BY DEF AlInv, AlTypes
  <2> QED
    BY <2>1, <2>2
<1>2. AlTypes'
    BY <1>1 DEF AlInv, AlTypes
<1>3. Alert!OnePerHour'
    BY <1>1 DEF AlInv, Alert!OnePerHour
<1> QED
    BY <1>2, <1>3 DEF AlInv, AlFresh, AlRose, AlSustained, AlLate, Alert!Fresh

(* Every step of the alerts keeps the invariant.                            *)
LEMMA AlStep == AlInv /\ Alert!Next => AlInv'
<1> SUFFICES ASSUME AlInv, Alert!Next PROVE AlInv'
    OBVIOUS
<1>1. CASE \E high \in SUBSET Metrics : Alert!Evaluate(high)
    BY <1>1, AlEvaluates
<1>2. CASE \E list \in RuleLists : Alert!UpdateAlertRules(list)
    BY <1>2, AlUpdates
<1>3. CASE \E r \in rows : Alert!MarkAsRead(r) \/ Alert!Delete(r)
    BY <1>3, AlReads DEF Alert!MarkAsRead, Alert!Delete
<1>4. CASE Alert!MarkAllAsRead
    BY <1>4, AlReads DEF Alert!MarkAllAsRead
<1> QED
    BY <1>1, <1>2, <1>3, <1>4 DEF Alert!Next

(* The invariant holds on while the part does nothing.                      *)
LEMMA AlStutter == AlInv /\ UNCHANGED alertVars => AlInv'
BY AlReads DEF alertVars

(* What the invariant says.                                                 *)
LEMMA AlShows == AlInv => Alert!SustainedIsAlerted /\ Alert!OnePerHour
BY DEF AlInv, AlSustained, AlLate, Alert!SustainedIsAlerted

(* What the invariant says of types.                                        *)
LEMMA AlTyped == ASSUME AlInv PROVE Alert!TypeOK
<1>1. clock \in Nat /\ MaxClock \in Nat /\ clock <= MaxClock
    BY AlNumbers DEF AlInv, AlTypes
<1>2. clock \in 0 .. MaxClock
    BY <1>1
<1> QED
    BY <1>2 DEF AlInv, AlTypes, Alert!TypeOK

-----------------------------------------------------------------------------
(* Containers. An id is given once, and what a container carries beside its *)
(* state it carries for good; so the container that a request found, and    *)
(* that is not the database module's, never becomes one.                    *)
BoxSet(m) == [id : 1 .. m, managed : BOOLEAN, state : {"created", "running", "paused", "exited"}]
BoxIsMap(f) ==
    /\ f \in [DOMAIN f -> BoxSet(boxLastId)] /\ DOMAIN f \subseteq BoxNames
    /\ \A m, n \in DOMAIN f : f[m].id = f[n].id => m = n
BoxFrom(f) ==
    \A n \in DOMAIN f : \E m \in DOMAIN boxes :
        f[n].id = boxes[m].id /\ f[n].managed = boxes[m].managed
BoxKinds == BoxNames \cup {"start", "stop", "restart", "pause", "unpause", "remove", "force",
                          "update", "exec"}
BoxTypes ==
    /\ up \in BOOLEAN /\ image \in BOOLEAN /\ seen \subseteq BoxNames
    /\ boxLastId \in 0 .. BoxMaxId /\ boxFaults \in 0 .. BoxMaxFaults
    /\ op = Box!NoOp \/ (op.name \in BoxNames /\ op.kind \in BoxKinds)
    /\ op.found \in 0 .. boxLastId
BoxFound == \A n \in DOMAIN boxes : boxes[n].id = op.found => ~ boxes[n].managed
BoxInv == BoxTypes /\ BoxIsMap(boxes) /\ BoxFound

(* The bounds are numbers.                                                  *)
LEMMA BoxNumbers == BoxMaxId \in Nat /\ BoxMaxFaults \in Nat
BY BoxAssumption DEF Box!BoxBounds

(* A request that is not under way found nothing.                           *)
LEMMA BoxNoOp == Box!NoOp.found = 0
BY Zenon DEF Box!NoOp

(* A failure stays within the bound on failures.                            *)
LEMMA BoxCharged ==
    ASSUME BoxInv, NEW at, Box!Charge(at)
    PROVE  boxFaults' \in 0 .. BoxMaxFaults
BY BoxNumbers DEF BoxInv, BoxTypes, Box!Charge

(* The invariant holds at the start.                                        *)
LEMMA BoxInit == Init => BoxInv
<1> SUFFICES ASSUME Init PROVE BoxInv
    OBVIOUS
<1>1. /\ up = TRUE /\ boxes = [n \in {} |-> n] /\ boxLastId = 0 /\ image = FALSE
      /\ seen = {} /\ op = Box!NoOp /\ boxFaults = 0
    BY DEF Init, Box!Init
<1>2. DOMAIN boxes = {} /\ boxes \in [DOMAIN boxes -> BoxSet(boxLastId)]
    BY <1>1
<1>3. BoxTypes
  <2>1. op.found = 0
      BY <1>1, BoxNoOp, Zenon
  <2>2. /\ up \in BOOLEAN /\ image \in BOOLEAN /\ seen \subseteq BoxNames
        /\ boxLastId \in 0 .. BoxMaxId /\ boxFaults \in 0 .. BoxMaxFaults
        /\ op.found \in 0 .. boxLastId
    <3>1. up = TRUE /\ boxLastId = 0 /\ image = FALSE /\ seen = {} /\ boxFaults = 0
        BY <1>1
    <3>2. up \in BOOLEAN /\ image \in BOOLEAN
        BY ONLY <3>1, Zenon
    <3>3. boxLastId = 0 /\ seen = {} /\ boxFaults = 0
        BY ONLY <3>1, Zenon
    <3>4. /\ seen \subseteq BoxNames /\ op.found \in 0 .. boxLastId
          /\ boxLastId \in 0 .. BoxMaxId /\ boxFaults \in 0 .. BoxMaxFaults
        BY ONLY <3>3, <2>1, BoxNumbers
    <3> QED
        BY ONLY <3>2, <3>4
  <2> QED
      BY <1>1, <2>2, Zenon DEF BoxTypes
<1> QED
    BY <1>2, <1>3 DEF BoxInv, BoxIsMap, BoxFound

(* The invariant holds on while the part does nothing.                      *)
LEMMA BoxStutters == ASSUME BoxInv, UNCHANGED boxVars PROVE BoxInv'
BY DEF BoxInv, BoxTypes, BoxIsMap, BoxFound, boxVars

(* Containers of such a kind, while a request answers or none is under way. *)
LEMMA BoxMoves ==
    ASSUME BoxInv, BoxIsMap(boxes'), BoxFrom(boxes'), op' = op \/ op' = Box!NoOp,
           up' \in BOOLEAN, boxFaults' \in 0 .. BoxMaxFaults, UNCHANGED <<boxLastId, image, seen>>
    PROVE  BoxInv'
<1>1. BoxTypes'
    BY BoxNoOp DEF BoxInv, BoxTypes
<1>2. BoxIsMap(boxes)'
    BY DEF BoxIsMap
<1>3. ASSUME NEW n \in DOMAIN boxes', boxes'[n].id = op'.found PROVE ~ boxes'[n].managed
  <2>1. PICK m \in DOMAIN boxes : boxes'[n].id = boxes[m].id /\ boxes'[n].managed = boxes[m].managed
      BY DEF BoxFrom
  <2>2. boxes'[n].id # 0
      BY DEF BoxIsMap, BoxSet
  <2>3. op' = op
      BY <1>3, <2>2, BoxNoOp
  <2> QED
      BY <1>3, <2>1, <2>3 DEF BoxInv, BoxFound
<1> QED
    BY <1>1, <1>2, <1>3 DEF BoxInv, BoxFound

(* One container changes its state.                                         *)
LEMMA BoxPuts ==
    ASSUME BoxInv, NEW n \in DOMAIN boxes, NEW b \in BoxSet(boxLastId),
           b.id = boxes[n].id, b.managed = boxes[n].managed
    PROVE  BoxIsMap(Box!With(boxes, n, b)) /\ BoxFrom(Box!With(boxes, n, b))
<1> DEFINE f == Box!With(boxes, n, b)
<1>1. DOMAIN f = DOMAIN boxes /\ \A m \in DOMAIN f : f[m] = IF m = n THEN b ELSE boxes[m]
    BY DEF Box!With
<1>2. f \in [DOMAIN f -> BoxSet(boxLastId)]
  <2>1. f = [m \in DOMAIN f |-> f[m]]
      BY DEF Box!With
  <2>2. \A m \in DOMAIN f : f[m] \in BoxSet(boxLastId)
      BY <1>1 DEF BoxInv, BoxIsMap
  <2> HIDE DEF f
  <2> QED
      BY <2>1, <2>2
<1> HIDE DEF f
<1>3. BoxIsMap(f)
    BY <1>1, <1>2 DEF BoxInv, BoxIsMap
<1>4. BoxFrom(f)
    BY <1>1 DEF BoxFrom
<1> QED
    BY <1>3, <1>4 DEF f

(* A container goes.                                                        *)
LEMMA BoxWithout ==
    ASSUME BoxInv, NEW n
    PROVE  BoxIsMap(Box!Without(boxes, n)) /\ BoxFrom(Box!Without(boxes, n))
<1> DEFINE f == Box!Without(boxes, n)
<1>1. DOMAIN f = DOMAIN boxes \ {n} /\ \A m \in DOMAIN f : f[m] = boxes[m]
    BY DEF Box!Without
<1>2. f \in [DOMAIN f -> BoxSet(boxLastId)]
  <2>1. f = [m \in DOMAIN f |-> f[m]]
      BY DEF Box!Without
  <2>2. \A m \in DOMAIN f : f[m] \in BoxSet(boxLastId)
      BY <1>1 DEF BoxInv, BoxIsMap
  <2> HIDE DEF f
  <2> QED
      BY <2>1, <2>2
<1> HIDE DEF f
<1>3. BoxIsMap(f)
    BY <1>1, <1>2 DEF BoxInv, BoxIsMap
<1>4. BoxFrom(f)
    BY <1>1 DEF BoxFrom
<1> QED
    BY <1>3, <1>4 DEF f

(* The containers of the invariant.                                         *)
LEMMA BoxSame == ASSUME BoxInv PROVE BoxIsMap(boxes) /\ BoxFrom(boxes)
BY DEF BoxInv, BoxFrom

(* A container gets another name.                                           *)
LEMMA BoxRenamed ==
    ASSUME BoxInv, NEW n \in DOMAIN boxes, NEW new \in BoxNames
    PROVE  BoxIsMap(Box!ContainerRename(n, new)) /\ BoxFrom(Box!ContainerRename(n, new))
<1>1. CASE new \in DOMAIN boxes
    BY <1>1, BoxSame DEF Box!ContainerRename
<1>2. CASE new \notin DOMAIN boxes
  <2> DEFINE f == Box!ContainerRename(n, new)
  <2>1. /\ DOMAIN f = (DOMAIN boxes \ {n}) \cup {new}
        /\ \A m \in DOMAIN f : f[m] = IF m = new THEN boxes[n] ELSE boxes[m]
        /\ f = [m \in DOMAIN f |-> f[m]]
      BY <1>2 DEF Box!ContainerRename, Box!With, Box!Without
  <2> HIDE DEF f
  <2>2. \A m \in DOMAIN f : f[m] \in BoxSet(boxLastId)
      BY <2>1 DEF BoxInv, BoxIsMap
  <2>3. f \in [DOMAIN f -> BoxSet(boxLastId)]
      BY <2>1, <2>2
  <2>4. BoxIsMap(f)
      BY <1>2, <2>1, <2>3 DEF BoxInv, BoxIsMap
  <2>5. BoxFrom(f)
      BY <2>1 DEF BoxFrom
  <2> QED
      BY <2>4, <2>5 DEF f
<1> QED
    BY <1>1, <1>2

(* What the engine makes of a container keeps its id and its label.         *)
LEMMA BoxStates ==
    ASSUME NEW m, NEW b \in BoxSet(m), NEW s \in {"created", "running", "paused", "exited"}
    PROVE  /\ [b EXCEPT !.state = s] \in BoxSet(m)
           /\ [b EXCEPT !.state = s].id = b.id /\ [b EXCEPT !.state = s].managed = b.managed
BY DEF BoxSet

(* What the engine does to a container changes its state alone.             *)
LEMMA BoxEngine ==
    ASSUME NEW m, NEW b \in BoxSet(m),
           NEW c \in {Box!ContainerStart(b), Box!ContainerStop(b), Box!ContainerRestart(b),
                      Box!ContainerPause(b), Box!ContainerUnpause(b)}
    PROVE  c \in BoxSet(m) /\ c.id = b.id /\ c.managed = b.managed
<1>1. c \in {b, [b EXCEPT !.state = "running"], [b EXCEPT !.state = "exited"], [b EXCEPT !.state = "paused"]}
    BY DEF Box!ContainerStart, Box!ContainerStop, Box!ContainerRestart, Box!ContainerPause, Box!ContainerUnpause
<1>2. b \in BoxSet(m) /\ b.id = b.id /\ b.managed = b.managed
    OBVIOUS
<1>3. CASE c = b
    BY ONLY <1>2, <1>3
<1>4. CASE c = [b EXCEPT !.state = "running"]
    BY ONLY <1>2, <1>4, BoxStates
<1>5. CASE c = [b EXCEPT !.state = "exited"]
    BY ONLY <1>2, <1>5, BoxStates
<1>6. CASE c = [b EXCEPT !.state = "paused"]
    BY ONLY <1>2, <1>6, BoxStates
<1> QED
    BY <1>1, <1>3, <1>4, <1>5, <1>6

(* The second call changes the container of that name only.                 *)
LEMMA BoxEffects ==
    ASSUME BoxInv, op # Box!NoOp, op.name \in DOMAIN boxes,
           op.kind \in BoxKinds
    PROVE  BoxIsMap(Box!Effect(op.name)) /\ BoxFrom(Box!Effect(op.name))
<1> DEFINE n == op.name
           b == boxes[n]
<1>1. b \in BoxSet(boxLastId)
    BY DEF BoxInv, BoxIsMap
<1>2. ASSUME NEW c \in {Box!ContainerStart(b), Box!ContainerStop(b), Box!ContainerRestart(b),
                        Box!ContainerPause(b), Box!ContainerUnpause(b)}
      PROVE  BoxIsMap(Box!With(boxes, n, c)) /\ BoxFrom(Box!With(boxes, n, c))
  <2>1. c \in BoxSet(boxLastId) /\ c.id = b.id /\ c.managed = b.managed
      BY <1>1, BoxEngine
  <2> QED
      BY <2>1, BoxPuts
<1>3. CASE op.kind = "start"
    BY <1>2, <1>3 DEF Box!Effect
<1>4. CASE op.kind = "stop"
    BY <1>2, <1>4 DEF Box!Effect
<1>5. CASE op.kind = "restart"
    BY <1>2, <1>5 DEF Box!Effect
<1>6. CASE op.kind = "pause"
    BY <1>2, <1>6 DEF Box!Effect
<1>7. CASE op.kind = "unpause"
    BY <1>2, <1>7 DEF Box!Effect
<1>8. CASE op.kind = "remove"
    BY <1>8, BoxSame, BoxWithout DEF Box!Effect, Box!ContainerRemove
<1>9. CASE op.kind = "force"
    BY <1>9, BoxSame, BoxWithout DEF Box!Effect, Box!ContainerRemove
<1>10. CASE op.kind \in {"update", "exec"}
    BY <1>10, BoxSame DEF Box!Effect
<1>11. CASE /\ op.kind \in BoxNames
            /\ op.kind \notin {"start", "stop", "restart", "pause", "unpause", "remove", "force",
                               "update", "exec"}
  <2>1. Box!Effect(n) = Box!ContainerRename(n, op.kind)
      BY <1>11 DEF Box!Effect
  <2> QED
      BY <1>11, <2>1, BoxRenamed
<1> QED
    BY <1>3, <1>4, <1>5, <1>6, <1>7, <1>8, <1>9, <1>10, <1>11 DEF BoxKinds


(* The first call: what is found is not the database module's.              *)
LEMMA BoxInspects ==
    ASSUME BoxInv, NEW kind \in BoxKinds, NEW n \in seen, NEW at, Box!rejectManaged(kind, n, at)
    PROVE  BoxInv'
<1> DEFINE found == Box!ContainerInspect(n, at)
<1>1. /\ op = Box!NoOp /\ UNCHANGED <<up, boxes, boxLastId, image, seen>>
      /\ op' = IF found # 0 /\ boxes[n].managed THEN Box!NoOp
               ELSE [kind |-> kind, name |-> n, found |-> found]
    BY DEF Box!rejectManaged
<1>2. boxFaults' \in 0 .. BoxMaxFaults
    BY BoxCharged DEF Box!rejectManaged
<1>3. found = 0 \/ (n \in DOMAIN boxes /\ found = boxes[n].id)
    BY DEF Box!ContainerInspect
<1>4. found \in 0 .. boxLastId
    BY <1>3 DEF BoxInv, BoxTypes, BoxIsMap, BoxSet
<1> HIDE DEF found
<1>5. op' = Box!NoOp \/ (op'.name = n /\ op'.kind = kind)
    BY <1>1
<1>6. op'.found \in {0, found} /\ (op'.found = found /\ found # 0 => ~ boxes[n].managed)
    BY <1>1, BoxNoOp
<1>7. BoxTypes'
    BY <1>1, <1>2, <1>4, <1>5, <1>6 DEF BoxInv, BoxTypes
<1>8. BoxFound'
  <2>1. ASSUME NEW m \in DOMAIN boxes, boxes[m].id = op'.found PROVE ~ boxes[m].managed
    <3>1. op'.found # 0 /\ op'.found = found
        BY <1>6, <2>1 DEF BoxInv, BoxIsMap, BoxSet
    <3> QED
        BY <1>3, <1>6, <2>1, <3>1 DEF BoxInv, BoxIsMap
  <2> QED
      BY <1>1, <2>1 DEF BoxFound
<1> QED
    BY <1>1, <1>7, <1>8 DEF BoxInv, BoxIsMap

(* The engine is called with the name, which may by now be another          *)
(* container's.                                                             *)
LEMMA BoxCalls ==
    ASSUME BoxInv, NEW at, Box!Call(at)
    PROVE  BoxInv'
<1>1. /\ op # Box!NoOp /\ op' = Box!NoOp /\ UNCHANGED <<up, boxLastId, image, seen>>
      /\ boxes' = IF Box!do(at) /\ op.name \in DOMAIN boxes THEN Box!Effect(op.name) ELSE boxes
    BY DEF Box!Call
<1>2. boxFaults' \in 0 .. BoxMaxFaults
    BY BoxCharged DEF Box!Call
<1>3. BoxIsMap(boxes') /\ BoxFrom(boxes')
    BY <1>1, BoxEffects, BoxSame DEF BoxInv, BoxTypes
<1> QED
    BY <1>1, <1>2, <1>3, BoxMoves DEF BoxInv, BoxTypes

(* A container gets a number that no request has seen.                      *)
LEMMA BoxAdds ==
    ASSUME BoxInv, NEW n \in BoxNames, n \notin DOMAIN boxes, NEW managed \in BOOLEAN,
           boxLastId < BoxMaxId, boxes' = Box!ContainerCreate(n, managed), boxLastId' = boxLastId + 1,
           boxFaults' \in 0 .. BoxMaxFaults, UNCHANGED <<up, image, seen, op>>
    PROVE  BoxInv'
<1> DEFINE b == [id |-> boxLastId + 1, managed |-> managed, state |-> "created"]
<1>1. /\ DOMAIN boxes' = DOMAIN boxes \cup {n}
      /\ \A m \in DOMAIN boxes' : boxes'[m] = IF m = n THEN b ELSE boxes[m]
      /\ boxes' = [m \in DOMAIN boxes' |-> boxes'[m]]
    BY DEF Box!ContainerCreate, Box!With
<1>2. boxLastId \in Nat /\ boxLastId + 1 \in 0 .. BoxMaxId
    BY BoxNumbers DEF BoxInv, BoxTypes
<1>3. BoxSet(boxLastId) \subseteq BoxSet(boxLastId + 1) /\ b \in BoxSet(boxLastId + 1)
    BY <1>2 DEF BoxSet
<1>4. b.id = boxLastId + 1 /\ \A m \in DOMAIN boxes : boxes[m] \in BoxSet(boxLastId) /\ boxes[m].id \in 1 .. boxLastId
    BY DEF BoxInv, BoxIsMap, BoxSet
<1> HIDE DEF b
<1>5. BoxTypes'
    BY <1>2 DEF BoxInv, BoxTypes
<1>6. \A m \in DOMAIN boxes' : boxes'[m] \in BoxSet(boxLastId')
    BY <1>1, <1>3, <1>4
<1>7. boxes' \in [DOMAIN boxes' -> BoxSet(boxLastId')]
    BY <1>1, <1>6
<1>8. ASSUME NEW k \in DOMAIN boxes', NEW m \in DOMAIN boxes', boxes'[k].id = boxes'[m].id PROVE k = m
    BY <1>1, <1>2, <1>4, <1>8 DEF BoxInv, BoxIsMap
<1>9. BoxIsMap(boxes)'
    BY <1>1, <1>7, <1>8 DEF BoxIsMap, BoxInv
<1>10. BoxFound'
    BY <1>1, <1>2, <1>4 DEF BoxFound, BoxInv, BoxTypes
<1> QED
    BY <1>5, <1>9, <1>10 DEF BoxInv

(* CreateContainer, which may fail.                                         *)
LEMMA BoxCreates ==
    ASSUME BoxInv, NEW n \in BoxNames, NEW managed \in BOOLEAN, NEW at, Box!CreateContainer(n, managed, at)
    PROVE  BoxInv'
<1> DEFINE works == Box!do(at) /\ image /\ n \notin DOMAIN boxes
<1>1. boxFaults' \in 0 .. BoxMaxFaults
    BY BoxCharged DEF Box!CreateContainer
<1>2. CASE works
    BY <1>1, <1>2, BoxAdds DEF Box!CreateContainer
<1>3. CASE ~ works
  <2>1. UNCHANGED <<up, boxes, boxLastId, image, seen, op>>
      BY <1>3 DEF Box!CreateContainer
  <2> QED
      BY <1>1, <2>1, BoxMoves, BoxSame DEF BoxInv, BoxTypes
<1> QED
    BY <1>2, <1>3

(* The requests on containers, by their first call.                         *)
LEMMA BoxAsks ==
    ASSUME BoxInv, \/ Box!PostStart \/ Box!PostStop \/ Box!PostRestart \/ Box!PostPause
                   \/ Box!PostUnpause \/ Box!DeleteRequest \/ Box!PutName \/ Box!PutLimits
                   \/ Box!PostExec
    PROVE  \E kind \in BoxKinds, n \in seen, at \in Box!Ats : Box!rejectManaged(kind, n, at)
<1>1. CASE Box!PostStart \/ Box!PostStop \/ Box!PostRestart
    BY <1>1 DEF Box!PostStart, Box!PostStop, Box!PostRestart, Box!StartContainer, Box!StopContainer,
       Box!RestartContainer, BoxKinds
<1>2. CASE Box!PostPause \/ Box!PostUnpause
    BY <1>2 DEF Box!PostPause, Box!PostUnpause, Box!PauseContainer, Box!UnpauseContainer, BoxKinds
<1>3. CASE Box!DeleteRequest
    BY <1>3 DEF Box!DeleteRequest, Box!RemoveContainer, BoxKinds
<1>4. CASE Box!PutName
    BY <1>4 DEF Box!PutName, Box!RenameContainer, BoxKinds
<1>5. CASE Box!PutLimits \/ Box!PostExec
    BY <1>5 DEF Box!PutLimits, Box!PostExec, Box!UpdateContainer, Box!ExecInContainer, BoxKinds
<1> QED
    BY <1>1, <1>2, <1>3, <1>4, <1>5

(* The database module and the engine.                                      *)
LEMMA BoxOthers ==
    ASSUME BoxInv, \/ \E n \in BoxNames : Box!DbCreate(n) \/ Box!DbRemove(n) \/ Box!BoxExits(n)
                   \/ Box!EngineToggles
    PROVE  BoxInv'
<1> USE DEF BoxInv, BoxTypes
<1>1. ASSUME NEW n \in BoxNames, Box!DbCreate(n) PROVE BoxInv'
    BY <1>1, BoxAdds DEF Box!DbCreate
<1>2. ASSUME NEW n \in BoxNames, Box!DbRemove(n) PROVE BoxInv'
    BY <1>2, BoxWithout, BoxMoves DEF Box!DbRemove
<1>3. ASSUME NEW n \in BoxNames, Box!BoxExits(n) PROVE BoxInv'
  <2> DEFINE b == [boxes[n] EXCEPT !.state = "exited"]
  <2>1. n \in DOMAIN boxes /\ boxes' = Box!With(boxes, n, b) /\ UNCHANGED <<up, boxLastId, image, seen, op, boxFaults>>
      BY <1>3 DEF Box!BoxExits, Box!With, BoxIsMap
  <2>2. b \in BoxSet(boxLastId) /\ b.id = boxes[n].id /\ b.managed = boxes[n].managed
      BY <2>1, BoxStates, ZenonT(60) DEF BoxIsMap
  <2> HIDE DEF b
  <2> QED
      BY <2>1, <2>2, BoxPuts, BoxMoves
<1>4. CASE Box!EngineToggles
  <2>1. /\ up' \in BOOLEAN /\ UNCHANGED <<boxLastId, image, seen, op, boxFaults>>
        /\ DOMAIN boxes' = DOMAIN boxes /\ boxes' = [n \in DOMAIN boxes' |-> boxes'[n]]
        /\ \A n \in DOMAIN boxes : boxes'[n] \in {boxes[n], [boxes[n] EXCEPT !.state = "exited"]}
    <3>1. /\ up' = ~ up /\ UNCHANGED <<boxLastId, image, seen, op, boxFaults>>
          /\ boxes' = [n \in DOMAIN boxes |-> [boxes[n] EXCEPT !.state =
                         IF up /\ @ \in {"running", "paused"} THEN "exited" ELSE @]]
        BY <1>4 DEF Box!EngineToggles
    <3>2. \A n \in DOMAIN boxes : [boxes[n] EXCEPT !.state = boxes[n].state] = boxes[n]
        BY DEF BoxIsMap, BoxSet
    <3> QED
        BY <3>1, <3>2
  <2>2. \A n \in DOMAIN boxes : /\ boxes'[n] \in BoxSet(boxLastId) /\ boxes'[n].id = boxes[n].id
                                /\ boxes'[n].managed = boxes[n].managed
    <3> SUFFICES ASSUME NEW n \in DOMAIN boxes
                 PROVE  /\ boxes'[n] \in BoxSet(boxLastId) /\ boxes'[n].id = boxes[n].id
                        /\ boxes'[n].managed = boxes[n].managed
        OBVIOUS
    <3>1. boxes[n] \in BoxSet(boxLastId)
        BY DEF BoxIsMap
    <3>2. \/ boxes'[n] = boxes[n] \/ boxes'[n] = [boxes[n] EXCEPT !.state = "exited"]
        BY <2>1
    <3> QED
        BY ONLY <3>1, <3>2, BoxStates
  <2>3. boxes' \in [DOMAIN boxes' -> BoxSet(boxLastId)]
      BY <2>1, <2>2
  <2>4. BoxIsMap(boxes') /\ BoxFrom(boxes')
      BY <2>1, <2>2, <2>3 DEF BoxIsMap, BoxFrom
  <2> QED
      BY <2>1, <2>4, BoxMoves
<1> QED
    BY <1>1, <1>2, <1>3, <1>4

(* Every step of the containers keeps the invariant.                        *)
LEMMA BoxStep == ASSUME BoxInv, Box!Next PROVE BoxInv'
<1>1. CASE \/ Box!PostStart \/ Box!PostStop \/ Box!PostRestart \/ Box!PostPause
           \/ Box!PostUnpause \/ Box!DeleteRequest \/ Box!PutName \/ Box!PutLimits
           \/ Box!PostExec
    BY <1>1, BoxAsks, BoxInspects
<1>2. CASE Box!GetContainers
  <2>1. seen' = DOMAIN boxes /\ UNCHANGED <<up, boxes, boxLastId, image, op, boxFaults>>
      BY <1>2 DEF Box!GetContainers, Box!ListContainers, Box!ContainerList
  <2> QED
      BY <2>1 DEF BoxInv, BoxTypes, BoxIsMap, BoxFound
<1>3. CASE Box!PostContainer
    BY <1>3, BoxCreates DEF Box!PostContainer
<1>4. CASE Box!PostImage \/ Box!DeleteImage
  <2>1. PICK at : Box!Charge(at) /\ image' \in BOOLEAN /\ UNCHANGED <<up, boxes, boxLastId, seen, op>>
      BY <1>4 DEF Box!PostImage, Box!DeleteImage, Box!PullImage, Box!RemoveImage, Box!ImagePull,
         Box!ImageRemove, BoxInv, BoxTypes, Box!do
  <2>2. boxFaults' \in 0 .. BoxMaxFaults
      BY <2>1, BoxCharged
  <2> QED
      BY <2>1, <2>2 DEF BoxInv, BoxTypes, BoxIsMap, BoxFound
<1>5. CASE \E at \in Box!Ats : Box!Call(at)
    BY <1>5, BoxCalls
<1>6. CASE \/ \E n \in BoxNames : Box!DbCreate(n) \/ Box!DbRemove(n) \/ Box!BoxExits(n)
           \/ Box!EngineToggles
    BY <1>6, BoxOthers
<1> QED
    BY <1>1, <1>2, <1>3, <1>4, <1>5, <1>6 DEF Box!Next

(* What the invariant says of types.                                        *)
LEMMA BoxShows == ASSUME BoxInv PROVE Box!TypeOK
<1>1. \A n \in DOMAIN boxes : boxes[n] \in BoxSet(BoxMaxId)
    BY BoxNumbers DEF BoxInv, BoxTypes, BoxIsMap, BoxSet
<1> QED
    BY <1>1, BoxNumbers DEF BoxInv, BoxTypes, BoxIsMap, BoxSet, Box!TypeOK

(* The containers that no other step than the second call of the request    *)
(* changes: those of another name.                                          *)
LEMMA BoxSpares ==
    ASSUME BoxInv, Box!Next
    PROVE  Box!InspectedIsSpared
<1>1. \A n \in DOMAIN boxes : boxes[n].managed => op.found # boxes[n].id
    BY DEF BoxInv, BoxFound
<1> QED
    BY <1>1 DEF Box!InspectedIsSpared

-----------------------------------------------------------------------------
(* Loops. A recursive function over 0 .. n has the values its equations     *)
(* give, and keeps to a set that every turn of the loop keeps to. The       *)
(* argument takes the first number at which that fails.                     *)
LEMMA Smallest ==
    ASSUME NEW T \in SUBSET Nat, T # {}
    PROVE  \E m \in T : \A k \in T : m <= k
<1>1. \E m \in T : \A k \in T : <<k, m>> \notin OpToRel(<, Nat)
    BY WFMin, NatLessThanWellFounded
<1>2. ASSUME NEW k \in Nat, NEW m \in Nat, k < m PROVE <<k, m>> \in OpToRel(<, Nat)
  <2>1. <<k, m>> \in Nat \X Nat /\ <<k, m>>[1] < <<k, m>>[2]
      BY <1>2
  <2> QED
      BY <2>1 DEF OpToRel
<1>3. \E m \in T : \A k \in T : ~ (k < m)
    BY <1>1, <1>2, Zenon
<1> QED
    BY <1>3

(* A loop over functions of one type has a run.                             *)
LEMMA LoopEnds ==
    ASSUME NEW V, NEW b \in V, NEW n \in Nat, NEW G \in [1 .. n -> [V -> V]]
    PROVE  \E f \in [0 .. n -> V] : f[0] = b /\ \A i \in 1 .. n : f[i] = G[i][f[i - 1]]
<1> DEFINE Upto(m) == {f \in [0 .. m -> V] :
                         \A i \in 0 .. m : f[i] = IF i = 0 THEN b ELSE G[i][f[i - 1]]}
           T == {m \in 0 .. n : Upto(m) = {}}
<1>1. T = {}
  <2> SUFFICES ASSUME T # {} PROVE FALSE
      OBVIOUS
  <2>1. T \in SUBSET Nat
      OBVIOUS
  <2>2. PICK m \in T : \A k \in T : m <= k
    <3> HIDE DEF T
    <3> QED
      BY <2>1, Smallest
  <2>3. m \in 0 .. n /\ Upto(m) = {}
      OBVIOUS
  <2>4. CASE m = 0
    <3>1. [i \in 0 .. 0 |-> b] \in Upto(0)
        OBVIOUS
    <3> QED
        BY <2>3, <2>4, <3>1
  <2>5. CASE m # 0
    <3>1. m - 1 \in 0 .. n /\ ~ (m <= m - 1)
        BY <2>3, <2>5
    <3>0. m - 1 \notin T
      <4> HIDE DEF T
      <4> QED
        BY <2>2, <3>1
    <3>2. PICK g : g \in Upto(m - 1)
        BY <3>0, <3>1
    <3> DEFINE f == [i \in 0 .. m |-> IF i = m THEN G[m][g[m - 1]] ELSE g[i]]
    <3>3. g[m - 1] \in V /\ G[m][g[m - 1]] \in V
        BY <2>3, <2>5, <3>2
    <3>4. f \in [0 .. m -> V]
        BY <2>3, <2>5, <3>2, <3>3
    <3>5. ASSUME NEW i \in 0 .. m PROVE f[i] = IF i = 0 THEN b ELSE G[i][f[i - 1]]
      <4>1. CASE i = m
        <5>1. m - 1 \in 0 .. m /\ m - 1 # m
            BY <2>3, <2>5
        <5>2. f[m - 1] = g[m - 1] /\ f[m] = G[m][g[m - 1]]
            BY <5>1, <2>3
        <5> QED
            BY <4>1, <5>2, <2>5
      <4>2. CASE i # m
        <5>1. i \in 0 .. m - 1
            BY <4>2, <2>3
        <5>2. g[i] = IF i = 0 THEN b ELSE G[i][g[i - 1]]
            BY <5>1, <3>2
        <5>3. f[i] = g[i] /\ (i # 0 => f[i - 1] = g[i - 1])
            BY <4>2, <2>3
        <5> QED
            BY <5>2, <5>3
      <4> QED
        BY <4>1, <4>2
    <3> HIDE DEF f
    <3>6. f \in Upto(m)
        BY <3>4, <3>5
    <3> QED
        BY <2>3, <3>6
  <2> QED
      BY <2>4, <2>5
<1>2. PICK f : f \in Upto(n)
    BY <1>1
<1>3. f[0] = b /\ \A i \in 1 .. n : f[i] = G[i][f[i - 1]]
    BY <1>2
<1> QED
    BY <1>2, <1>3

(* Induction over the turns of a loop.                                      *)
LEMMA LoopSteps ==
    ASSUME NEW n \in Nat, NEW S, 0 \in S, \A i \in 1 .. n : i - 1 \in S => i \in S
    PROVE  \A i \in 0 .. n : i \in S
<1> DEFINE T == {i \in 0 .. n : i \notin S}
<1> SUFFICES ASSUME T # {} PROVE FALSE
    OBVIOUS
<1>1. T \in SUBSET Nat
    OBVIOUS
<1>2. PICK m \in T : \A k \in T : m <= k
  <2> HIDE DEF T
  <2> QED
    BY <1>1, Smallest
<1>3. m \in 1 .. n /\ m \notin S /\ m - 1 \in 0 .. n /\ ~ (m <= m - 1)
    OBVIOUS
<1>4. m - 1 \notin T
  <2> HIDE DEF T
  <2> QED
    BY <1>2, <1>3
<1> QED
    BY <1>3, <1>4

(* A function of which the loop's equations hold as far as it stays in the  *)
(* set: it stays in the set.                                                *)
LoopOf(V, b, n, G, F) ==
    /\ b \in V /\ n \in Nat /\ G \in [1 .. n -> [V -> V]]
    /\ \A f \in [0 .. n -> V] :
          (f[0] = b /\ \A i \in 1 .. n : f[i] = G[i][f[i - 1]]) =>
          (F[0] = b /\ \A i \in 1 .. n : F[i - 1] \in V => F[i] = G[i][F[i - 1]])

(* Every turn ends in the type of the loop.                                 *)
LEMMA LoopKeeps ==
    ASSUME NEW V, NEW b, NEW n, NEW G, NEW F, LoopOf(V, b, n, G, F)
    PROVE  \A i \in 0 .. n : F[i] \in V
<1> USE DEF LoopOf
<1>1. \E f \in [0 .. n -> V] : f[0] = b /\ \A i \in 1 .. n : f[i] = G[i][f[i - 1]]
    BY LoopEnds, SMTT(60)
<1>2. F[0] = b /\ \A i \in 1 .. n : F[i - 1] \in V => F[i] = G[i][F[i - 1]]
    BY <1>1
<1> DEFINE S == {j \in 0 .. n : F[j] \in V}
<1>3. 0 \in S
    BY <1>2
<1>4. ASSUME NEW i \in 1 .. n, i - 1 \in S PROVE i \in S
    BY <1>2, <1>4
<1>5. \A i \in 0 .. n : i \in S
  <2> HIDE DEF S
  <2> QED
    BY <1>3, <1>4, LoopSteps
<1> QED
    BY <1>5

(* It follows its equations.                                                *)
LEMMA LoopRuns ==
    ASSUME NEW V, NEW b, NEW n, NEW G, NEW F, LoopOf(V, b, n, G, F)
    PROVE  F[0] = b /\ \A i \in 1 .. n : F[i - 1] \in V /\ F[i] = G[i][F[i - 1]]
<1>1. \A i \in 0 .. n : F[i] \in V
    BY LoopKeeps
<1> USE DEF LoopOf
<1>2. \E f \in [0 .. n -> V] : f[0] = b /\ \A i \in 1 .. n : f[i] = G[i][f[i - 1]]
    BY LoopEnds, SMTT(60)
<1>3. F[0] = b /\ \A i \in 1 .. n : F[i - 1] \in V => F[i] = G[i][F[i - 1]]
    BY <1>2
<1> QED
    BY <1>1, <1>3

-----------------------------------------------------------------------------
(* Paths. A path is a sequence of names; one leads another when it is equal *)
(* to the beginning of the other.                                           *)
TreePath == Seq(STRING)

(* The length and the names of a path.                                      *)
LEMMA PathLen ==
    ASSUME NEW p \in TreePath
    PROVE  Len(p) \in Nat /\ DOMAIN p = 1 .. Len(p) /\ \A i \in 1 .. Len(p) : p[i] \in STRING
BY LenProperties DEF TreePath

(* Paths are equal that have the same names.                                *)
LEMMA PathSame ==
    ASSUME NEW p \in TreePath, NEW q \in TreePath, Len(p) = Len(q),
           \A i \in 1 .. Len(p) : p[i] = q[i]
    PROVE  p = q
BY SeqEqual DEF TreePath

(* The first names of a path.                                               *)
LEMMA PathCut ==
    ASSUME NEW p \in TreePath, NEW k \in 0 .. Len(p)
    PROVE  /\ SubSeq(p, 1, k) \in TreePath /\ Len(SubSeq(p, 1, k)) = k
           /\ \A i \in 1 .. k : SubSeq(p, 1, k)[i] = p[i]
<1>1. Len(p) \in Nat /\ \A i \in 1 .. Len(p) : p[i] \in STRING
    BY PathLen
<1>2. k \in Nat /\ 1 \in Int /\ k \in Int /\ k - 1 + 1 = k /\ (1 <= k \/ k = 0)
    BY <1>1
<1>3. \A i \in 1 .. k : p[i] \in STRING
    BY <1>1
<1>4. /\ SubSeq(p, 1, k) \in Seq(STRING)
      /\ Len(SubSeq(p, 1, k)) = IF 1 <= k THEN k - 1 + 1 ELSE 0
      /\ \A i \in 1 .. k - 1 + 1 : SubSeq(p, 1, k)[i] = p[1 + i - 1]
    BY ONLY <1>2, <1>3, SubSeqProperties
<1>5. \A i \in 1 .. k : 1 + i - 1 = i
    BY <1>2
<1> QED
    BY <1>2, <1>4, <1>5 DEF TreePath

(* A path is made of all its names.                                         *)
LEMMA PathWhole == ASSUME NEW p \in TreePath PROVE SubSeq(p, 1, Len(p)) = p
BY SubSeqFull DEF TreePath

(* The last names of a path.                                                *)
LEMMA PathTail ==
    ASSUME NEW p \in TreePath, NEW k \in 0 .. Len(p)
    PROVE  /\ SubSeq(p, k + 1, Len(p)) \in TreePath /\ Len(SubSeq(p, k + 1, Len(p))) = Len(p) - k
           /\ \A i \in 1 .. (Len(p) - k) : SubSeq(p, k + 1, Len(p))[i] = p[k + i]
<1> DEFINE m == k + 1
           n == Len(p)
<1>1. n \in Nat /\ \A i \in 1 .. n : p[i] \in STRING
    BY PathLen
<1>2. m \in Int /\ n \in Int /\ n - m + 1 = n - k /\ (m <= n \/ n - k = 0)
    BY <1>1
<1>3. \A i \in m .. n : p[i] \in STRING
    BY <1>1
<1> HIDE DEF m, n
<1>4. /\ SubSeq(p, m, n) \in Seq(STRING)
      /\ Len(SubSeq(p, m, n)) = IF m <= n THEN n - m + 1 ELSE 0
      /\ \A i \in 1 .. n - m + 1 : SubSeq(p, m, n)[i] = p[m + i - 1]
    BY ONLY <1>2, <1>3, SubSeqProperties
<1>5. \A i \in 1 .. (n - k) : m + i - 1 = k + i
    BY <1>1 DEF m
<1>6. Len(SubSeq(p, m, n)) = n - k
    BY <1>1, <1>2, <1>4
<1>7. \A i \in 1 .. (n - k) : SubSeq(p, m, n)[i] = p[k + i]
    BY ONLY <1>2, <1>4, <1>5
<1> QED
    BY <1>4, <1>6, <1>7 DEF TreePath, m, n

(* A path below another one.                                                *)
LEMMA PathJoin ==
    ASSUME NEW p \in TreePath, NEW q \in TreePath
    PROVE  /\ p \o q \in TreePath /\ Len(p \o q) = Len(p) + Len(q)
           /\ \A i \in 1 .. Len(p) : (p \o q)[i] = p[i]
           /\ \A i \in 1 .. Len(q) : (p \o q)[Len(p) + i] = q[i]
<1>1. /\ p \o q \in Seq(STRING) /\ Len(p \o q) = Len(p) + Len(q)
      /\ \A i \in 1 .. Len(p) + Len(q) : (p \o q)[i] = IF i <= Len(p) THEN p[i] ELSE q[i - Len(p)]
    BY ConcatProperties DEF TreePath
<1>2. Len(p) \in Nat /\ Len(q) \in Nat
    BY PathLen
<1>3. \A i \in 1 .. Len(p) : (p \o q)[i] = p[i]
    BY <1>1, <1>2
<1>4. \A i \in 1 .. Len(q) : (p \o q)[Len(p) + i] = q[i]
  <2> SUFFICES ASSUME NEW i \in 1 .. Len(q) PROVE (p \o q)[Len(p) + i] = q[i]
      OBVIOUS
  <2>1. Len(p) + i \in 1 .. Len(p) + Len(q) /\ ~ (Len(p) + i <= Len(p)) /\ Len(p) + i - Len(p) = i
      BY <1>2
  <2> QED
      BY <1>1, <2>1
<1> QED
    BY <1>1, <1>3, <1>4 DEF TreePath

(* The leading part, name by name.                                          *)
LEMMA PathLeads ==
    ASSUME NEW p \in TreePath, NEW q \in TreePath
    PROVE  Tree!IsPrefix(p, q) <=> Len(p) <= Len(q) /\ \A i \in 1 .. Len(p) : p[i] = q[i]
<1>1. Len(p) \in Nat /\ Len(q) \in Nat
    BY PathLen
<1>2. CASE ~ (Len(p) <= Len(q))
    BY <1>2 DEF Tree!IsPrefix
<1>3. CASE Len(p) <= Len(q)
  <2>1. Len(p) \in 0 .. Len(q)
      BY <1>1, <1>3
  <2>2. /\ SubSeq(q, 1, Len(p)) \in TreePath /\ Len(SubSeq(q, 1, Len(p))) = Len(p)
        /\ \A i \in 1 .. Len(p) : SubSeq(q, 1, Len(p))[i] = q[i]
      BY <2>1, PathCut
  <2>3. SubSeq(p, 1, Len(p)) = p
      BY PathWhole
  <2>4. Tree!IsPrefix(p, q) <=> p = SubSeq(q, 1, Len(p))
      BY <1>3, <2>3 DEF Tree!IsPrefix
  <2>5. p = SubSeq(q, 1, Len(p)) <=> \A i \in 1 .. Len(p) : p[i] = q[i]
      BY <2>2, PathSame
  <2> QED
      BY <1>3, <2>4, <2>5
<1> QED
    BY <1>2, <1>3

(* A prefix is made of the first names.                                     *)
LEMMA PathLeadsCut ==
    ASSUME NEW p \in TreePath, NEW q \in TreePath, Tree!IsPrefix(p, q)
    PROVE  Len(p) \in 0 .. Len(q) /\ p = SubSeq(q, 1, Len(p))
<1>1. Len(p) \in Nat /\ Len(q) \in Nat
    BY PathLen
<1>2. Len(p) <= Len(q) /\ SubSeq(p, 1, Len(p)) = SubSeq(q, 1, Len(p))
    BY DEF Tree!IsPrefix
<1> QED
    BY <1>1, <1>2, PathWhole

(* The first names are a prefix.                                            *)
LEMMA PathCutLeads ==
    ASSUME NEW p \in TreePath, NEW k \in 0 .. Len(p)
    PROVE  Tree!IsPrefix(SubSeq(p, 1, k), p)
<1>1. Len(p) \in Nat
    BY PathLen
<1>2. /\ SubSeq(p, 1, k) \in TreePath /\ Len(SubSeq(p, 1, k)) = k
      /\ \A i \in 1 .. k : SubSeq(p, 1, k)[i] = p[i]
    BY PathCut
<1> DEFINE q == SubSeq(p, 1, k)
<1> HIDE DEF q
<1>3. Len(q) <= Len(p) /\ \A i \in 1 .. Len(q) : q[i] = p[i]
    BY <1>1, <1>2 DEF q
<1>4. q \in TreePath
    BY <1>2 DEF q
<1>5. Tree!IsPrefix(q, p)
    BY ONLY <1>3, <1>4, p \in TreePath, PathLeads
<1> QED
    BY <1>5 DEF q

(* Being a prefix is transitive.                                            *)
LEMMA PathLeadsOn ==
    ASSUME NEW p \in TreePath, NEW q \in TreePath, NEW r \in TreePath,
           Tree!IsPrefix(p, q), Tree!IsPrefix(q, r)
    PROVE  Tree!IsPrefix(p, r)
<1>1. Len(p) \in Nat /\ Len(q) \in Nat /\ Len(r) \in Nat
    BY PathLen
<1>2. /\ Len(p) <= Len(q) /\ \A i \in 1 .. Len(p) : p[i] = q[i]
      /\ Len(q) <= Len(r) /\ \A i \in 1 .. Len(q) : q[i] = r[i]
    BY PathLeads
<1>3. Len(p) <= Len(r) /\ \A i \in 1 .. Len(p) : p[i] = r[i]
    BY <1>1, <1>2
<1> QED
    BY <1>3, PathLeads

(* Of two prefixes of a path one is a prefix of the other.                  *)
LEMMA PathLeadsBoth ==
    ASSUME NEW p \in TreePath, NEW q \in TreePath, NEW r \in TreePath,
           Tree!IsPrefix(p, r), Tree!IsPrefix(q, r), Len(p) <= Len(q)
    PROVE  Tree!IsPrefix(p, q)
<1>1. Len(p) \in Nat /\ Len(q) \in Nat
    BY PathLen
<1>2. /\ \A i \in 1 .. Len(p) : p[i] = r[i]
      /\ \A i \in 1 .. Len(q) : q[i] = r[i]
    BY PathLeads
<1>3. \A i \in 1 .. Len(p) : p[i] = q[i]
    BY <1>1, <1>2
<1> QED
    BY <1>3, PathLeads

(* A prefix that is no shorter is the path.                                 *)
LEMMA PathLeadsSame ==
    ASSUME NEW p \in TreePath, NEW q \in TreePath, Tree!IsPrefix(p, q), Len(q) <= Len(p)
    PROVE  p = q
<1>1. Len(p) \in Nat /\ Len(q) \in Nat
    BY PathLen
<1>2. Len(p) <= Len(q) /\ \A i \in 1 .. Len(p) : p[i] = q[i]
    BY PathLeads
<1> QED
    BY <1>1, <1>2, PathSame

(* A path is a prefix of itself.                                            *)
LEMMA PathLeadsSelf == ASSUME NEW p \in TreePath PROVE Tree!IsPrefix(p, p)
<1>1. Len(p) \in Nat
    BY PathLen
<1> QED
    BY <1>1, PathLeads

(* The part before the last name.                                           *)
LEMMA PathFront ==
    ASSUME NEW p \in TreePath, p # <<>>
    PROVE  /\ Len(p) \in Nat /\ 1 <= Len(p) /\ Tree!Front(p) = SubSeq(p, 1, Len(p) - 1)
           /\ Len(p) - 1 \in 0 .. Len(p) /\ Tree!Front(p) \in TreePath
           /\ Len(Tree!Front(p)) = Len(p) - 1 /\ Tree!IsPrefix(Tree!Front(p), p)
<1>1. Len(p) \in Nat \ {0}
    BY EmptySeq DEF TreePath
<1>2. Len(p) - 1 \in 0 .. Len(p)
    BY <1>1
<1> DEFINE f == SubSeq(p, 1, Len(p) - 1)
<1>3. f \in TreePath /\ Len(f) = Len(p) - 1
    BY <1>2, PathCut
<1>4. Tree!IsPrefix(f, p)
    BY <1>2, PathCutLeads
<1>5. Tree!Front(p) = f
    BY DEF Tree!Front
<1>6. Len(p) \in Nat /\ 1 <= Len(p)
    BY <1>1
<1> HIDE DEF f
<1>7. /\ f \in TreePath /\ Len(f) = Len(p) - 1 /\ Tree!IsPrefix(f, p)
      /\ Tree!Front(p) = f
    BY <1>3, <1>4, <1>5
<1> QED
    BY <1>2, <1>6, <1>7 DEF f

(* A proper prefix is a prefix of the directory.                            *)
LEMMA PathFrontLeads ==
    ASSUME NEW p \in TreePath, NEW q \in TreePath, Tree!IsPrefix(p, q), p # q
    PROVE  q # <<>> /\ Len(p) < Len(q) /\ Tree!IsPrefix(p, Tree!Front(q))
<1>1. Len(p) \in Nat /\ Len(q) \in Nat /\ Len(p) <= Len(q)
    BY PathLen, PathLeads
<1>2. Len(p) < Len(q)
    BY <1>1, PathLeadsSame
<1>3. q # <<>>
    BY <1>1, <1>2
<1>4. /\ Tree!Front(q) \in TreePath /\ Len(Tree!Front(q)) = Len(q) - 1
      /\ Tree!IsPrefix(Tree!Front(q), q)
    BY <1>3, PathFront
<1>5. Len(p) <= Len(Tree!Front(q))
    BY <1>1, <1>2, <1>4
<1>6. Tree!IsPrefix(p, Tree!Front(q))
    BY <1>4, <1>5, PathLeadsBoth
<1> QED
    BY <1>2, <1>3, <1>6, Zenon

(* A path that led on from p leads on from q.                               *)
PathMoved(p, q, r) == q \o SubSeq(r, Len(p) + 1, Len(r))

(* The names of a moved path.                                               *)
LEMMA PathMove ==
    ASSUME NEW p \in TreePath, NEW q \in TreePath, NEW r \in TreePath, Tree!IsPrefix(p, r)
    PROVE  /\ PathMoved(p, q, r) \in TreePath
           /\ Len(PathMoved(p, q, r)) = Len(q) + (Len(r) - Len(p))
           /\ \A i \in 1 .. Len(q) : PathMoved(p, q, r)[i] = q[i]
           /\ \A i \in 1 .. (Len(r) - Len(p)) : PathMoved(p, q, r)[Len(q) + i] = r[Len(p) + i]
           /\ Tree!IsPrefix(q, PathMoved(p, q, r))
<1> DEFINE u == SubSeq(r, Len(p) + 1, Len(r))
<1>1. Len(p) \in 0 .. Len(r) /\ Len(q) \in Nat /\ Len(r) \in Nat
    BY PathLeadsCut, PathLen
<1>2. /\ u \in TreePath /\ Len(u) = Len(r) - Len(p)
      /\ \A i \in 1 .. (Len(r) - Len(p)) : u[i] = r[Len(p) + i]
    BY <1>1, PathTail
<1>3. PathMoved(p, q, r) = q \o u
    BY DEF PathMoved
<1> HIDE DEF u
<1>4. /\ q \o u \in TreePath /\ Len(q \o u) = Len(q) + Len(u)
      /\ \A i \in 1 .. Len(q) : (q \o u)[i] = q[i]
      /\ \A i \in 1 .. Len(u) : (q \o u)[Len(q) + i] = u[i]
    BY <1>2, PathJoin
<1> DEFINE m == PathMoved(p, q, r)
<1>5. /\ m \in TreePath /\ Len(m) = Len(q) + (Len(r) - Len(p))
      /\ \A i \in 1 .. Len(q) : m[i] = q[i]
      /\ \A i \in 1 .. (Len(r) - Len(p)) : m[Len(q) + i] = r[Len(p) + i]
    BY <1>2, <1>3, <1>4
<1> HIDE DEF m
<1>6. Len(q) <= Len(m)
    BY <1>1, <1>5
<1>7. Tree!IsPrefix(q, m)
    BY <1>5, <1>6, PathLeads
<1> QED
    BY <1>5, <1>7 DEF m

(* Moved there and back, it is the same.                                    *)
LEMMA PathBack ==
    ASSUME NEW p \in TreePath, NEW q \in TreePath, NEW r \in TreePath, Tree!IsPrefix(p, r)
    PROVE  PathMoved(q, p, PathMoved(p, q, r)) = r
<1> DEFINE m == PathMoved(p, q, r)
           b == PathMoved(q, p, m)
<1>1. Len(p) \in 0 .. Len(r) /\ Len(q) \in Nat /\ Len(r) \in Nat
    BY PathLeadsCut, PathLen
<1>2. /\ m \in TreePath /\ Len(m) = Len(q) + (Len(r) - Len(p)) /\ Tree!IsPrefix(q, m)
      /\ \A i \in 1 .. (Len(r) - Len(p)) : m[Len(q) + i] = r[Len(p) + i]
    BY PathMove
<1> HIDE DEF m
<1>3. /\ b \in TreePath /\ Len(b) = Len(p) + (Len(m) - Len(q))
      /\ \A i \in 1 .. Len(p) : b[i] = p[i]
      /\ \A i \in 1 .. (Len(m) - Len(q)) : b[Len(p) + i] = m[Len(q) + i]
    BY <1>2, PathMove, ZenonT(60)
<1> HIDE DEF b
<1>4. Len(b) = Len(r) /\ Len(m) - Len(q) = Len(r) - Len(p)
    BY <1>1, <1>2, <1>3
<1>5. ASSUME NEW i \in 1 .. Len(r) PROVE b[i] = r[i]
  <2>1. CASE i \in 1 .. Len(p)
      BY <1>3, <2>1, PathLeads
  <2>2. CASE i \notin 1 .. Len(p)
    <3> DEFINE k == i - Len(p)
    <3>1. k \in 1 .. (Len(r) - Len(p)) /\ i = Len(p) + k
        BY <1>1, <2>2
    <3> HIDE DEF k
    <3>2. b[Len(p) + k] = m[Len(q) + k] /\ m[Len(q) + k] = r[Len(p) + k]
        BY <1>2, <1>3, <1>4, <3>1
    <3> QED
        BY <3>1, <3>2
  <2> QED
      BY <2>1, <2>2
<1>6. b = r
    BY <1>3, <1>4, <1>5, PathSame
<1> QED
    BY <1>6 DEF b, m

(* What leads goes on leading.                                              *)
LEMMA PathMovedLeads ==
    ASSUME NEW p \in TreePath, NEW q \in TreePath, NEW r \in TreePath, NEW s \in TreePath,
           Tree!IsPrefix(p, r), Tree!IsPrefix(r, s)
    PROVE  Tree!IsPrefix(PathMoved(p, q, r), PathMoved(p, q, s))
<1> DEFINE m == PathMoved(p, q, r)
           n == PathMoved(p, q, s)
<1>1. Tree!IsPrefix(p, s)
    BY PathLeadsOn
<1>2. Len(p) \in 0 .. Len(r) /\ Len(r) \in 0 .. Len(s) /\ Len(q) \in Nat /\ Len(s) \in Nat
    BY PathLeadsCut, PathLen
<1>3. /\ m \in TreePath /\ Len(m) = Len(q) + (Len(r) - Len(p))
      /\ \A i \in 1 .. Len(q) : m[i] = q[i]
      /\ \A i \in 1 .. (Len(r) - Len(p)) : m[Len(q) + i] = r[Len(p) + i]
    BY PathMove, ZenonT(60)
<1>4. /\ n \in TreePath /\ Len(n) = Len(q) + (Len(s) - Len(p))
      /\ \A i \in 1 .. Len(q) : n[i] = q[i]
      /\ \A i \in 1 .. (Len(s) - Len(p)) : n[Len(q) + i] = s[Len(p) + i]
    BY <1>1, PathMove, ZenonT(60)
<1> HIDE DEF m, n
<1>5. Len(m) <= Len(n)
    BY <1>2, <1>3, <1>4
<1>6. ASSUME NEW i \in 1 .. Len(m) PROVE m[i] = n[i]
  <2>1. CASE i \in 1 .. Len(q)
      BY <1>3, <1>4, <2>1
  <2>2. CASE i \notin 1 .. Len(q)
    <3> DEFINE k == i - Len(q)
    <3>1. /\ k \in 1 .. (Len(r) - Len(p)) /\ k \in 1 .. (Len(s) - Len(p)) /\ i = Len(q) + k
          /\ Len(p) + k \in 1 .. Len(r)
        BY <1>2, <1>3, <2>2
    <3> HIDE DEF k
    <3>2. m[Len(q) + k] = r[Len(p) + k] /\ n[Len(q) + k] = s[Len(p) + k]
        BY <1>3, <1>4, <3>1
    <3>3. r[Len(p) + k] = s[Len(p) + k]
        BY <3>1, PathLeads
    <3> QED
        BY <3>1, <3>2, <3>3
  <2> QED
      BY <2>1, <2>2
<1>7. Tree!IsPrefix(m, n)
    BY <1>3, <1>4, <1>5, <1>6, PathLeads
<1> QED
    BY <1>7 DEF m, n

-----------------------------------------------------------------------------
(* Files. A tree is good with respect to some secrets when it is whole, has *)
(* the base path as a directory, holds no secret below it and nothing open  *)
(* outside; a tree may follow another when what is outside is the same.     *)
TreeIn(p) == Tree!IsPrefix(Base, p)
TreeBelow(p) == TreeIn(p) /\ p # Base
TreeTyped(t) == DOMAIN t \subseteq TreePath /\ t \in [DOMAIN t -> Tree!Node]
TreeClosed(D) == \A p \in D : \A i \in 0 .. Len(p) : SubSeq(p, 1, i) \in D
TreeClean(c, X) == Tree!Texts(c) \cap X = {}
TreeGood(t, X) ==
    /\ TreeTyped(t) /\ TreeClosed(DOMAIN t) /\ Base \in DOMAIN t /\ t[Base].kind = "dir"
    /\ \A p \in DOMAIN t : TreeIn(p) => TreeClean(t[p].content, X)
    /\ \A p \in DOMAIN t : t[p].fd => TreeIn(p)
TreeTame(t, u) ==
    \A p \in TreePath : ~ TreeIn(p) => (p \in DOMAIN u <=> p \in DOMAIN t) /\ (p \in DOMAIN t => u[p] = t[p])
TreeFrom(t, u, X) == TreeGood(u, X) /\ TreeTame(t, u)
TreeSecret(X) == TreeClean(Tree!Empty, X) /\ \A c \in Uploads : TreeClean(c, X)
TreeRest ==
    /\ DOMAIN tree \subseteq Paths
    /\ upload = Tree!Nowhere \/ (upload \in Paths /\ TreeBelow(upload))
    /\ treeServed \subseteq Nat /\ treeServed \cap Tree!Secrets(tree) = {}
    /\ reply \in {"ok", "error"} /\ changes \in 0 .. MaxChanges /\ treeFaults \in 0 .. TreeMaxFaults
TreeInv ==
    TreeGood(tree, Tree!Secrets(tree)) /\ TreeSecret(Tree!Secrets(tree)) /\ TreeRest

(* What the assumptions say of the constants.                               *)
LEMMA TreeBounded ==
    /\ MaxEntries \in Nat /\ MaxChanges \in Nat /\ TreeMaxFaults \in Nat
    /\ Base \in TreePath /\ Paths \subseteq TreePath /\ Tree!Nowhere \in TreePath /\ Tree!Nowhere \notin Paths
    /\ Uploads \subseteq Tree!Content
BY TreeAssumption DEF Tree!TreeBounds, TreePath

(* What is outside stays, step after step.                                  *)
LEMMA TreeTameSelf == ASSUME NEW t PROVE TreeTame(t, t)
BY DEF TreeTame

(* Two changes that spare the outside spare it together.                    *)
LEMMA TreeTameOn ==
    ASSUME NEW t, NEW u, NEW w, TreeTame(t, u), TreeTame(u, w)
    PROVE  TreeTame(t, w)
BY DEF TreeTame

(* The fields of a node.                                                    *)
LEMMA TreeTyping ==
    ASSUME NEW t, TreeTyped(t), NEW p \in DOMAIN t
    PROVE  /\ p \in TreePath /\ t[p] \in Tree!Node
           /\ t[p] = [kind |-> t[p].kind, content |-> t[p].content, to |-> t[p].to, fd |-> t[p].fd]
           /\ t[p].kind \in {"dir", "file", "link"} /\ t[p].content \in Tree!Content
           /\ t[p].to \in TreePath /\ t[p].fd \in BOOLEAN
<1>1. p \in TreePath /\ t[p] \in Tree!Node
    BY DEF TreeTyped
<1> QED
    BY <1>1 DEF Tree!Node, TreePath

(* The base path and what leads to it are in a good tree.                   *)
LEMMA TreeRoots ==
    ASSUME NEW t, NEW X, TreeGood(t, X), NEW p \in TreePath, TreeIn(p), NEW i \in 0 .. Len(p),
           SubSeq(p, 1, i) \notin DOMAIN t
    PROVE  TreeBelow(SubSeq(p, 1, i))
<1> DEFINE q == SubSeq(p, 1, i)
<1>1. Base \in TreePath /\ Base \in DOMAIN t /\ TreeClosed(DOMAIN t)
    BY TreeBounded DEF TreeGood
<1>2. q \in TreePath /\ Len(q) = i /\ Tree!IsPrefix(q, p)
    BY PathCut, PathCutLeads
<1>3. Len(Base) \in Nat /\ i \in Nat /\ Len(p) \in Nat
    BY <1>1, PathLen
<1>4. q # Base
    BY <1>1
<1> HIDE DEF q
<1>5. CASE i <= Len(Base)
  <2>1. Tree!IsPrefix(q, Base)
      BY <1>1, <1>2, <1>5, PathLeadsBoth DEF TreeIn
  <2>2. q = SubSeq(Base, 1, Len(q)) /\ Len(q) \in 0 .. Len(Base)
      BY <1>1, <1>2, <2>1, PathLeadsCut
  <2>3. q \in DOMAIN t
      BY <1>1, <2>2 DEF TreeClosed
  <2> QED
      BY <2>3 DEF q
<1>6. CASE ~ (i <= Len(Base))
  <2>1. Len(Base) <= Len(q)
      BY <1>2, <1>3, <1>6
  <2>2. Tree!IsPrefix(Base, q)
      BY <1>1, <1>2, <2>1, PathLeadsBoth DEF TreeIn
  <2> QED
      BY <1>4, <2>2 DEF TreeBelow, TreeIn, q
<1> QED
    BY <1>5, <1>6

(* A node is written below the base path.                                   *)
LEMMA TreePuts ==
    ASSUME NEW t, NEW X, TreeGood(t, X), NEW p \in TreePath, TreeBelow(p),
           Tree!Front(p) \in DOMAIN t,
           NEW v \in Tree!Node, TreeClean(v.content, X)
    PROVE  TreeFrom(t, Tree!With(t, p, v), X)
<1> DEFINE u == Tree!With(t, p, v)
<1>0. TreeTyped(t) /\ TreeClosed(DOMAIN t) /\ Base \in DOMAIN t /\ t[Base].kind = "dir"
    BY DEF TreeGood
<1>1. DOMAIN u = DOMAIN t \cup {p} /\ u[p] = v /\ \A q \in DOMAIN t : q # p => u[q] = t[q]
    BY DEF Tree!With
<1>2. u \in [DOMAIN u -> Tree!Node] /\ DOMAIN u \subseteq TreePath
    BY <1>0, <1>1 DEF Tree!With, TreeTyped
<1> HIDE DEF u
<1>3. \A i \in 0 .. Len(p) : SubSeq(p, 1, i) \in DOMAIN u
  <2> SUFFICES ASSUME NEW i \in 0 .. Len(p) PROVE SubSeq(p, 1, i) \in DOMAIN u
      OBVIOUS
  <2>1. p # <<>>
      BY TreeBounded, PathFrontLeads DEF TreeBelow, TreeIn
  <2>2. /\ Len(p) \in Nat /\ 1 <= Len(p) /\ Tree!Front(p) \in TreePath
        /\ Len(Tree!Front(p)) = Len(p) - 1 /\ Tree!IsPrefix(Tree!Front(p), p)
      BY <2>1, PathFront
  <2>3. CASE i = Len(p)
      BY <1>1, <2>3, PathWhole
  <2>4. CASE i # Len(p)
    <3> DEFINE f == Tree!Front(p)
               q == SubSeq(p, 1, i)
    <3>1. q \in TreePath /\ Len(q) = i /\ Tree!IsPrefix(q, p)
        BY PathCut, PathCutLeads
    <3> HIDE DEF f, q
    <3>2. f \in TreePath /\ Len(f) = Len(p) - 1 /\ Tree!IsPrefix(f, p) /\ f \in DOMAIN t
        BY <2>2 DEF f
    <3>3. Len(q) <= Len(f)
        BY <2>2, <2>4, <3>1, <3>2
    <3>4. Tree!IsPrefix(q, f)
        BY ONLY <3>1, <3>2, <3>3, p \in TreePath, PathLeadsBoth
    <3>5. Len(q) \in 0 .. Len(f) /\ q = SubSeq(f, 1, Len(q))
        BY <3>1, <3>2, <3>4, PathLeadsCut
    <3>6. q \in DOMAIN t
        BY <1>0, <3>2, <3>5 DEF TreeClosed
    <3> QED
        BY <1>1, <3>6 DEF q
  <2> QED
      BY <2>3, <2>4
<1>4. TreeClosed(DOMAIN u)
    BY <1>0, <1>1, <1>3 DEF TreeClosed
<1>5. Base \in DOMAIN u /\ u[Base].kind = "dir"
    BY <1>0, <1>1 DEF TreeBelow
<1>6. \A q \in DOMAIN u : (TreeIn(q) => TreeClean(u[q].content, X)) /\ (u[q].fd => TreeIn(q))
    BY <1>1 DEF TreeGood, TreeBelow
<1>7. TreeTame(t, u)
    BY <1>1 DEF TreeTame, TreeBelow
<1>8. TreeGood(u, X)
    BY <1>2, <1>4, <1>5, <1>6 DEF TreeGood, TreeTyped
<1> QED
    BY <1>7, <1>8 DEF TreeFrom, u

(* Paths go: with each all that is below it.                                *)
LEMMA TreeDrops ==
    ASSUME NEW t, NEW X, TreeGood(t, X), NEW S,
           \A p \in S : TreeBelow(p),
           \A p \in S : \A q \in DOMAIN t : Tree!IsPrefix(p, q) => q \in S,
           S \subseteq DOMAIN t
    PROVE  /\ TreeFrom(t, Tree!Only(t, DOMAIN t \ S), X)
           /\ DOMAIN Tree!Only(t, DOMAIN t \ S) = DOMAIN t \ S
<1> DEFINE u == Tree!Only(t, DOMAIN t \ S)
<1>0. TreeTyped(t) /\ TreeClosed(DOMAIN t) /\ Base \in DOMAIN t /\ t[Base].kind = "dir"
    BY DEF TreeGood
<1>1. DOMAIN u = DOMAIN t \ S /\ \A q \in DOMAIN u : u[q] = t[q]
    BY DEF Tree!Only
<1>2. u \in [DOMAIN u -> Tree!Node] /\ DOMAIN u \subseteq TreePath
    BY <1>0, <1>1 DEF Tree!Only, TreeTyped
<1> HIDE DEF u
<1>3. TreeClosed(DOMAIN u)
  <2> SUFFICES ASSUME NEW p \in DOMAIN u, NEW i \in 0 .. Len(p) PROVE SubSeq(p, 1, i) \in DOMAIN u
      BY DEF TreeClosed
  <2>1. p \in TreePath /\ p \in DOMAIN t /\ SubSeq(p, 1, i) \in DOMAIN t
      BY <1>0, <1>1 DEF TreeClosed, TreeTyped
  <2>2. Tree!IsPrefix(SubSeq(p, 1, i), p)
      BY <2>1, PathCutLeads
  <2> QED
      BY <1>1, <2>1, <2>2
<1>4. Base \in DOMAIN u /\ u[Base].kind = "dir"
    BY <1>0, <1>1 DEF TreeBelow
<1>5. \A q \in DOMAIN u : (TreeIn(q) => TreeClean(u[q].content, X)) /\ (u[q].fd => TreeIn(q))
    BY <1>1 DEF TreeGood
<1>6. TreeTame(t, u)
    BY <1>1 DEF TreeTame, TreeBelow
<1>7. TreeGood(u, X)
    BY <1>2, <1>3, <1>4, <1>5 DEF TreeGood, TreeTyped
<1> QED
    BY <1>1, <1>6, <1>7 DEF TreeFrom, u


(* os.Remove below the base.                                                *)
LEMMA TreeRemoves ==
    ASSUME NEW t, NEW X, TreeGood(t, X), NEW p \in TreePath, TreeBelow(p)
    PROVE  /\ TreeFrom(t, Tree!OsRemove(t, p), X)
           /\ DOMAIN Tree!OsRemove(t, p) \subseteq DOMAIN t
<1>1. CASE Tree!Below(t, p) = {} /\ p \in DOMAIN t
  <2>1. Tree!OsRemove(t, p) = Tree!Only(t, DOMAIN t \ {p})
      BY <1>1 DEF Tree!OsRemove
  <2>2. \A q \in DOMAIN t : Tree!IsPrefix(p, q) => q = p
      BY <1>1 DEF Tree!Below, Tree!IsStrictPrefix
  <2> DEFINE S == {p}
  <2>3. /\ \A q \in S : TreeBelow(q)
        /\ \A r \in S : \A q \in DOMAIN t : Tree!IsPrefix(r, q) => q \in S
        /\ S \subseteq DOMAIN t
      BY <1>1, <2>2
  <2>4. Tree!OsRemove(t, p) = Tree!Only(t, DOMAIN t \ S)
      BY <2>1
  <2> HIDE DEF S
  <2>5. /\ TreeFrom(t, Tree!Only(t, DOMAIN t \ S), X)
        /\ DOMAIN Tree!Only(t, DOMAIN t \ S) = DOMAIN t \ S
      BY <2>3, TreeDrops
  <2> QED
      BY <2>4, <2>5
<1>2. CASE ~ (Tree!Below(t, p) = {} /\ p \in DOMAIN t)
  <2>1. t = [q \in DOMAIN t |-> t[q]]
      BY DEF TreeGood, TreeTyped
  <2>2. Tree!OsRemove(t, p) = t
      BY <1>2, <2>1 DEF Tree!OsRemove, Tree!Only
  <2> QED
      BY <2>2, TreeTameSelf DEF TreeFrom
<1> QED
    BY <1>1, <1>2

(* os.RemoveAll below the base.                                             *)
LEMMA TreeRemovesAll ==
    ASSUME NEW t, NEW X, TreeGood(t, X), NEW p \in DOMAIN t, TreeBelow(p)
    PROVE  TreeFrom(t, Tree!OsRemoveAll(t, p), X)
<1> DEFINE S == {p} \cup Tree!Below(t, p)
<1>0. DOMAIN t \subseteq TreePath /\ Base \in TreePath
    BY TreeBounded DEF TreeGood, TreeTyped
<1>1. S \subseteq DOMAIN t /\ S \subseteq TreePath
    BY <1>0 DEF Tree!Below
<1>2. \A q \in S : Tree!IsPrefix(p, q)
    BY <1>0, PathLeadsSelf DEF Tree!Below, Tree!IsStrictPrefix
<1>3. \A q \in DOMAIN t : Tree!IsPrefix(p, q) => q \in S
    BY DEF Tree!Below, Tree!IsStrictPrefix
<1>4. Tree!OsRemoveAll(t, p) = Tree!Only(t, DOMAIN t \ S)
    BY DEF Tree!OsRemoveAll
<1> HIDE DEF S
<1>5. \A q \in S : TreeBelow(q)
  <2> SUFFICES ASSUME NEW q \in S PROVE TreeBelow(q)
      OBVIOUS
  <2>1. q \in TreePath /\ p \in TreePath /\ Tree!IsPrefix(p, q)
      BY <1>0, <1>1, <1>2
  <2>2. Tree!IsPrefix(Base, p) /\ p # Base
      BY DEF TreeBelow, TreeIn
  <2>3. Tree!IsPrefix(Base, q)
      BY <1>0, <2>1, <2>2, PathLeadsOn
  <2>4. q # Base
    <3> SUFFICES ASSUME q = Base PROVE FALSE
        OBVIOUS
    <3>1. Len(Base) <= Len(p)
        BY <1>0, <2>1, <2>2, PathLeads
    <3>2. p = Base
        BY <2>1, <3>1, PathLeadsSame
    <3> QED
        BY <2>2, <3>2
  <2> QED
      BY <2>3, <2>4 DEF TreeBelow, TreeIn
<1>6. \A r \in S : \A q \in DOMAIN t : Tree!IsPrefix(r, q) => q \in S
  <2> SUFFICES ASSUME NEW r \in S, NEW q \in DOMAIN t, Tree!IsPrefix(r, q) PROVE Tree!IsPrefix(p, q)
      BY <1>3
  <2> QED
      BY <1>0, <1>1, <1>2, PathLeadsOn
<1> QED
    BY <1>1, <1>4, <1>5, <1>6, TreeDrops

(* The same of a prefix of a path under the base.                           *)
LEMMA TreeRootsOn ==
    ASSUME NEW t, NEW X, TreeGood(t, X), NEW p \in TreePath, NEW w \in TreePath, TreeIn(w),
           Tree!IsPrefix(p, w), NEW i \in 0 .. Len(p), SubSeq(p, 1, i) \notin DOMAIN t
    PROVE  TreeBelow(SubSeq(p, 1, i))
<1> DEFINE r == SubSeq(p, 1, i)
<1>1. r \in TreePath /\ Tree!IsPrefix(r, p)
    BY PathCut, PathCutLeads
<1> HIDE DEF r
<1>2. Tree!IsPrefix(r, w)
    BY <1>1, PathLeadsOn
<1>3. r = SubSeq(w, 1, Len(r)) /\ Len(r) \in 0 .. Len(w)
    BY <1>1, <1>2, PathLeadsCut
<1>4. r \notin DOMAIN t
    BY DEF r
<1>5. TreeBelow(SubSeq(w, 1, Len(r)))
    BY <1>3, <1>4, TreeRoots
<1> QED
    BY <1>3, <1>5 DEF r

(* os.MkdirAll on the way to a path under the base.                         *)
LEMMA TreeDirs ==
    ASSUME NEW t, NEW X, TreeGood(t, X), TreeSecret(X), NEW p \in TreePath,
           NEW w \in TreePath, TreeIn(w), Tree!IsPrefix(p, w)
    PROVE  /\ TreeFrom(t, Tree!MkdirAll(t, p), X)
           /\ DOMAIN t \subseteq DOMAIN Tree!MkdirAll(t, p) /\ p \in DOMAIN Tree!MkdirAll(t, p)
           /\ \A q \in DOMAIN t : Tree!MkdirAll(t, p)[q] = t[q]
<1> DEFINE new == {SubSeq(p, 1, i) : i \in 1 .. Len(p)}
           u == Tree!MkdirAll(t, p)
<1>0. /\ TreeTyped(t) /\ TreeClosed(DOMAIN t) /\ Base \in DOMAIN t /\ t[Base].kind = "dir"
      /\ Base \in TreePath /\ Len(p) \in Nat
    BY TreeBounded, PathLen DEF TreeGood
<1>1. /\ DOMAIN u = DOMAIN t \cup new /\ \A q \in DOMAIN t : u[q] = t[q]
      /\ \A q \in DOMAIN u : q \notin DOMAIN t => u[q] = Tree!Dir
    BY DEF Tree!MkdirAll
<1>2. Tree!Dir \in Tree!Node
    BY DEF Tree!Dir, Tree!Node, Tree!Content, Tree!Empty
<1>3. new \subseteq TreePath
  <2> SUFFICES ASSUME NEW i \in 1 .. Len(p) PROVE SubSeq(p, 1, i) \in TreePath
      OBVIOUS
  <2> QED
      BY <1>0, PathCut
<1>4. u \in [DOMAIN u -> Tree!Node] /\ DOMAIN u \subseteq TreePath
  <2>1. u = [q \in DOMAIN u |-> u[q]]
      BY DEF Tree!MkdirAll
  <2>2. \A q \in DOMAIN u : u[q] \in Tree!Node
    <3> HIDE DEF u
    <3> QED
      BY <1>0, <1>1, <1>2 DEF TreeTyped
  <2>3. DOMAIN u \subseteq TreePath
    <3> HIDE DEF u, new
    <3> QED
      BY <1>0, <1>1, <1>3 DEF TreeTyped
  <2> HIDE DEF u
  <2> QED
      BY <2>1, <2>2, <2>3
<1>5. \A q \in new : q \notin DOMAIN t => TreeBelow(q)
  <2> SUFFICES ASSUME NEW i \in 1 .. Len(p), SubSeq(p, 1, i) \notin DOMAIN t
               PROVE  TreeBelow(SubSeq(p, 1, i))
      OBVIOUS
  <2>1. i \in 0 .. Len(p)
      BY <1>0
  <2> QED
      BY <2>1, TreeRootsOn
<1>6. SubSeq(p, 1, 0) \in DOMAIN t
  <2>1. SubSeq(p, 1, 0) = SubSeq(Base, 1, 0)
      BY SubSeqEmpty
  <2>2. 0 \in 0 .. Len(Base)
      BY <1>0, PathLen
  <2> QED
      BY <1>0, <2>1, <2>2 DEF TreeClosed
<1>7. \A i \in 0 .. Len(p) : SubSeq(p, 1, i) \in DOMAIN u
  <2> SUFFICES ASSUME NEW i \in 0 .. Len(p) PROVE SubSeq(p, 1, i) \in DOMAIN u
      OBVIOUS
  <2>1. CASE i = 0
      BY <1>1, <1>6, <2>1
  <2>2. CASE i # 0
    <3>1. i \in 1 .. Len(p)
        BY <1>0, <2>2
    <3> QED
        BY <1>1, <3>1
  <2> QED
      BY <2>1, <2>2
<1>8. \A q \in new : \E k \in 1 .. Len(p) : q = SubSeq(p, 1, k)
    OBVIOUS
<1>81. p \in DOMAIN u
  <2>1. SubSeq(p, 1, Len(p)) = p /\ Len(p) \in 0 .. Len(p)
      BY <1>0, PathWhole
  <2> HIDE DEF u
  <2> QED
      BY <1>7, <2>1
<1> HIDE DEF u, new
<1>9. TreeClosed(DOMAIN u)
  <2> SUFFICES ASSUME NEW q \in DOMAIN u, NEW i \in 0 .. Len(q) PROVE SubSeq(q, 1, i) \in DOMAIN u
      BY DEF TreeClosed
  <2>1. CASE q \in DOMAIN t
      BY <1>0, <1>1, <2>1 DEF TreeClosed
  <2>2. CASE q \in new
    <3>1. PICK k \in 1 .. Len(p) : q = SubSeq(p, 1, k)
        BY <1>8, <2>2
    <3>2. k \in 0 .. Len(p)
        BY <1>0
    <3>3. q \in TreePath /\ Len(q) = k /\ Tree!IsPrefix(q, p)
        BY <3>1, <3>2, PathCut, PathCutLeads
    <3> DEFINE r == SubSeq(q, 1, i)
    <3>4. r \in TreePath /\ Len(r) = i /\ Tree!IsPrefix(r, q)
        BY <3>3, PathCut, PathCutLeads
    <3> HIDE DEF r
    <3>5. Tree!IsPrefix(r, p)
        BY <3>3, <3>4, PathLeadsOn
    <3>6. r = SubSeq(p, 1, Len(r)) /\ Len(r) \in 0 .. Len(p)
        BY <3>4, <3>5, PathLeadsCut
    <3>7. r \in DOMAIN u
        BY <1>7, <3>6
    <3> QED
        BY <3>7 DEF r
  <2> QED
      BY <1>1, <2>1, <2>2
<1>10. Base \in DOMAIN u /\ u[Base].kind = "dir"
    BY <1>0, <1>1
<1>11. \A q \in DOMAIN u : (TreeIn(q) => TreeClean(u[q].content, X)) /\ (u[q].fd => TreeIn(q))
  <2> SUFFICES ASSUME NEW q \in DOMAIN u
               PROVE  (TreeIn(q) => TreeClean(u[q].content, X)) /\ (u[q].fd => TreeIn(q))
      OBVIOUS
  <2>1. CASE q \in DOMAIN t
      BY <1>1, <2>1 DEF TreeGood
  <2>2. CASE q \notin DOMAIN t
    <3>1. u[q].content = Tree!Empty /\ ~ u[q].fd
        BY <1>1, <2>2 DEF Tree!Dir
    <3> QED
        BY <3>1 DEF TreeSecret
  <2> QED
      BY <2>1, <2>2
<1>12. TreeTame(t, u)
    BY <1>1, <1>5 DEF TreeTame, TreeBelow
<1>13. TreeGood(u, X)
    BY <1>4, <1>9, <1>10, <1>11 DEF TreeGood, TreeTyped
<1> QED
    BY <1>1, <1>12, <1>13, <1>81 DEF TreeFrom, u

(* A file under the base is written.                                        *)
LEMMA TreeWrites ==
    ASSUME NEW t, NEW X, TreeGood(t, X), NEW p \in TreePath, TreeIn(p), Tree!CanOpen(t, p),
           NEW c \in Tree!Content, TreeClean(c, X)
    PROVE  /\ TreeBelow(p) /\ TreeFrom(t, Tree!Write(t, p, c), X)
           /\ DOMAIN Tree!Write(t, p, c) = DOMAIN t \cup {p}
<1>1. p # Base
    BY DEF Tree!CanOpen, TreeGood
<1>2. Tree!Front(p) \in DOMAIN t
    BY DEF Tree!CanOpen, Tree!Is
<1> DEFINE fd == IF p \in DOMAIN t THEN t[p].fd ELSE FALSE
           v == Tree!File(c, fd)
<1>3. fd \in BOOLEAN
    BY TreeTyping DEF TreeGood
<1> HIDE DEF fd
<1>4. v \in Tree!Node /\ v.content = c
    BY <1>3 DEF Tree!File, Tree!Node
<1>5. Tree!Write(t, p, c) = Tree!With(t, p, v)
    BY DEF Tree!Write, fd
<1> HIDE DEF v
<1>6. TreeBelow(p)
    BY <1>1 DEF TreeBelow
<1>7. TreeFrom(t, Tree!With(t, p, v), X)
    BY <1>2, <1>4, <1>6, TreePuts
<1>8. DOMAIN Tree!With(t, p, v) = DOMAIN t \cup {p}
    BY DEF Tree!With
<1> QED
    BY <1>5, <1>6, <1>7, <1>8


(* A path moved to where it was.                                            *)
LEMMA PathStays == ASSUME NEW p \in TreePath, NEW r \in TreePath, Tree!IsPrefix(p, r)
                   PROVE  PathMoved(p, p, r) = r
<1> DEFINE m == PathMoved(p, p, r)
<1>1. Len(p) \in 0 .. Len(r) /\ Len(r) \in Nat
    BY PathLeadsCut, PathLen
<1>2. /\ m \in TreePath /\ Len(m) = Len(p) + (Len(r) - Len(p))
      /\ \A i \in 1 .. Len(p) : m[i] = p[i]
      /\ \A i \in 1 .. (Len(r) - Len(p)) : m[Len(p) + i] = r[Len(p) + i]
    BY PathMove
<1> HIDE DEF m
<1>3. Len(m) = Len(r)
    BY <1>1, <1>2
<1>4. ASSUME NEW i \in 1 .. Len(m) PROVE m[i] = r[i]
  <2>1. CASE i \in 1 .. Len(p)
      BY <1>2, <2>1, PathLeads
  <2>2. CASE i \notin 1 .. Len(p)
    <3> DEFINE k == i - Len(p)
    <3>1. k \in 1 .. (Len(r) - Len(p)) /\ i = Len(p) + k
        BY <1>1, <1>3, <2>2
    <3> HIDE DEF k
    <3> QED
        BY <1>2, <3>1
  <2> QED
      BY <2>1, <2>2
<1>5. m = r
    BY <1>2, <1>3, <1>4, PathSame
<1> QED
    BY <1>5 DEF m

(* What is below a path below the base is below the base.                   *)
LEMMA TreeBelowOn ==
    ASSUME NEW p \in TreePath, NEW r \in TreePath, TreeBelow(p), Tree!IsPrefix(p, r)
    PROVE  TreeBelow(r)
<1>0. Base \in TreePath
    BY TreeBounded
<1>1. Tree!IsPrefix(Base, p) /\ p # Base
    BY DEF TreeBelow, TreeIn
<1>2. Tree!IsPrefix(Base, r)
    BY <1>0, <1>1, PathLeadsOn
<1>3. r # Base
  <2> SUFFICES ASSUME r = Base PROVE FALSE
      OBVIOUS
  <2>1. Len(Base) <= Len(p)
      BY <1>0, <1>1, PathLeads
  <2>2. p = Base
      BY <2>1, PathLeadsSame
  <2> QED
      BY <1>1, <2>2
<1> QED
    BY <1>2, <1>3 DEF TreeBelow, TreeIn

(* The tree after a rename, path by path.                                   *)
TreeMoved(t, p) == {p} \cup Tree!Below(t, p)
TreeNew(t, p, q) == {PathMoved(p, q, r) : r \in TreeMoved(t, p)}

(* What is moved is what has the path as a prefix.                          *)
LEMMA TreeMovedIs ==
    ASSUME NEW t, TreeTyped(t), NEW p \in DOMAIN t
    PROVE  /\ TreeMoved(t, p) \subseteq DOMAIN t /\ TreeMoved(t, p) \subseteq TreePath
           /\ \A r \in DOMAIN t : r \in TreeMoved(t, p) <=> Tree!IsPrefix(p, r)
BY PathLeadsSelf DEF TreeMoved, Tree!Below, Tree!IsStrictPrefix, TreeTyped

(* Where os.Rename puts what it moves.                                      *)
LEMMA TreeMovedAt ==
    ASSUME NEW t, TreeTyped(t), NEW p \in DOMAIN t, NEW q \in TreePath
    PROVE  /\ DOMAIN Tree!OsRename(t, p, q) = (DOMAIN t \ TreeMoved(t, p)) \cup TreeNew(t, p, q)
           /\ \A r \in TreeMoved(t, p) :
                /\ PathMoved(p, q, r) \in TreeNew(t, p, q) /\ PathMoved(p, q, r) \in TreePath
                /\ Tree!IsPrefix(q, PathMoved(p, q, r))
                /\ Tree!OsRename(t, p, q)[PathMoved(p, q, r)] = t[r]
           /\ \A s \in DOMAIN t \ TreeMoved(t, p) :
                s \notin TreeNew(t, p, q) => Tree!OsRename(t, p, q)[s] = t[s]
<1> DEFINE moved == TreeMoved(t, p)
           new == TreeNew(t, p, q)
           u == Tree!OsRename(t, p, q)
<1>0. p \in TreePath
    BY DEF TreeTyped
<1>1. u = [s \in (DOMAIN t \ moved) \cup new |-> IF s \in new THEN t[PathMoved(q, p, s)] ELSE t[s]]
    BY DEF Tree!OsRename, TreeMoved, TreeNew, PathMoved
<1>2. \A r \in moved : PathMoved(p, q, r) \in new
    BY DEF TreeNew
<1>3. moved \subseteq TreePath /\ \A r \in moved : Tree!IsPrefix(p, r)
    BY TreeMovedIs
<1> HIDE DEF u, new, moved
<1>4. ASSUME NEW r \in moved
      PROVE  /\ PathMoved(p, q, r) \in TreePath /\ Tree!IsPrefix(q, PathMoved(p, q, r))
             /\ PathMoved(q, p, PathMoved(p, q, r)) = r
    BY <1>0, <1>3, PathMove, PathBack
<1>5. \A r \in moved : u[PathMoved(p, q, r)] = t[r]
    BY <1>1, <1>2, <1>4
<1> QED
    BY <1>1, <1>2, <1>4, <1>5 DEF u, new, moved

(* A rename to the same name changes nothing.                               *)
LEMMA TreeRenamesNone ==
    ASSUME NEW t, TreeTyped(t), NEW p \in DOMAIN t
    PROVE  Tree!OsRename(t, p, p) = t
<1> DEFINE moved == TreeMoved(t, p)
           new == TreeNew(t, p, p)
<1>0. p \in TreePath /\ moved \subseteq DOMAIN t
    BY TreeMovedIs DEF TreeTyped
<1>1. \A r \in moved : PathMoved(p, p, r) = r
    BY <1>0, TreeMovedIs, PathStays
<1>2. new = moved
    BY <1>1 DEF TreeNew
<1>3. Tree!OsRename(t, p, p)
          = [s \in (DOMAIN t \ moved) \cup new |-> IF s \in new THEN t[PathMoved(p, p, s)] ELSE t[s]]
    BY DEF Tree!OsRename, TreeMoved, TreeNew, PathMoved
<1>4. (DOMAIN t \ moved) \cup new = DOMAIN t
    BY <1>0, <1>2
<1> HIDE DEF moved, new
<1>5. Tree!OsRename(t, p, p) = [s \in DOMAIN t |-> t[s]]
    BY <1>1, <1>2, <1>3, <1>4
<1> QED
    BY <1>5 DEF TreeTyped

(* os.Rename under the base.                                                *)
LEMMA TreeRenames ==
    ASSUME NEW t, NEW X, TreeGood(t, X), NEW p \in DOMAIN t, TreeIn(p), NEW q \in TreePath,
           TreeIn(q), Tree!CanRename(t, p, q)
    PROVE  TreeFrom(t, Tree!OsRename(t, p, q), X)
<1> DEFINE moved == TreeMoved(t, p)
           new == TreeNew(t, p, q)
           u == Tree!OsRename(t, p, q)
<1>0. /\ TreeTyped(t) /\ TreeClosed(DOMAIN t) /\ Base \in DOMAIN t /\ t[Base].kind = "dir"
      /\ Base \in TreePath /\ p \in TreePath
    BY TreeBounded DEF TreeGood, TreeTyped
<1>1. CASE p = q
  <2>1. u = t
      BY <1>0, <1>1, TreeRenamesNone
  <2> QED
      BY <2>1, TreeTameSelf DEF TreeFrom
<1>2. CASE p # q
  <2>1. p # Base
      BY <1>2 DEF Tree!CanRename, Tree!IsStrictPrefix, TreeIn
  <2>2. q # Base
    <3> SUFFICES ASSUME q = Base PROVE FALSE
        OBVIOUS
    <3>1. p \in Tree!Below(t, q)
        BY <2>1 DEF Tree!Below, Tree!IsStrictPrefix, TreeIn
    <3> QED
        BY <1>0, <1>2, <3>1 DEF Tree!CanRename
  <2>3. TreeBelow(p) /\ TreeBelow(q)
      BY <2>1, <2>2 DEF TreeBelow
  <2>4. ~ Tree!IsPrefix(p, q)
      BY <1>2 DEF Tree!CanRename, Tree!IsStrictPrefix
  <2>5. q # <<>>
      BY <1>0, <2>2, PathFrontLeads DEF TreeIn
  <2> DEFINE f == Tree!Front(q)
  <2>6. f \in TreePath /\ f \in DOMAIN t /\ Len(f) = Len(q) - 1 /\ Tree!IsPrefix(f, q)
      BY <2>5, PathFront DEF Tree!CanRename, Tree!Is
  <2>7. /\ moved \subseteq DOMAIN t /\ moved \subseteq TreePath
        /\ \A r \in DOMAIN t : r \in moved <=> Tree!IsPrefix(p, r)
      BY <1>0, TreeMovedIs
  <2>8. /\ DOMAIN u = (DOMAIN t \ moved) \cup new
        /\ \A r \in moved : /\ PathMoved(p, q, r) \in new /\ PathMoved(p, q, r) \in TreePath
                            /\ Tree!IsPrefix(q, PathMoved(p, q, r))
                            /\ u[PathMoved(p, q, r)] = t[r]
        /\ \A s \in DOMAIN t \ moved : s \notin new => u[s] = t[s]
      BY <1>0, TreeMovedAt
  <2>9. \A s \in new : \E r \in moved : s = PathMoved(p, q, r)
      BY DEF TreeNew
  <2>10. u = [s \in DOMAIN u |-> u[s]]
      BY DEF Tree!OsRename
  <2> HIDE DEF f, u, new, moved
  <2>11. \A r \in moved : TreeBelow(r) /\ TreeBelow(PathMoved(p, q, r))
    <3> SUFFICES ASSUME NEW r \in moved PROVE TreeBelow(r) /\ TreeBelow(PathMoved(p, q, r))
        OBVIOUS
    <3>1. r \in TreePath /\ Tree!IsPrefix(p, r)
        BY <2>7
    <3>2. TreeBelow(r)
        BY <1>0, <2>3, <3>1, TreeBelowOn
    <3> DEFINE m == PathMoved(p, q, r)
    <3>3. m \in TreePath /\ Tree!IsPrefix(q, m)
        BY <2>8
    <3> HIDE DEF m
    <3>4. TreeBelow(m)
        BY <2>3, <3>3, TreeBelowOn
    <3> QED
        BY <3>2, <3>4 DEF m
  <2>12. \A s \in DOMAIN u : \/ s \in DOMAIN t /\ u[s] = t[s] /\ s \notin new
                             \/ s \in new /\ \E r \in moved : u[s] = t[r]
      BY <2>8, <2>9
  <2>13. u \in [DOMAIN u -> Tree!Node] /\ DOMAIN u \subseteq TreePath
    <3>1. \A s \in DOMAIN u : u[s] \in Tree!Node
        BY <1>0, <2>7, <2>12 DEF TreeTyped
    <3>2. DOMAIN u \subseteq TreePath
        BY <1>0, <2>8, <2>9 DEF TreeTyped
    <3> QED
        BY <2>10, <3>1, <3>2
  <2>14. ASSUME NEW s \in TreePath, Tree!IsPrefix(s, q), s # q PROVE s \in DOMAIN t \ moved
    <3>1. Tree!IsPrefix(s, f)
        BY <2>14, PathFrontLeads DEF f
    <3>2. s = SubSeq(f, 1, Len(s)) /\ Len(s) \in 0 .. Len(f)
        BY <2>6, <3>1, PathLeadsCut
    <3>3. s \in DOMAIN t
        BY <1>0, <2>6, <3>2 DEF TreeClosed
    <3>4. ~ Tree!IsPrefix(p, s)
        BY <1>0, <2>4, <2>14, PathLeadsOn
    <3> QED
        BY <2>7, <3>3, <3>4
  <2>15. TreeClosed(DOMAIN u)
    <3> SUFFICES ASSUME NEW s \in DOMAIN u, NEW i \in 0 .. Len(s) PROVE SubSeq(s, 1, i) \in DOMAIN u
        BY DEF TreeClosed
    <3> DEFINE c == SubSeq(s, 1, i)
    <3>1. s \in TreePath
        BY <2>13
    <3>2. c \in TreePath /\ Tree!IsPrefix(c, s)
        BY <3>1, PathCut, PathCutLeads
    <3>3. CASE s \in DOMAIN t \ moved
      <4>1. c \in DOMAIN t
          BY <1>0, <3>3 DEF TreeClosed
      <4> HIDE DEF c
      <4>2. ~ Tree!IsPrefix(p, s)
          BY <2>7, <3>3
      <4>3. ~ Tree!IsPrefix(p, c)
          BY <1>0, <3>1, <3>2, <4>2, PathLeadsOn
      <4>4. c \in DOMAIN u
          BY <2>7, <2>8, <4>1, <4>3
      <4> QED
          BY <4>4 DEF c
    <3>4. CASE s \in new
      <4> HIDE DEF c
      <4>1. PICK r \in moved : s = PathMoved(p, q, r)
          BY <2>9, <3>4
      <4>2. r \in TreePath /\ r \in DOMAIN t /\ Tree!IsPrefix(p, r) /\ Tree!IsPrefix(q, s)
          BY <2>7, <2>8, <4>1
      <4>3. CASE Tree!IsPrefix(q, c)
        <5> DEFINE g == PathMoved(q, p, c)
        <5>1. g \in TreePath /\ Tree!IsPrefix(p, g)
            BY <1>0, <3>2, <4>3, PathMove
        <5>2. Tree!IsPrefix(g, PathMoved(q, p, s))
            BY <1>0, <3>1, <3>2, <4>3, PathMovedLeads
        <5>3. PathMoved(q, p, s) = r
            BY <1>0, <4>1, <4>2, PathBack
        <5>4. PathMoved(p, q, g) = c
            BY <1>0, <3>2, <4>3, PathBack
        <5> HIDE DEF g
        <5>5. g = SubSeq(r, 1, Len(g)) /\ Len(g) \in 0 .. Len(r)
            BY <4>2, <5>1, <5>2, <5>3, PathLeadsCut
        <5>6. g \in DOMAIN t
            BY <1>0, <4>2, <5>5 DEF TreeClosed
        <5>7. g \in moved
            BY <2>7, <5>1, <5>6
        <5>8. c \in DOMAIN u
            BY <2>8, <5>4, <5>7
        <5> QED
            BY <5>8 DEF c
      <4>4. CASE ~ Tree!IsPrefix(q, c)
        <5>1. Len(c) \in Nat /\ Len(q) \in Nat
            BY <3>2, PathLen
        <5>2. ~ (Len(q) <= Len(c))
            BY <3>1, <3>2, <4>2, <4>4, PathLeadsBoth
        <5>3. Tree!IsPrefix(c, q)
            BY <3>1, <3>2, <4>2, <5>1, <5>2, PathLeadsBoth
        <5>4. c # q
            BY <5>1, <5>2
        <5>5. c \in DOMAIN t \ moved
            BY <2>14, <3>2, <5>3, <5>4
        <5>6. c \in DOMAIN u
            BY <2>8, <5>5
        <5> QED
            BY <5>6 DEF c
      <4> QED
          BY <4>3, <4>4
    <3> QED
        BY <2>8, <3>3, <3>4
  <2>16. Base \in DOMAIN u /\ u[Base].kind = "dir"
    <3>1. Base \notin moved
        BY <2>11 DEF TreeBelow
    <3>2. Base \notin new
        BY <2>9, <2>11 DEF TreeBelow
    <3> QED
        BY <1>0, <2>8, <3>1, <3>2
  <2>17. \A s \in DOMAIN u : (TreeIn(s) => TreeClean(u[s].content, X)) /\ (u[s].fd => TreeIn(s))
    <3> SUFFICES ASSUME NEW s \in DOMAIN u
                 PROVE  (TreeIn(s) => TreeClean(u[s].content, X)) /\ (u[s].fd => TreeIn(s))
        OBVIOUS
    <3>1. CASE s \in DOMAIN t /\ u[s] = t[s]
        BY <3>1 DEF TreeGood
    <3>2. CASE s \in new
      <4>1. PICK r \in moved : s = PathMoved(p, q, r)
          BY <2>9, <3>2
      <4>2. u[s] = t[r] /\ r \in DOMAIN t /\ TreeIn(r) /\ TreeIn(s)
          BY <2>7, <2>8, <2>11, <4>1 DEF TreeBelow
      <4> QED
          BY <4>2 DEF TreeGood
    <3> QED
        BY <2>12, <3>1, <3>2
  <2>18. TreeTame(t, u)
    <3> SUFFICES ASSUME NEW s \in TreePath, ~ TreeIn(s)
                 PROVE  (s \in DOMAIN u <=> s \in DOMAIN t) /\ (s \in DOMAIN t => u[s] = t[s])
        BY DEF TreeTame
    <3>1. s \notin moved /\ s \notin new
        BY <2>9, <2>11 DEF TreeBelow
    <3> QED
        BY <2>8, <3>1
  <2>19. TreeGood(u, X)
      BY <2>13, <2>15, <2>16, <2>17 DEF TreeGood, TreeTyped
  <2> QED
      BY <2>18, <2>19 DEF TreeFrom, u
<1> QED
    BY <1>1, <1>2


(* The largest of some numbers up to n.                                     *)
LEMMA LargestOf ==
    ASSUME NEW n \in Nat, NEW S \in SUBSET (0 .. n), S # {}
    PROVE  Tree!Max(S) \in S /\ \A k \in S : k <= Tree!Max(S)
<1> DEFINE T == {m \in 0 .. n : n - m \in S}
<1>1. PICK x : x \in S
    OBVIOUS
<1>2. n - x \in T
    BY <1>1
<1>3. T \in SUBSET Nat /\ T # {}
    BY <1>2
<1>4. PICK m \in T : \A k \in T : m <= k
  <2> HIDE DEF T
  <2> QED
      BY <1>3, Smallest
<1>5. n - m \in S /\ m \in 0 .. n
    OBVIOUS
<1>6. ASSUME NEW k \in S PROVE n - m >= k
  <2>1. k \in 0 .. n /\ n - k \in 0 .. n /\ n - (n - k) = k
      OBVIOUS
  <2>2. n - k \in T
      BY <2>1
  <2>3. m <= n - k
    <3> HIDE DEF T
    <3> QED
        BY <1>4, <2>2
  <2> QED
      BY <1>5, <2>1, <2>3
<1>7. \E y \in S : \A k \in S : y >= k
    BY <1>5, <1>6
<1>8. Tree!Max(S) \in S /\ \A k \in S : Tree!Max(S) >= k
    BY <1>7 DEF Tree!Max
<1> QED
    BY <1>8

(* Where a path leads is a path, and where a request may go is below the    *)
(* base path.                                                               *)
LEMMA TreeNowhere == Tree!Nowhere \in TreePath /\ <<>> \in TreePath /\ Tree!Nowhere # <<>>
BY TreeBounded DEF Tree!Nowhere, TreePath

(* A name is added.                                                         *)
LEMMA PathAdds ==
    ASSUME NEW p \in TreePath, NEW x \in STRING
    PROVE  /\ Append(p, x) \in TreePath /\ Len(Append(p, x)) = Len(p) + 1
           /\ Append(p, x)[Len(p) + 1] = x
           /\ \A i \in 1 .. Len(p) : Append(p, x)[i] = p[i]
<1>1. Len(p) \in Nat
    BY PathLen
<1>2. /\ Append(p, x) \in Seq(STRING) /\ Len(Append(p, x)) = Len(p) + 1
      /\ \A i \in 1 .. Len(p) + 1 : Append(p, x)[i] = IF i = Len(p) + 1 THEN x ELSE p[i]
    BY AppendProperties DEF TreePath
<1>3. \A i \in 1 .. Len(p) : i \in 1 .. Len(p) + 1 /\ i # Len(p) + 1
    BY <1>1
<1>4. Len(p) + 1 \in 1 .. Len(p) + 1
    BY <1>1
<1> QED
    BY <1>2, <1>3, <1>4 DEF TreePath

(* A link leads to a path.                                                  *)
LEMMA TreeFollows ==
    ASSUME NEW t, TreeTyped(t), NEW q \in TreePath
    PROVE  Tree!Follow(t, q) \in TreePath
<1>1. CASE q \notin DOMAIN t
    BY <1>1, TreeNowhere DEF Tree!Follow
<1>2. CASE q \in DOMAIN t
  <2>1. t[q].to \in TreePath
      BY <1>2, TreeTyping
  <2> QED
      BY <1>2, <2>1, TreeNowhere DEF Tree!Follow
<1> QED
    BY <1>1, <1>2

(* EvalSymlinks leads to a path.                                            *)
LEMMA TreeLeads ==
    ASSUME NEW t, TreeTyped(t), NEW path \in TreePath
    PROVE  /\ Tree!EvalSymlinks(t, path) \in TreePath
           /\ Len(path) = 0 => Tree!EvalSymlinks(t, path) = <<>>
<1> DEFINE n == Len(path)
           V == TreePath
           b == <<>>
           Turn(i, at) == Tree!Follow(t, Append(at, path[i]))
           G == [i \in 1 .. n |-> [v \in V |-> Turn(i, v)]]
           F == CHOOSE at : at = [i \in 0 .. n |-> IF i = 0 THEN b ELSE Turn(i, at[i - 1])]
<1>1. n \in Nat /\ b \in V
    BY PathLen, TreeNowhere
<1>2. ASSUME NEW i \in 1 .. n, NEW v \in V PROVE Turn(i, v) \in V
  <2>1. path[i] \in STRING
      BY PathLen
  <2>2. Append(v, path[i]) \in TreePath
      BY <2>1, PathAdds
  <2> QED
      BY <2>2, TreeFollows
<1>3. Tree!EvalSymlinks(t, path) = F[n]
    BY DEF Tree!EvalSymlinks
<1> HIDE DEF V, Turn, n, b
<1>4. G \in [1 .. n -> [V -> V]]
    BY <1>2
<1>5. ASSUME NEW f \in [0 .. n -> V], f[0] = b, \A i \in 1 .. n : f[i] = G[i][f[i - 1]]
      PROVE  f = [i \in 0 .. n |-> IF i = 0 THEN b ELSE Turn(i, f[i - 1])]
  <2>1. ASSUME NEW i \in 1 .. n PROVE f[i] = Turn(i, f[i - 1])
    <3>1. f[i - 1] \in V
        BY <1>1
    <3> QED
        BY <1>5, <3>1
  <2>2. \A i \in 0 .. n : f[i] = IF i = 0 THEN b ELSE Turn(i, f[i - 1])
      BY <1>1, <1>5, <2>1
  <2> QED
      BY <2>2
<1>6. ASSUME NEW f, f = [i \in 0 .. n |-> IF i = 0 THEN b ELSE Turn(i, f[i - 1])]
      PROVE  F = [i \in 0 .. n |-> IF i = 0 THEN b ELSE Turn(i, F[i - 1])]
    BY <1>6
<1> HIDE DEF F
<1>7. ASSUME NEW f \in [0 .. n -> V], f[0] = b, \A i \in 1 .. n : f[i] = G[i][f[i - 1]]
      PROVE  F[0] = b /\ \A i \in 1 .. n : F[i - 1] \in V => F[i] = G[i][F[i - 1]]
  <2>1. F = [i \in 0 .. n |-> IF i = 0 THEN b ELSE Turn(i, F[i - 1])]
      BY <1>5, <1>6, <1>7
  <2>2. F[0] = b /\ \A i \in 1 .. n : F[i] = Turn(i, F[i - 1])
      BY <1>1, <2>1
  <2> QED
      BY <2>2
<1> HIDE DEF G
<1>8. LoopOf(V, b, n, G, F)
    BY <1>1, <1>4, <1>7 DEF LoopOf
<1>9. \A i \in 0 .. n : F[i] \in V
    BY <1>8, LoopKeeps
<1>10. F[0] = b
    BY <1>8, LoopRuns
<1>11. F[n] \in V /\ (n = 0 => F[n] = b)
    BY <1>1, <1>9, <1>10
<1> QED
    BY <1>3, <1>11 DEF V, n, b

(* ValidatePath answers an error or a path under the base.                  *)
LEMMA TreeResolves ==
    ASSUME NEW t, TreeTyped(t), NEW path \in TreePath
    PROVE  \/ Tree!ValidatePath(t, path) = Tree!Nowhere
           \/ Tree!ValidatePath(t, path) \in TreePath /\ TreeIn(Tree!ValidatePath(t, path))
<1> DEFINE abs == Base \o path
           n == Len(abs)
           parts == [i \in 0 .. n |-> Tree!EvalSymlinks(t, SubSeq(abs, 1, i))]
           S == {i \in DOMAIN parts : parts[i] # Tree!Nowhere}
           k == Tree!Max(S)
           found == Tree!Climb(abs, parts)
<1>1. abs \in TreePath /\ n \in Nat
    BY TreeBounded, PathJoin, PathLen
<1> HIDE DEF abs
<1>2. ASSUME NEW i \in 0 .. n
      PROVE  parts[i] \in TreePath /\ (i = 0 => parts[i] = <<>>)
    BY <1>1, PathCut, TreeLeads
<1>3. DOMAIN parts = 0 .. n
    OBVIOUS
<1>4. found.at = parts[k] /\ found.rest = SubSeq(abs, k + 1, n)
    BY DEF Tree!Climb
<1>5. Tree!ValidatePath(t, path) = Tree!Confine(t, found)
    BY DEF Tree!ValidatePath, Tree!ResolveInSandbox, abs
<1> HIDE DEF parts, found, n
<1>6. S \in SUBSET (0 .. n) /\ 0 \in S
    BY <1>1, <1>2, <1>3, TreeNowhere
<1> HIDE DEF S
<1>7. k \in S
    BY <1>1, <1>6, LargestOf
<1>8. k \in 0 .. n
    BY <1>6, <1>7
<1> HIDE DEF k
<1>9. parts[k] \in TreePath /\ SubSeq(abs, k + 1, n) \in TreePath
    BY <1>1, <1>2, <1>8, PathTail DEF n
<1>10. found.at \o found.rest \in TreePath
    BY <1>4, <1>9, PathJoin
<1>11. \/ Tree!Confine(t, found) = Tree!Nowhere
       \/ Tree!Confine(t, found) = found.at \o found.rest /\ TreeIn(found.at \o found.rest)
    BY DEF Tree!Confine, Tree!IsSubPath, TreeIn
<1> QED
    BY <1>5, <1>10, <1>11

(* A path that is answered is relative to the base.                         *)
LEMMA TreeRelative ==
    ASSUME NEW p \in TreePath, TreeIn(p)
    PROVE  Tree!toRelativePath(p) \in TreePath
<1>1. Len(Base) \in 0 .. Len(p)
    BY TreeBounded, PathLeadsCut DEF TreeIn
<1> QED
    BY <1>1, PathTail DEF Tree!toRelativePath

(* Requests name paths.                                                     *)
LEMMA TreeAsked == ASSUME NEW p \in Tree!Asked PROVE p \in TreePath
<1>1. PICK q \in Paths : Tree!IsPrefix(Base, q) /\ p = Tree!toRelativePath(q)
    BY DEF Tree!Asked
<1> QED
    BY <1>1, TreeBounded, TreeRelative DEF TreeIn


(* The trees there are.                                                     *)
TreeSpace == UNION {[D -> Tree!Node] : D \in SUBSET TreePath}

(* They are in one set, over which the loops run.                           *)
LEMMA TreeSpaceIs == ASSUME NEW u PROVE TreeTyped(u) <=> u \in TreeSpace
<1>1. ASSUME TreeTyped(u) PROVE u \in TreeSpace
    BY <1>1 DEF TreeTyped, TreeSpace
<1>2. ASSUME u \in TreeSpace PROVE TreeTyped(u)
  <2>1. PICK D \in SUBSET TreePath : u \in [D -> Tree!Node]
      BY <1>2 DEF TreeSpace
  <2>2. DOMAIN u = D
      BY <2>1
  <2> QED
      BY <2>1, <2>2 DEF TreeTyped
<1> QED
    BY <1>1, <1>2

(* A path leads to what is below it.                                        *)
LEMMA PathJoinLeads ==
    ASSUME NEW p \in TreePath, NEW q \in TreePath
    PROVE  Tree!IsPrefix(p, p \o q)
<1> DEFINE r == p \o q
<1>1. /\ r \in TreePath /\ Len(r) = Len(p) + Len(q) /\ Len(p) \in Nat /\ Len(q) \in Nat
      /\ \A i \in 1 .. Len(p) : r[i] = p[i]
    BY PathJoin, PathLen
<1> HIDE DEF r
<1>2. Tree!IsPrefix(p, r)
    BY <1>1, PathLeads
<1> QED
    BY <1>2 DEF r

(* The directory of a path, of the root too.                                *)
LEMMA PathFrontAny ==
    ASSUME NEW p \in TreePath
    PROVE  Tree!Front(p) \in TreePath /\ Tree!IsPrefix(Tree!Front(p), p)
<1>1. CASE p # <<>>
    BY <1>1, PathFront
<1>2. CASE p = <<>>
  <2>1. SubSeq(p, 1, Len(p) - 1) = <<>>
      BY <1>2, SubSeqEmpty
  <2>2. Tree!Front(p) = p
      BY <1>2, <2>1 DEF Tree!Front
  <2> QED
      BY <2>2, PathLeadsSelf
<1> QED
    BY <1>1, <1>2

(* A sequence of moves.                                                     *)
MoveStates(t, X) == {s \in [t : TreeSpace, bad : BOOLEAN] : TreeFrom(t, s.t, X)}

(* moveOne keeps this.                                                      *)
LEMMA TreeMovesOne ==
    ASSUME NEW t, NEW X, NEW s \in MoveStates(t, X), NEW v \in TreePath, TreeIn(v),
           NEW w \in TreePath, TreeIn(w)
    PROVE  Tree!moveOne(s, v, Append(w, Tree!Last(v))) \in MoveStates(t, X)
<1> DEFINE to == Append(w, Tree!Last(v))
<1>1. s \in [t : TreeSpace, bad : BOOLEAN] /\ TreeGood(s.t, X) /\ TreeTame(t, s.t)
    BY DEF MoveStates, TreeFrom
<1>2. CASE s.bad \/ ~ Tree!CanRename(s.t, v, to)
  <2>1. Tree!moveOne(s, v, to) = [s EXCEPT !.bad = TRUE]
      BY <1>2 DEF Tree!moveOne
  <2>2. [s EXCEPT !.bad = TRUE] \in [t : TreeSpace, bad : BOOLEAN] /\ [s EXCEPT !.bad = TRUE].t = s.t
      BY <1>1
  <2> HIDE DEF to
  <2>3. Tree!moveOne(s, v, to) \in MoveStates(t, X)
      BY <1>1, <2>1, <2>2 DEF MoveStates, TreeFrom
  <2> QED
      BY <2>3 DEF to
<1>3. CASE ~ s.bad /\ Tree!CanRename(s.t, v, to)
  <2>1. v # <<>>
    <3> SUFFICES ASSUME v = <<>> PROVE FALSE
        OBVIOUS
    <3> DEFINE S == STRING \cup {Tree!Last(v)}
    <3>1. w \in Seq(S)
      <4>1. Len(w) \in Nat /\ \A i \in 1 .. Len(w) : w[i] \in S
          BY PathLen
      <4>2. w = [i \in 1 .. Len(w) |-> w[i]]
          BY DEF TreePath
      <4> QED
          BY <4>1, <4>2
    <3>2. Len(to) = Len(w) + 1 /\ Len(w) \in Nat
        BY <3>1, AppendProperties, PathLen
    <3>3. Len(v) = 0 /\ SubSeq(to, 1, 0) = <<>> /\ SubSeq(v, 1, 0) = <<>>
        BY SubSeqEmpty
    <3> HIDE DEF to
    <3>4. Len(v) <= Len(to) /\ v # to
        BY <3>2, <3>3
    <3>5. Tree!IsStrictPrefix(v, to)
        BY <3>3, <3>4 DEF Tree!IsStrictPrefix, Tree!IsPrefix
    <3> QED
        BY <1>3, <3>5 DEF Tree!CanRename
  <2>2. Tree!Last(v) \in STRING
      BY <2>1, PathFront, PathLen DEF Tree!Last
  <2>3. to \in TreePath
      BY <2>2, PathAdds
  <2>4. TreeIn(to)
    <3>1. Tree!IsPrefix(w, to)
      <4>1. /\ Len(to) = Len(w) + 1 /\ \A i \in 1 .. Len(w) : to[i] = w[i]
            /\ Len(w) \in Nat
          BY <2>2, PathAdds, PathLen
      <4> HIDE DEF to
      <4> QED
          BY <2>3, <4>1, PathLeads
    <3> HIDE DEF to
    <3> QED
        BY <2>3, <3>1, TreeBounded, PathLeadsOn DEF TreeIn
  <2> HIDE DEF to
  <2> DEFINE u == Tree!OsRename(s.t, v, to)
  <2>5. Tree!moveOne(s, v, to) = [s EXCEPT !.t = u]
      BY <1>3 DEF Tree!moveOne
  <2>6. v \in DOMAIN s.t
      BY <1>3 DEF Tree!CanRename
  <2>7. TreeFrom(s.t, u, X)
      BY <1>1, <1>3, <2>3, <2>4, <2>6, TreeRenames
  <2> HIDE DEF u
  <2>8. TreeFrom(t, u, X) /\ u \in TreeSpace
      BY <1>1, <2>7, TreeTameOn, TreeSpaceIs DEF TreeFrom, TreeGood
  <2>9. [s EXCEPT !.t = u] \in [t : TreeSpace, bad : BOOLEAN] /\ [s EXCEPT !.t = u].t = u
      BY <1>1, <2>8
  <2>10. Tree!moveOne(s, v, to) \in MoveStates(t, X)
      BY <2>5, <2>8, <2>9 DEF MoveStates
  <2> QED
      BY <2>10 DEF to
<1>4. s.bad \in BOOLEAN
    BY <1>1
<1> QED
    BY <1>2, <1>3

(* moveAll keeps it, through its loop.                                      *)
LEMMA TreeMoves ==
    ASSUME NEW t, NEW X, TreeGood(t, X), NEW w \in TreePath, TreeIn(w),
           NEW vs \in Seq(TreePath), \A i \in 1 .. Len(vs) : TreeIn(vs[i])
    PROVE  Tree!moveAll(t, vs, w) \in MoveStates(t, X)
<1> DEFINE n == Len(vs)
           V == MoveStates(t, X)
           b == [t |-> t, bad |-> FALSE]
           Turn(i, s) == Tree!moveOne(s, vs[i], Append(w, Tree!Last(vs[i])))
           G == [i \in 1 .. n |-> [v \in V |-> Turn(i, v)]]
           F == CHOOSE at : at = [i \in 0 .. n |-> IF i = 0 THEN b ELSE Turn(i, at[i - 1])]
<1>1. n \in Nat /\ b \in V
  <2>1. t \in TreeSpace /\ TreeFrom(t, t, X)
      BY TreeSpaceIs, TreeTameSelf DEF TreeGood, TreeFrom
  <2> QED
      BY <2>1 DEF MoveStates
<1>2. ASSUME NEW i \in 1 .. n, NEW v \in V PROVE Turn(i, v) \in V
    BY TreeMovesOne
<1>3. Tree!moveAll(t, vs, w) = F[n]
    BY DEF Tree!moveAll
<1> HIDE DEF V, Turn, n, b
<1>4. G \in [1 .. n -> [V -> V]]
    BY <1>2
<1>5. ASSUME NEW f \in [0 .. n -> V], f[0] = b, \A i \in 1 .. n : f[i] = G[i][f[i - 1]]
      PROVE  f = [i \in 0 .. n |-> IF i = 0 THEN b ELSE Turn(i, f[i - 1])]
  <2>1. ASSUME NEW i \in 1 .. n PROVE f[i] = Turn(i, f[i - 1])
    <3>1. f[i - 1] \in V
        BY <1>1
    <3> QED
        BY <1>5, <3>1
  <2>2. \A i \in 0 .. n : f[i] = IF i = 0 THEN b ELSE Turn(i, f[i - 1])
      BY <1>1, <1>5, <2>1
  <2> QED
      BY <2>2
<1>6. ASSUME NEW f, f = [i \in 0 .. n |-> IF i = 0 THEN b ELSE Turn(i, f[i - 1])]
      PROVE  F = [i \in 0 .. n |-> IF i = 0 THEN b ELSE Turn(i, F[i - 1])]
    BY <1>6
<1> HIDE DEF F
<1>7. ASSUME NEW f \in [0 .. n -> V], f[0] = b, \A i \in 1 .. n : f[i] = G[i][f[i - 1]]
      PROVE  F[0] = b /\ \A i \in 1 .. n : F[i - 1] \in V => F[i] = G[i][F[i - 1]]
  <2>1. F = [i \in 0 .. n |-> IF i = 0 THEN b ELSE Turn(i, F[i - 1])]
      BY <1>5, <1>6, <1>7
  <2>2. F[0] = b /\ \A i \in 1 .. n : F[i] = Turn(i, F[i - 1])
      BY <1>1, <2>1
  <2> QED
      BY <2>2
<1> HIDE DEF G
<1>8. LoopOf(V, b, n, G, F)
    BY <1>1, <1>4, <1>7 DEF LoopOf
<1>9. \A i \in 0 .. n : F[i] \in V
    BY <1>8, LoopKeeps

<1>11. F[n] \in V
    BY <1>1, <1>9
<1> QED
    BY <1>3, <1>11 DEF V, n


(* What an extraction made, in the order in which it did: every part of the *)
(* list is such that nothing in it lacks the directories that lead to it.   *)
MadeUpto(D, m, k) == D \cup {m[j] : j \in 1 .. k}
TreeMade(D, m) ==
    /\ m \in Seq(TreePath)
    /\ \A k \in 1 .. Len(m) : TreeBelow(m[k])
    /\ \A k \in 0 .. Len(m) : TreeClosed(MadeUpto(D, m, k))

(* The record of what was made grows at its end.                            *)
LEMMA MadeMore ==
    ASSUME NEW D, NEW m \in Seq(TreePath), NEW new \in Seq(TreePath)
    PROVE  /\ m \o new \in Seq(TreePath) /\ Len(m \o new) = Len(m) + Len(new)
           /\ \A i \in 1 .. Len(m) : (m \o new)[i] = m[i]
           /\ \A i \in 1 .. Len(new) : (m \o new)[Len(m) + i] = new[i]
           /\ \A k \in 0 .. Len(m) : MadeUpto(D, m \o new, k) = MadeUpto(D, m, k)
           /\ \A i \in 0 .. Len(new) : MadeUpto(D, m \o new, Len(m) + i)
                  = MadeUpto(D, m, Len(m)) \cup {new[j] : j \in 1 .. i}
<1> DEFINE r == m \o new
           a == Len(m)
           b == Len(new)
<1>1. /\ r \in Seq(TreePath) /\ Len(r) = a + b
      /\ \A i \in 1 .. a + b : r[i] = IF i <= a THEN m[i] ELSE new[i - a]
    BY ConcatProperties
<1>2. a \in Nat /\ b \in Nat
    OBVIOUS
<1> HIDE DEF r, a, b
<1>3. \A i \in 1 .. a : r[i] = m[i]
    BY <1>1, <1>2
<1>4. ASSUME NEW i \in 1 .. b PROVE r[a + i] = new[i]
  <2> DEFINE k == a + i
  <2>1. k \in 1 .. a + b /\ ~ (k <= a) /\ k - a = i
      BY <1>2
  <2> HIDE DEF k
  <2>2. r[k] = IF k <= a THEN m[k] ELSE new[k - a]
      BY ONLY <1>1, <2>1
  <2>3. r[k] = new[i]
      BY <2>1, <2>2
  <2> QED
      BY <2>3 DEF k
<1>5. ASSUME NEW k \in 0 .. a PROVE MadeUpto(D, r, k) = MadeUpto(D, m, k)
  <2>1. \A j \in 1 .. k : r[j] = m[j]
      BY <1>2, <1>3
  <2> DEFINE A == {r[j] : j \in 1 .. k}
             B == {m[j] : j \in 1 .. k}
  <2>2. A = B
      BY <2>1
  <2>3. MadeUpto(D, r, k) = D \cup A /\ MadeUpto(D, m, k) = D \cup B
      BY DEF MadeUpto
  <2> HIDE DEF A, B
  <2> QED
      BY <2>2, <2>3
<1>6. ASSUME NEW i \in 0 .. b
      PROVE  MadeUpto(D, r, a + i) = MadeUpto(D, m, a) \cup {new[j] : j \in 1 .. i}
  <2>1. ASSUME NEW x \in MadeUpto(D, r, a + i)
        PROVE  x \in MadeUpto(D, m, a) \cup {new[j] : j \in 1 .. i}
    <3>1. CASE x \in D
        BY <3>1 DEF MadeUpto
    <3>2. CASE \E j \in 1 .. a + i : x = r[j]
      <4>1. PICK j \in 1 .. a + i : x = r[j]
          BY <3>2
      <4>2. CASE j <= a
        <5>1. j \in 1 .. a /\ x = m[j]
            BY <1>2, <1>3, <4>1, <4>2
        <5> QED
            BY <5>1 DEF MadeUpto
      <4>3. CASE ~ (j <= a)
        <5> DEFINE l == j - a
        <5>1. l \in 1 .. i /\ l \in 1 .. b /\ j = a + l
            BY <1>2, <4>3
        <5> HIDE DEF l
        <5>2. x = new[l]
            BY <1>4, <4>1, <5>1
        <5> QED
            BY <5>1, <5>2
      <4> QED
          BY <4>2, <4>3
    <3> QED
        BY <2>1, <3>1, <3>2 DEF MadeUpto
  <2>2. \A j \in 1 .. a : j \in 1 .. a + i /\ m[j] = r[j]
      BY <1>2, <1>3
  <2>3. \A j \in 1 .. i : j \in 1 .. b /\ a + j \in 1 .. a + i
      BY <1>2
  <2>4. \A j \in 1 .. i : new[j] = r[a + j]
      BY <1>4, <2>3
  <2> QED
      BY <2>1, <2>2, <2>3, <2>4 DEF MadeUpto
<1> QED
    BY <1>1, <1>3, <1>4, <1>5, <1>6 DEF r, a, b

MadeFits(U, new) ==
    /\ new \in Seq(TreePath) /\ \A i \in 1 .. Len(new) : TreeBelow(new[i])
    /\ \A i \in 1 .. Len(new) : \A l \in 0 .. Len(new[i]) :
           SubSeq(new[i], 1, l) \in U \cup {new[j] : j \in 1 .. i}

(* What fits a tree fits a larger one.                                      *)
LEMMA MadeFitsMore ==
    ASSUME NEW A, NEW U, A \subseteq U, NEW new, MadeFits(A, new)
    PROVE  MadeFits(U, new)
BY DEF MadeFits

(* The record grows by what fits.                                           *)
LEMMA MadeGrows ==
    ASSUME NEW D, NEW m, TreeMade(D, m), NEW new, MadeFits(MadeUpto(D, m, Len(m)), new)
    PROVE  /\ TreeMade(D, m \o new)
           /\ MadeUpto(D, m \o new, Len(m \o new))
                  = MadeUpto(D, m, Len(m)) \cup {new[j] : j \in 1 .. Len(new)}
<1> DEFINE r == m \o new
           a == Len(m)
           b == Len(new)
           U == MadeUpto(D, m, a)
<1>1. m \in Seq(TreePath) /\ new \in Seq(TreePath) /\ a \in Nat /\ b \in Nat
    BY DEF TreeMade, MadeFits
<1>2. /\ r \in Seq(TreePath) /\ Len(r) = a + b
      /\ \A i \in 1 .. a : r[i] = m[i]
      /\ \A i \in 1 .. b : r[a + i] = new[i]
      /\ \A k \in 0 .. a : MadeUpto(D, r, k) = MadeUpto(D, m, k)
      /\ \A i \in 0 .. b : MadeUpto(D, r, a + i) = U \cup {new[j] : j \in 1 .. i}
    BY <1>1, MadeMore, ZenonT(60)
<1>3. /\ \A k \in 1 .. a : TreeBelow(m[k])
      /\ \A k \in 0 .. a : TreeClosed(MadeUpto(D, m, k))
    BY DEF TreeMade
<1>4. /\ \A i \in 1 .. b : TreeBelow(new[i])
      /\ \A i \in 1 .. b : \A l \in 0 .. Len(new[i]) :
            SubSeq(new[i], 1, l) \in U \cup {new[j] : j \in 1 .. i}
    BY DEF MadeFits
<1>5. TreeClosed(U)
    BY <1>1, <1>3
<1> HIDE DEF r, a, b, U
<1>6. ASSUME NEW k \in 1 .. a + b PROVE TreeBelow(r[k])
  <2>1. CASE k <= a
    <3>1. k \in 1 .. a
        BY <1>1, <2>1
    <3> QED
        BY <1>2, <1>3, <3>1
  <2>2. CASE ~ (k <= a)
    <3> DEFINE i == k - a
    <3>1. i \in 1 .. b /\ k = a + i
        BY <1>1, <2>2
    <3> HIDE DEF i
    <3> QED
        BY <1>2, <1>4, <3>1
  <2> QED
      BY <2>1, <2>2
<1>7. ASSUME NEW i \in 0 .. b PROVE TreeClosed(U \cup {new[j] : j \in 1 .. i})
  <2> SUFFICES ASSUME NEW p \in U \cup {new[j] : j \in 1 .. i}, NEW l \in 0 .. Len(p)
               PROVE  SubSeq(p, 1, l) \in U \cup {new[j] : j \in 1 .. i}
      BY DEF TreeClosed
  <2>1. CASE p \in U
      BY <1>5, <2>1 DEF TreeClosed
  <2>2. CASE \E j \in 1 .. i : p = new[j]
    <3>1. PICK j \in 1 .. i : p = new[j]
        BY <2>2
    <3>2. j \in 1 .. b /\ \A h \in 1 .. j : h \in 1 .. i
        BY <1>1
    <3>3. SubSeq(p, 1, l) \in U \cup {new[h] : h \in 1 .. j}
        BY <1>4, <3>1, <3>2
    <3> QED
        BY <3>2, <3>3
  <2> QED
      BY <2>1, <2>2
<1>8. ASSUME NEW k \in 0 .. a + b PROVE TreeClosed(MadeUpto(D, r, k))
  <2>1. CASE k <= a
    <3>1. k \in 0 .. a
        BY <1>1, <2>1
    <3> QED
        BY <1>2, <1>3, <3>1
  <2>2. CASE ~ (k <= a)
    <3> DEFINE i == k - a
    <3>1. i \in 0 .. b /\ k = a + i
        BY <1>1, <2>2
    <3> HIDE DEF i
    <3> QED
        BY <1>2, <1>7, <3>1
  <2> QED
      BY <2>1, <2>2
<1>9. TreeMade(D, r)
    BY <1>2, <1>6, <1>8 DEF TreeMade
<1>10. b \in 0 .. b
    BY <1>1
<1>11. MadeUpto(D, r, Len(r)) = U \cup {new[j] : j \in 1 .. b}
    BY <1>2, <1>10
<1> QED
    BY <1>9, <1>11 DEF r, a, b, U

(* The state of an extraction that began with the tree t.                   *)
ZipStates(t, X) ==
    {s \in [t : TreeSpace, made : Seq(TreePath), count : Nat, bad : BOOLEAN] :
        /\ TreeFrom(t, s.t, X) /\ TreeMade(DOMAIN t, s.made)
        /\ DOMAIN s.t \subseteq MadeUpto(DOMAIN t, s.made, Len(s.made))}

(* What such a state says.                                                  *)
LEMMA ZipIs ==
    ASSUME NEW t, NEW X, NEW s \in ZipStates(t, X)
    PROVE  /\ s \in [t : TreeSpace, made : Seq(TreePath), count : Nat, bad : BOOLEAN]
           /\ TreeTyped(s.t) /\ TreeClosed(DOMAIN s.t) /\ Base \in DOMAIN s.t
           /\ TreeGood(s.t, X) /\ TreeTame(t, s.t) /\ TreeMade(DOMAIN t, s.made)
           /\ s.made \in Seq(TreePath)
           /\ DOMAIN s.t \subseteq MadeUpto(DOMAIN t, s.made, Len(s.made))
BY DEF ZipStates, TreeFrom, TreeGood

(* The other fields may be set freely.                                      *)
LEMMA ZipFields ==
    ASSUME NEW t, NEW X, NEW s \in ZipStates(t, X),
           NEW r \in [t : TreeSpace, made : Seq(TreePath), count : Nat, bad : BOOLEAN],
           r.t = s.t, r.made = s.made
    PROVE  r \in ZipStates(t, X)
BY DEF ZipStates

(* The outcome of an extraction is noted.                                   *)
LEMMA ZipBad == ASSUME NEW t, NEW X, NEW s \in ZipStates(t, X), NEW b \in BOOLEAN
                PROVE  [s EXCEPT !.bad = b] \in ZipStates(t, X)
<1> DEFINE r == [s EXCEPT !.bad = b]
<1>0. s \in [t : TreeSpace, made : Seq(TreePath), count : Nat, bad : BOOLEAN]
    BY ZipIs
<1>1. /\ r \in [t : TreeSpace, made : Seq(TreePath), count : Nat, bad : BOOLEAN]
      /\ r.t = s.t /\ r.made = s.made
    BY <1>0
<1> HIDE DEF r
<1>2. r \in ZipStates(t, X)
    BY <1>1, ZipFields
<1> QED
    BY <1>2 DEF r

(* An extraction fails.                                                     *)
LEMMA ZipFails == ASSUME NEW t, NEW X, NEW s \in ZipStates(t, X)
                  PROVE  [s EXCEPT !.bad = TRUE] \in ZipStates(t, X)
<1> DEFINE r == [s EXCEPT !.bad = TRUE]
<1>0. s \in [t : TreeSpace, made : Seq(TreePath), count : Nat, bad : BOOLEAN]
    BY ZipIs
<1>1. /\ r \in [t : TreeSpace, made : Seq(TreePath), count : Nat, bad : BOOLEAN]
      /\ r.t = s.t /\ r.made = s.made
    BY <1>0
<1> HIDE DEF r
<1>2. r \in ZipStates(t, X)
    BY <1>1, ZipFields
<1> QED
    BY <1>2 DEF r

(* An entry is counted.                                                     *)
LEMMA ZipCounts == ASSUME NEW t, NEW X, NEW s \in ZipStates(t, X), NEW n \in Nat
                   PROVE  [s EXCEPT !.count = n] \in ZipStates(t, X)
<1> DEFINE r == [s EXCEPT !.count = n]
<1>0. s \in [t : TreeSpace, made : Seq(TreePath), count : Nat, bad : BOOLEAN]
    BY ZipIs
<1>1. /\ r \in [t : TreeSpace, made : Seq(TreePath), count : Nat, bad : BOOLEAN]
      /\ r.t = s.t /\ r.made = s.made
    BY <1>0
<1> HIDE DEF r
<1>2. r \in ZipStates(t, X)
    BY <1>1, ZipFields
<1> QED
    BY <1>2 DEF r

(* More was made, and noted.                                                *)
LEMMA ZipMore ==
    ASSUME NEW t, NEW X, NEW s \in ZipStates(t, X), NEW u, TreeFrom(s.t, u, X),
           NEW new, MadeFits(DOMAIN s.t, new),
           DOMAIN u \subseteq DOMAIN s.t \cup {new[j] : j \in 1 .. Len(new)}
    PROVE  [s EXCEPT !.t = u, !.made = @ \o new] \in ZipStates(t, X)
<1> DEFINE m == s.made
           r == [s EXCEPT !.t = u, !.made = @ \o new]
           R == [t : TreeSpace, made : Seq(TreePath), count : Nat, bad : BOOLEAN]
           D == DOMAIN t
           U == MadeUpto(D, m, Len(m))
<1>1. s \in R /\ TreeTame(t, s.t) /\ TreeMade(D, m) /\ DOMAIN s.t \subseteq U
    BY ZipIs
<1>2. MadeFits(U, new)
    BY <1>1, MadeFitsMore
<1> HIDE DEF m, D
<1>3. /\ TreeMade(D, m \o new)
      /\ MadeUpto(D, m \o new, Len(m \o new)) = U \cup {new[j] : j \in 1 .. Len(new)}
    BY <1>1, <1>2, MadeGrows
<1> HIDE DEF U
<1>4. DOMAIN u \subseteq MadeUpto(D, m \o new, Len(m \o new))
    BY <1>1, <1>3
<1>5. TreeFrom(t, u, X) /\ u \in TreeSpace
    BY <1>1, TreeTameOn, TreeSpaceIs DEF TreeFrom, TreeGood
<1>6. m \o new \in Seq(TreePath)
    BY <1>3 DEF TreeMade
<1>7. r \in R /\ r.t = u /\ r.made = m \o new
    BY <1>1, <1>5, <1>6 DEF m
<1> HIDE DEF r
<1>8. r \in ZipStates(t, X)
    BY <1>3, <1>4, <1>5, <1>7 DEF ZipStates, D
<1> QED
    BY <1>8 DEF r


(* The first names of the first names.                                      *)
LEMMA PathCutCut ==
    ASSUME NEW p \in TreePath, NEW j \in 0 .. Len(p), NEW l \in 0 .. j
    PROVE  SubSeq(SubSeq(p, 1, j), 1, l) = SubSeq(p, 1, l)
<1> DEFINE a == SubSeq(p, 1, j)
           b == SubSeq(a, 1, l)
           c == SubSeq(p, 1, l)
<1>1. Len(p) \in Nat /\ l \in 0 .. Len(p)
    BY PathLen
<1>2. a \in TreePath /\ Len(a) = j /\ \A i \in 1 .. j : a[i] = p[i]
    BY PathCut
<1>3. c \in TreePath /\ Len(c) = l /\ \A i \in 1 .. l : c[i] = p[i]
    BY <1>1, PathCut
<1> HIDE DEF a, c
<1>4. b \in TreePath /\ Len(b) = l /\ \A i \in 1 .. l : b[i] = a[i]
    BY <1>2, PathCut
<1> HIDE DEF b
<1>5. \A i \in 1 .. l : i \in 1 .. j
    BY <1>1
<1>6. b = c
    BY <1>2, <1>3, <1>4, <1>5, PathSame
<1> QED
    BY <1>6 DEF a, b, c

(* The directories of an entry are made and noted.                          *)
LEMMA ZipDirs ==
    ASSUME NEW t, NEW X, TreeSecret(X), NEW s \in ZipStates(t, X), NEW p \in TreePath,
           NEW w \in TreePath, TreeIn(w), Tree!IsPrefix(p, w)
    PROVE  Tree!mkdirAllWithRecord(s, p) \in ZipStates(t, X)
<1> DEFINE n == Len(p)
           D == DOMAIN s.t
           S == {i \in 0 .. n : SubSeq(p, 1, i) \in D}
           k == Tree!Max(S)
           new == [i \in 1 .. (n - k) |-> SubSeq(p, 1, k + i)]
           u == Tree!MkdirAll(s.t, p)
<1>1. CASE ~ Tree!CanMkdirAll(s.t, p)
  <2>1. Tree!mkdirAllWithRecord(s, p) = [s EXCEPT !.bad = TRUE]
      BY <1>1 DEF Tree!mkdirAllWithRecord
  <2> QED
      BY <2>1, ZipFails
<1>2. CASE Tree!CanMkdirAll(s.t, p)
  <2>1. Tree!mkdirAllWithRecord(s, p) = [s EXCEPT !.t = u, !.made = @ \o new]
      BY <1>2 DEF Tree!mkdirAllWithRecord
  <2>2. DOMAIN u = D \cup {SubSeq(p, 1, i) : i \in 1 .. n}
      BY DEF Tree!MkdirAll
  <2>3. TreeGood(s.t, X) /\ TreeClosed(D) /\ Base \in D /\ n \in Nat /\ Base \in TreePath
      BY ZipIs, PathLen, TreeBounded
  <2>4. TreeFrom(s.t, u, X)
      BY <2>3, TreeDirs
  <2>5. SubSeq(p, 1, 0) \in D
    <3>1. SubSeq(p, 1, 0) = SubSeq(Base, 1, 0)
        BY SubSeqEmpty
    <3>2. 0 \in 0 .. Len(Base)
        BY <2>3, PathLen
    <3> QED
        BY <2>3, <3>1, <3>2 DEF TreeClosed
  <2> HIDE DEF u, n
  <2>6. S \in SUBSET (0 .. n) /\ 0 \in S
      BY <2>3, <2>5
  <2>7. k \in S /\ \A i \in S : i <= k
    <3> HIDE DEF S
    <3> QED
        BY <2>3, <2>6, LargestOf
  <2>8. k \in 0 .. n /\ SubSeq(p, 1, k) \in D
    <3> HIDE DEF k
    <3> QED
        BY <2>7
  <2>9. \A i \in 0 .. n : ~ (i <= k) => SubSeq(p, 1, i) \notin D
    <3> HIDE DEF k
    <3> QED
        BY <2>7
  <2> HIDE DEF k
  <2>10. \A i \in 0 .. n : SubSeq(p, 1, i) \in TreePath /\ Len(SubSeq(p, 1, i)) = i
      BY PathCut DEF n
  <2>11. new \in Seq(TreePath) /\ Len(new) = n - k
         /\ \A i \in 1 .. (n - k) : new[i] = SubSeq(p, 1, k + i) /\ k + i \in 0 .. n /\ ~ (k + i <= k)
      BY <2>3, <2>8, <2>10
  <2> HIDE DEF new
  <2>12. \A i \in 0 .. n : i <= k => SubSeq(p, 1, i) \in D
    <3> SUFFICES ASSUME NEW i \in 0 .. n, i <= k PROVE SubSeq(p, 1, i) \in D
        OBVIOUS
    <3>1. SubSeq(SubSeq(p, 1, k), 1, i) = SubSeq(p, 1, i)
        BY <2>3, <2>8, PathCutCut DEF n
    <3>2. i \in 0 .. Len(SubSeq(p, 1, k))
        BY <2>3, <2>8, <2>10
    <3> QED
        BY <2>3, <2>8, <3>1, <3>2 DEF TreeClosed
  <2>13. \A i \in 0 .. n : ~ (i <= k) => i - k \in 1 .. (n - k) /\ SubSeq(p, 1, i) = new[i - k]
    <3> SUFFICES ASSUME NEW i \in 0 .. n, ~ (i <= k)
                 PROVE  i - k \in 1 .. (n - k) /\ SubSeq(p, 1, i) = new[i - k]
        OBVIOUS
    <3>1. i - k \in 1 .. (n - k) /\ k + (i - k) = i
        BY <2>3, <2>8
    <3> QED
        BY <2>11, <3>1
  <2>14. \A i \in 1 .. (n - k) : TreeBelow(new[i])
      BY <2>3, <2>9, <2>11, TreeRootsOn DEF n
  <2>15. ASSUME NEW i \in 1 .. (n - k), NEW l \in 0 .. Len(new[i])
         PROVE  SubSeq(new[i], 1, l) \in D \cup {new[j] : j \in 1 .. i}
    <3>1. new[i] = SubSeq(p, 1, k + i) /\ k + i \in 0 .. n /\ l \in 0 .. (k + i)
        BY <2>10, <2>11
    <3>2. SubSeq(new[i], 1, l) = SubSeq(p, 1, l) /\ l \in 0 .. n
        BY <2>3, <3>1, PathCutCut DEF n
    <3>3. CASE l <= k
        BY <2>12, <3>2, <3>3
    <3>4. CASE ~ (l <= k)
      <4>1. l - k \in 1 .. i
          BY <2>3, <2>8, <3>1, <3>4
      <4> QED
          BY <2>13, <3>2, <3>4, <4>1
    <3> QED
        BY <3>3, <3>4
  <2>16. MadeFits(D, new)
      BY <2>11, <2>14, <2>15 DEF MadeFits
  <2>17. DOMAIN u \subseteq D \cup {new[j] : j \in 1 .. Len(new)}
    <3> SUFFICES ASSUME NEW i \in 1 .. n PROVE SubSeq(p, 1, i) \in D \cup {new[j] : j \in 1 .. (n - k)}
        BY <2>2, <2>11
    <3>1. i \in 0 .. n
        BY <2>3
    <3> QED
        BY <2>12, <2>13, <3>1
  <2>18. [s EXCEPT !.t = u, !.made = @ \o new] \in ZipStates(t, X)
      BY <2>4, <2>16, <2>17, ZipMore
  <2> QED
      BY <2>1, <2>18
<1> QED
    BY <1>1, <1>2

(* An entry is written and noted.                                           *)
LEMMA ZipWrites ==
    ASSUME NEW t, NEW X, NEW s \in ZipStates(t, X), NEW v \in TreePath, TreeIn(v),
           NEW e \in Tree!ArchiveEntry, e.text \notin X
    PROVE  Tree!writeEntry(s, v, e) \in ZipStates(t, X)
<1> DEFINE c == [text |-> e.text, entries |-> <<>>]
           u == Tree!Write(s.t, v, c)
           new == <<v>>
           b == e.kind = "big"
<1>0. s.made \in Seq(TreePath) /\ TreeGood(s.t, X) /\ s.bad \in BOOLEAN
    BY ZipIs
<1>1. CASE s.bad \/ ~ Tree!CanOpen(s.t, v)
  <2>1. Tree!writeEntry(s, v, e) = [s EXCEPT !.bad = TRUE]
      BY <1>1 DEF Tree!writeEntry
  <2> QED
      BY <2>1, ZipFails
<1>2. CASE ~ s.bad /\ Tree!CanOpen(s.t, v)
  <2>1. c \in Tree!Content /\ TreeClean(c, X)
    <3>1. c \in Tree!Content
        BY DEF Tree!Content, Tree!ArchiveEntry
    <3>2. Tree!Texts(c) = {e.text}
        BY DEF Tree!Texts
    <3> QED
        BY <3>1, <3>2 DEF TreeClean
  <2>2. Tree!writeEntry(s, v, e) = [s EXCEPT !.t = u, !.made = Append(@, v), !.bad = b]
      BY <1>2 DEF Tree!writeEntry
  <2>3. Append(s.made, v) = s.made \o new
      BY <1>0, AppendIsConcat
  <2> HIDE DEF c
  <2>4. /\ TreeBelow(v) /\ TreeFrom(s.t, u, X) /\ DOMAIN u = DOMAIN s.t \cup {v}
    <3> DEFINE T == s.t
    <3>1. Tree!CanOpen(T, v) /\ TreeGood(T, X)
        BY <1>0, <1>2
    <3> HIDE DEF T
    <3>2. /\ TreeBelow(v) /\ TreeFrom(T, Tree!Write(T, v, c), X)
          /\ DOMAIN Tree!Write(T, v, c) = DOMAIN T \cup {v}
        BY ONLY <2>1, <3>1, v \in TreePath, TreeIn(v), TreeWrites
    <3> QED
        BY <3>2 DEF T
  <2>5. b \in BOOLEAN
      BY Zenon
  <2> HIDE DEF u, b
  <2>6. TreeClosed(DOMAIN s.t \cup {v})
      BY <2>4 DEF TreeFrom, TreeGood
  <2>7. new \in Seq(TreePath) /\ Len(new) = 1 /\ new[1] = v /\ \A i \in 1 .. 1 : i = 1
      OBVIOUS
  <2> HIDE DEF new
  <2>8. {new[j] : j \in 1 .. 1} = {v}
      BY <2>7
  <2>9. MadeFits(DOMAIN s.t, new)
      BY <2>4, <2>6, <2>7, <2>8 DEF MadeFits, TreeClosed
  <2>10. DOMAIN u \subseteq DOMAIN s.t \cup {new[j] : j \in 1 .. Len(new)}
      BY <2>4, <2>7, <2>8
  <2> DEFINE r == [s EXCEPT !.t = u, !.made = @ \o new]
  <2>11. r \in ZipStates(t, X)
      BY <2>4, <2>9, <2>10, ZipMore
  <2>12. Tree!writeEntry(s, v, e) = [r EXCEPT !.bad = b]
      BY <1>0, <2>2, <2>3, ZipIs
  <2> HIDE DEF r
  <2> QED
      BY <2>5, <2>11, <2>12, ZipBad
<1> QED
    BY <1>0, <1>1, <1>2


(* One entry of an archive.                                                 *)
LEMMA ZipEntry ==
    ASSUME NEW t, NEW X, TreeSecret(X), NEW s \in ZipStates(t, X), NEW dest \in TreePath,
           TreeIn(dest), NEW e \in Tree!ArchiveEntry, e.text \notin X, NEW refused
    PROVE  Tree!extractEntry(s, dest, e, refused) \in ZipStates(t, X)
<1> DEFINE v == Tree!ValidatePath(s.t, Tree!toRelativePath(dest \o e.path))
           front == Tree!mkdirAllWithRecord(s, Tree!Front(v))
           wrote == Tree!writeEntry(front, v, e)
           dir1 == Tree!mkdirAllWithRecord(s, v)
           Wrong == \/ ".." \in Tree!ToSet(e.path) \/ v = Tree!Nowhere \/ ~ Tree!IsSubPath(dest, v)
                    \/ e.kind \in refused \/ s.count = MaxEntries
           one == IF e.kind = "dir" THEN dir1 ELSE wrote
           next == [one EXCEPT !.count = @ + 1]
<1>1. Tree!extractEntry(s, dest, e, refused) =
          IF s.bad THEN s ELSE IF Wrong THEN [s EXCEPT !.bad = TRUE] ELSE next
    BY DEF Tree!extractEntry
<1>2. e.path \in TreePath
    BY DEF Tree!ArchiveEntry, TreePath
<1>3. dest \o e.path \in TreePath /\ TreeIn(dest \o e.path)
    BY <1>2, TreeBounded, PathJoin, PathJoinLeads, PathLeadsOn DEF TreeIn
<1>4. Tree!toRelativePath(dest \o e.path) \in TreePath
    BY <1>3, TreeRelative
<1>5. v = Tree!Nowhere \/ (v \in TreePath /\ TreeIn(v))
    BY <1>4, ZipIs, TreeResolves
<1>6. v # Tree!Nowhere => next \in ZipStates(t, X)
  <2> SUFFICES ASSUME v # Tree!Nowhere PROVE next \in ZipStates(t, X)
      OBVIOUS
  <2>1. v \in TreePath /\ TreeIn(v)
      BY <1>5
  <2> HIDE DEF v
  <2>2. dir1 \in ZipStates(t, X)
      BY <2>1, PathLeadsSelf, ZipDirs
  <2>3. front \in ZipStates(t, X)
      BY <2>1, PathFrontAny, ZipDirs
  <2> HIDE DEF front, dir1
  <2>4. wrote \in ZipStates(t, X)
      BY <2>1, <2>3, ZipWrites
  <2> HIDE DEF wrote
  <2>5. one \in ZipStates(t, X)
      BY <2>2, <2>4
  <2> HIDE DEF one
  <2>6. one.count + 1 \in Nat
      BY <2>5, ZipIs
  <2> DEFINE n == one.count + 1
  <2>7. next = [one EXCEPT !.count = n]
      OBVIOUS
  <2> HIDE DEF n, next
  <2> QED
      BY <2>5, <2>6, <2>7, ZipCounts DEF n
<1>7. Wrong \/ v # Tree!Nowhere
    BY Zenon
<1>8. [s EXCEPT !.bad = TRUE] \in ZipStates(t, X)
    BY ZipFails
<1> HIDE DEF Wrong, next, v
<1> QED
    BY <1>1, <1>6, <1>7, <1>8

(* A loop over all of them.                                                 *)
ZipAll(t, es, dest, refused) ==
    LET at[i \in 0 .. Len(es)] == IF i = 0 THEN Tree!Begun(t)
                                  ELSE Tree!extractEntry(at[i - 1], dest, es[i], refused)
    IN at[Len(es)]

(* An extraction begins.                                                    *)
LEMMA ZipBegins == ASSUME NEW t, NEW X, TreeGood(t, X) PROVE Tree!Begun(t) \in ZipStates(t, X)
<1> DEFINE b == Tree!Begun(t)
           e == <<>>
<1>1. t \in TreeSpace /\ TreeFrom(t, t, X) /\ TreeClosed(DOMAIN t)
    BY TreeSpaceIs, TreeTameSelf DEF TreeGood, TreeFrom
<1>2. e \in Seq(TreePath) /\ Len(e) = 0 /\ \A k \in 0 .. 0 : k = 0
    OBVIOUS
<1>3. b.t = t /\ b.made = e /\ b = [t |-> t, made |-> e, count |-> 0, bad |-> FALSE]
    BY DEF Tree!Begun
<1> HIDE DEF b, e
<1>4. b \in [t : TreeSpace, made : Seq(TreePath), count : Nat, bad : BOOLEAN]
    BY <1>1, <1>2, <1>3
<1>5. MadeUpto(DOMAIN t, e, 0) = DOMAIN t
    BY DEF MadeUpto
<1>6. TreeMade(DOMAIN t, e)
  <2>1. \A k \in 1 .. 0 : FALSE
      OBVIOUS
  <2> QED
      BY <1>1, <1>2, <1>5, <2>1 DEF TreeMade
<1>7. b \in ZipStates(t, X)
    BY <1>1, <1>2, <1>3, <1>4, <1>5, <1>6 DEF ZipStates
<1> QED
    BY <1>7 DEF b

(* An extraction keeps this, through its loop.                              *)
LEMMA ZipRuns ==
    ASSUME NEW t, NEW X, TreeGood(t, X), TreeSecret(X), NEW dest \in TreePath, TreeIn(dest),
           NEW es \in Seq(Tree!ArchiveEntry), \A i \in 1 .. Len(es) : es[i].text \notin X,
           NEW refused
    PROVE  ZipAll(t, es, dest, refused) \in ZipStates(t, X)
<1> DEFINE n == Len(es)
           V == ZipStates(t, X)
           b == Tree!Begun(t)
           Turn(i, s) == Tree!extractEntry(s, dest, es[i], refused)
           G == [i \in 1 .. n |-> [v \in V |-> Turn(i, v)]]
           F == CHOOSE at : at = [i \in 0 .. n |-> IF i = 0 THEN b ELSE Turn(i, at[i - 1])]
<1>1. n \in Nat /\ b \in V
    BY ZipBegins
<1>2. ASSUME NEW i \in 1 .. n, NEW v \in V PROVE Turn(i, v) \in V
  <2>1. es[i] \in Tree!ArchiveEntry /\ es[i].text \notin X
      OBVIOUS
  <2> QED
      BY <2>1, ZipEntry
<1>3. ZipAll(t, es, dest, refused) = F[n]
    BY DEF ZipAll
<1> HIDE DEF V, Turn, n, b
<1>4. G \in [1 .. n -> [V -> V]]
    BY <1>2
<1>5. ASSUME NEW f \in [0 .. n -> V], f[0] = b, \A i \in 1 .. n : f[i] = G[i][f[i - 1]]
      PROVE  f = [i \in 0 .. n |-> IF i = 0 THEN b ELSE Turn(i, f[i - 1])]
  <2>1. ASSUME NEW i \in 1 .. n PROVE f[i] = Turn(i, f[i - 1])
    <3>1. f[i - 1] \in V
        BY <1>1
    <3> QED
        BY <1>5, <3>1
  <2>2. \A i \in 0 .. n : f[i] = IF i = 0 THEN b ELSE Turn(i, f[i - 1])
      BY <1>1, <1>5, <2>1
  <2> QED
      BY <2>2
<1>6. ASSUME NEW f, f = [i \in 0 .. n |-> IF i = 0 THEN b ELSE Turn(i, f[i - 1])]
      PROVE  F = [i \in 0 .. n |-> IF i = 0 THEN b ELSE Turn(i, F[i - 1])]
    BY <1>6
<1> HIDE DEF F
<1>7. ASSUME NEW f \in [0 .. n -> V], f[0] = b, \A i \in 1 .. n : f[i] = G[i][f[i - 1]]
      PROVE  F[0] = b /\ \A i \in 1 .. n : F[i - 1] \in V => F[i] = G[i][F[i - 1]]
  <2>1. F = [i \in 0 .. n |-> IF i = 0 THEN b ELSE Turn(i, F[i - 1])]
      BY <1>5, <1>6, <1>7
  <2>2. F[0] = b /\ \A i \in 1 .. n : F[i] = Turn(i, F[i - 1])
      BY <1>1, <2>1
  <2> QED
      BY <2>2
<1> HIDE DEF G
<1>8. LoopOf(V, b, n, G, F)
    BY <1>1, <1>4, <1>7 DEF LoopOf
<1>9. \A i \in 0 .. n : F[i] \in V
    BY <1>8, LoopKeeps

<1>11. F[n] \in V
    BY <1>1, <1>9
<1> QED
    BY <1>3, <1>11 DEF V, n

(* Taking back what was made, last first, leaves nothing of it.             *)
LEMMA ZipTakesBack ==
    ASSUME NEW t, NEW X, TreeGood(t, X), NEW s \in ZipStates(t, X)
    PROVE  /\ TreeFrom(t, Tree!rollback(s.t, s.made), X)
           /\ DOMAIN Tree!rollback(s.t, s.made) \subseteq DOMAIN t
<1> DEFINE m == s.made
           n == Len(m)
           V == {u \in TreeSpace : TreeFrom(t, u, X)}
           b == s.t
           Turn(i, u) == Tree!OsRemove(u, m[n + 1 - i])
           G == [i \in 1 .. n |-> [v \in V |-> Turn(i, v)]]
           F == CHOOSE at : at = [i \in 0 .. n |-> IF i = 0 THEN b ELSE Turn(i, at[i - 1])]
           D == DOMAIN t
<1>a. /\ m \in Seq(TreePath) /\ \A k \in 1 .. n : TreeBelow(m[k]) /\ m[k] \in TreePath
      /\ \A k \in 0 .. n : TreeClosed(MadeUpto(D, m, k))
      /\ DOMAIN b \subseteq MadeUpto(D, m, n)
    BY ZipIs DEF TreeMade
<1>1. n \in Nat /\ b \in V
  <2>1. n \in Nat
      BY <1>a
  <2>2. b \in V
      BY DEF ZipStates
  <2> QED
      BY <2>1, <2>2
<1>2. ASSUME NEW i \in 1 .. n, NEW v \in V PROVE Turn(i, v) \in V
  <2>1. n + 1 - i \in 1 .. n
      BY <1>1
  <2> DEFINE p == m[n + 1 - i]
  <2>2. TreeBelow(p) /\ p \in TreePath
      BY <1>a, <2>1
  <2>3. TreeGood(v, X) /\ TreeTame(t, v)
      BY DEF TreeFrom
  <2> HIDE DEF p
  <2> DEFINE u == Tree!OsRemove(v, p)
  <2>4. TreeFrom(v, u, X)
      BY <2>2, <2>3, TreeRemoves
  <2> HIDE DEF u
  <2>5. TreeFrom(t, u, X) /\ u \in TreeSpace
      BY <2>3, <2>4, TreeTameOn, TreeSpaceIs DEF TreeFrom, TreeGood
  <2> QED
      BY <2>5 DEF u, p
<1>3. Tree!rollback(s.t, s.made) = F[n]
    BY DEF Tree!rollback
<1>b. \A i \in 1 .. n, u \in V : Turn(i, u) = Tree!OsRemove(u, m[n + 1 - i])
    OBVIOUS
<1> HIDE DEF V, Turn, n, b
<1>4. G \in [1 .. n -> [V -> V]]
    BY <1>2
<1>5. ASSUME NEW f \in [0 .. n -> V], f[0] = b, \A i \in 1 .. n : f[i] = G[i][f[i - 1]]
      PROVE  f = [i \in 0 .. n |-> IF i = 0 THEN b ELSE Turn(i, f[i - 1])]
  <2>1. ASSUME NEW i \in 1 .. n PROVE f[i] = Turn(i, f[i - 1])
    <3>1. f[i - 1] \in V
        BY <1>1
    <3> QED
        BY <1>5, <3>1
  <2>2. \A i \in 0 .. n : f[i] = IF i = 0 THEN b ELSE Turn(i, f[i - 1])
      BY <1>1, <1>5, <2>1
  <2> QED
      BY <2>2
<1>6. ASSUME NEW f, f = [i \in 0 .. n |-> IF i = 0 THEN b ELSE Turn(i, f[i - 1])]
      PROVE  F = [i \in 0 .. n |-> IF i = 0 THEN b ELSE Turn(i, F[i - 1])]
    BY <1>6
<1> HIDE DEF F
<1>7. ASSUME NEW f \in [0 .. n -> V], f[0] = b, \A i \in 1 .. n : f[i] = G[i][f[i - 1]]
      PROVE  F[0] = b /\ \A i \in 1 .. n : F[i - 1] \in V => F[i] = G[i][F[i - 1]]
  <2>1. F = [i \in 0 .. n |-> IF i = 0 THEN b ELSE Turn(i, F[i - 1])]
      BY <1>5, <1>6, <1>7
  <2>2. F[0] = b /\ \A i \in 1 .. n : F[i] = Turn(i, F[i - 1])
      BY <1>1, <2>1
  <2> QED
      BY <2>2
<1> HIDE DEF G
<1>8. LoopOf(V, b, n, G, F)
    BY <1>1, <1>4, <1>7 DEF LoopOf
<1>9. \A i \in 0 .. n : F[i] \in V
    BY <1>8, LoopKeeps

<1>10. F[0] = b /\ \A i \in 1 .. n : F[i - 1] \in V /\ F[i] = G[i][F[i - 1]]
    BY <1>8, LoopRuns
<1>11. \A i \in 1 .. n : F[i] = Turn(i, F[i - 1])
    BY <1>10 DEF G
<1>12. \A i \in 1 .. n : F[i] = Tree!OsRemove(F[i - 1], m[n + 1 - i])
    BY <1>10, <1>11, <1>b
<1> HIDE DEF D, m
<1> DEFINE S == {i \in 0 .. n : DOMAIN F[i] \subseteq MadeUpto(D, m, n - i)}
<1>13. 0 \in S
    BY <1>1, <1>10, <1>a
<1>14. ASSUME NEW i \in 1 .. n, i - 1 \in S PROVE i \in S
  <2> DEFINE u == F[i - 1]
             k == n + 1 - i
             p == m[k]
             A == MadeUpto(D, m, n - i)
  <2>1. k \in 1 .. n /\ n - (i - 1) = k /\ n - i = k - 1 /\ k - 1 \in 0 .. n /\ i \in 0 .. n
      BY <1>1
  <2>2. DOMAIN u \subseteq MadeUpto(D, m, k)
      BY <1>14, <2>1
  <2>3. F[i] = Tree!OsRemove(u, p)
      BY <1>12
  <2>4. TreeClosed(A) /\ p \in TreePath
      BY <1>a, <2>1
  <2>5. MadeUpto(D, m, k) \subseteq A \cup {p}
    <3>1. \A j \in 1 .. k : j \in 1 .. k - 1 \/ j = k
        BY <2>1
    <3>2. A = D \cup {m[j] : j \in 1 .. k - 1}
        BY <2>1 DEF MadeUpto
    <3> HIDE DEF A, k
    <3> QED
        BY <3>1, <3>2 DEF MadeUpto
  <2>6. TreeTyped(u)
      BY <1>10, TreeSpaceIs DEF V
  <2> HIDE DEF u, k, p, A
  <2>7. DOMAIN F[i] \subseteq A
    <3>1. CASE p \in A
      <4>1. DOMAIN Tree!OsRemove(u, p) \subseteq DOMAIN u
          BY DEF Tree!OsRemove, Tree!Only
      <4> QED
          BY <2>2, <2>3, <2>5, <3>1, <4>1
    <3>2. CASE p \notin A
      <4>1. Tree!Below(u, p) = {}
        <5> SUFFICES ASSUME NEW q \in Tree!Below(u, p) PROVE FALSE
            OBVIOUS
        <5>1. q \in DOMAIN u /\ Tree!IsPrefix(p, q) /\ q # p /\ q \in TreePath
            BY <2>6 DEF Tree!Below, Tree!IsStrictPrefix, TreeTyped
        <5>2. q \in A
            BY <2>2, <2>5, <5>1
        <5>3. p = SubSeq(q, 1, Len(p)) /\ Len(p) \in 0 .. Len(q)
            BY <2>4, <5>1, PathLeadsCut
        <5>4. p \in A
            BY <2>4, <5>2, <5>3 DEF TreeClosed
        <5> QED
            BY <3>2, <5>4
      <4>2. DOMAIN Tree!OsRemove(u, p) = DOMAIN u \ {p}
          BY <4>1 DEF Tree!OsRemove, Tree!Only
      <4> QED
          BY <2>2, <2>3, <2>5, <4>2
    <3> QED
        BY <3>1, <3>2
  <2> QED
      BY <2>1, <2>7 DEF A
<1>15. \A i \in 0 .. n : i \in S
  <2> HIDE DEF S
  <2> QED
      BY <1>1, <1>13, <1>14, LoopSteps
<1>16. DOMAIN F[n] \subseteq MadeUpto(D, m, 0)
  <2>1. n \in 0 .. n /\ n - n = 0
      BY <1>1
  <2>2. n \in S
      BY <1>15, <2>1
  <2> QED
      BY <2>1, <2>2
<1>17. MadeUpto(D, m, 0) = D
    BY DEF MadeUpto
<1>18. F[n] \in V
    BY <1>1, <1>9
<1> QED
    BY <1>3, <1>16, <1>17, <1>18 DEF V, D


(* How an extraction may end.                                               *)
TreeEnds(t, e, X) ==
    e.bad \in BOOLEAN /\ TreeFrom(t, e.t, X) /\ (e.bad => DOMAIN e.t \subseteq DOMAIN t)

(* A request that fails at once changes nothing.                            *)
LEMMA TreeFails ==
    ASSUME NEW t, NEW X, TreeGood(t, X)
    PROVE  TreeEnds(t, [t |-> t, bad |-> TRUE], X)
BY TreeTameSelf DEF TreeEnds, TreeFrom

(* The parts of a content that is no secret are none.                       *)
LEMMA TreeClears ==
    ASSUME NEW c \in Tree!Content, NEW X, TreeClean(c, X)
    PROVE  /\ c.text \in Nat /\ c.text \notin X /\ c.entries \in Seq(Tree!ArchiveEntry)
           /\ \A i \in 1 .. Len(c.entries) : c.entries[i].text \notin X
           /\ [text |-> c.text, entries |-> <<>>] \in Tree!Content
           /\ TreeClean([text |-> c.text, entries |-> <<>>], X)
<1> DEFINE es == c.entries
           d == [text |-> c.text, entries |-> <<>>]
<1>1. c.text \in Nat /\ es \in Seq(Tree!ArchiveEntry)
    BY DEF Tree!Content
<1>2. DOMAIN es = 1 .. Len(es)
    BY <1>1
<1>3. c.text \notin X /\ \A i \in DOMAIN es : es[i].text \notin X
    BY DEF TreeClean, Tree!Texts
<1>4. d \in Tree!Content
    BY <1>1 DEF Tree!Content
<1>5. Tree!Texts(d) = {c.text}
    BY DEF Tree!Texts
<1>6. TreeClean(d, X)
    BY <1>3, <1>5 DEF TreeClean
<1> QED
    BY <1>1, <1>2, <1>3, <1>4, <1>6

(* extractAll, with the rollback of one that failed.                        *)
LEMMA TreeExtractsAll ==
    ASSUME NEW t, NEW X, TreeGood(t, X), TreeSecret(X), NEW dest \in TreePath, TreeIn(dest),
           NEW archive \in DOMAIN t, TreeIn(archive), NEW refused
    PROVE  TreeEnds(t, Tree!extractAll(t, archive, dest, refused), X)
<1> DEFINE es == t[archive].content.entries
           s == ZipAll(t, es, dest, refused)
           e == Tree!extractAll(t, archive, dest, refused)
<1>1. t[archive].content \in Tree!Content /\ TreeClean(t[archive].content, X)
    BY TreeTyping DEF TreeGood
<1>2. es \in Seq(Tree!ArchiveEntry) /\ \A i \in 1 .. Len(es) : es[i].text \notin X
    BY <1>1, TreeClears
<1>3. e = Tree!Outcome(s)
    BY DEF Tree!extractAll, ZipAll
<1> HIDE DEF es
<1>4. s \in ZipStates(t, X)
    BY <1>2, ZipRuns
<1> HIDE DEF s, e
<1>5. s.bad \in BOOLEAN /\ TreeFrom(t, s.t, X)
    BY <1>4, ZipIs DEF TreeFrom
<1>6. CASE s.bad
  <2> DEFINE r == Tree!rollback(s.t, s.made)
  <2>1. TreeFrom(t, r, X) /\ DOMAIN r \subseteq DOMAIN t
      BY <1>4, ZipTakesBack
  <2>2. e.t = r /\ e.bad = TRUE
      BY <1>3, <1>6 DEF Tree!Outcome
  <2> HIDE DEF r
  <2>3. TreeEnds(t, e, X)
      BY <2>1, <2>2 DEF TreeEnds
  <2> QED
      BY <2>3 DEF e
<1>7. CASE ~ s.bad
  <2>1. e.t = s.t /\ e.bad = FALSE
      BY <1>3, <1>7 DEF Tree!Outcome
  <2>2. TreeEnds(t, e, X)
      BY <1>5, <2>1 DEF TreeEnds
  <2> QED
      BY <2>2 DEF e
<1> QED
    BY <1>6, <1>7

(* extractGzip, likewise.                                                   *)
LEMMA TreeGunzips ==
    ASSUME NEW t, NEW X, TreeGood(t, X), NEW dest \in TreePath, TreeIn(dest),
           NEW archive \in DOMAIN t, TreeBelow(archive), archive \in Paths
    PROVE  TreeEnds(t, Tree!extractGzip(t, archive, dest), X)
<1> DEFINE x == UnGz[Tree!Last(archive)]
           p == Append(dest, x)
           out == Tree!ValidatePath(t, Tree!toRelativePath(p))
           c == [text |-> t[archive].content.text, entries |-> <<>>]
           e == Tree!extractGzip(t, archive, dest)
<1>1. x \in STRING
    BY TreeAssumption DEF Tree!TreeBounds, TreeBelow, TreeIn, Tree!IsStrictPrefix
<1>2. e = IF out = Tree!Nowhere \/ ~ Tree!CanOpen(t, out) THEN [t |-> t, bad |-> TRUE]
          ELSE [t |-> Tree!Write(t, out, c), bad |-> FALSE]
    BY DEF Tree!extractGzip, Tree!gunzip
<1> HIDE DEF x
<1>3. p \in TreePath /\ TreeIn(p)
  <2>1. /\ p \in TreePath /\ Len(p) = Len(dest) + 1 /\ Len(dest) \in Nat
        /\ \A i \in 1 .. Len(dest) : p[i] = dest[i]
      BY <1>1, PathAdds, PathLen
  <2> HIDE DEF p
  <2>2. Tree!IsPrefix(dest, p)
      BY <2>1, PathLeads
  <2> QED
      BY <2>1, <2>2, TreeBounded, PathLeadsOn DEF TreeIn
<1> HIDE DEF p
<1>4. Tree!toRelativePath(p) \in TreePath
    BY <1>3, TreeRelative
<1>5. out = Tree!Nowhere \/ (out \in TreePath /\ TreeIn(out))
    BY <1>4, TreeResolves DEF TreeGood
<1>6. t[archive].content \in Tree!Content /\ TreeClean(t[archive].content, X)
    BY TreeTyping DEF TreeGood, TreeBelow
<1>7. c \in Tree!Content /\ TreeClean(c, X)
    BY <1>6, TreeClears
<1> HIDE DEF out, c, e
<1>8. CASE out = Tree!Nowhere \/ ~ Tree!CanOpen(t, out)
    BY <1>2, <1>8, TreeFails DEF e
<1>9. CASE ~ (out = Tree!Nowhere \/ ~ Tree!CanOpen(t, out))
  <2> DEFINE u == Tree!Write(t, out, c)
  <2>1. TreeFrom(t, u, X)
      BY <1>5, <1>7, <1>9, TreeWrites
  <2>2. e.t = u /\ e.bad = FALSE
      BY <1>2, <1>9
  <2> HIDE DEF u
  <2>3. TreeEnds(t, e, X)
      BY <2>1, <2>2 DEF TreeEnds
  <2> QED
      BY <2>3 DEF e
<1> QED
    BY <1>8, <1>9

(* An extraction of any format.                                             *)
LEMMA TreeExtracts ==
    ASSUME NEW t, NEW X, TreeGood(t, X), TreeSecret(X), NEW dest \in TreePath, TreeIn(dest),
           NEW archive \in DOMAIN t, TreeBelow(archive), archive \in Paths
    PROVE  TreeEnds(t, Tree!extractFrom(t, archive, dest), X)
<1>1. /\ TreeEnds(t, Tree!extractTarGz(t, archive, dest), X)
      /\ TreeEnds(t, Tree!extractZip(t, archive, dest), X)
    BY TreeExtractsAll DEF Tree!extractTarGz, Tree!extractZip, TreeBelow
<1>2. TreeEnds(t, Tree!extractGzip(t, archive, dest), X)
    BY TreeGunzips
<1>3. TreeEnds(t, [t |-> t, bad |-> TRUE], X)
    BY TreeFails
<1> QED
    BY <1>1, <1>2, <1>3, Zenon DEF Tree!extractFrom


(* The steps. Each keeps the invariant and what is outside the base path.   *)
LEMMA TreeTamed ==
    ASSUME NEW t, TreeTyped(t), NEW u, TreeTyped(u), TreeTame(t, u)
    PROVE  /\ Tree!Outside(u) = Tree!Outside(t) /\ \A p \in Tree!Outside(t) : u[p] = t[p]
           /\ Tree!Secrets(u) = Tree!Secrets(t)
<1>1. \A p \in TreePath : ~ Tree!IsPrefix(Base, p) =>
          (p \in DOMAIN u <=> p \in DOMAIN t) /\ (p \in DOMAIN t => u[p] = t[p])
    BY DEF TreeTame, TreeIn
<1>2. DOMAIN u \subseteq TreePath /\ DOMAIN t \subseteq TreePath
    BY DEF TreeTyped
<1>3. Tree!Outside(u) = Tree!Outside(t) /\ \A p \in Tree!Outside(t) : u[p] = t[p]
    BY <1>1, <1>2 DEF Tree!Outside
<1> DEFINE A == {q \in Tree!Outside(t) : t[q].kind = "file"}
           B == {q \in Tree!Outside(u) : u[q].kind = "file"}
<1>4. A = B /\ \A p \in A : u[p].content.text = t[p].content.text
    BY <1>3
<1>5. /\ Tree!Secrets(u) = {u[p].content.text : p \in B}
      /\ Tree!Secrets(t) = {t[p].content.text : p \in A}
    BY DEF Tree!Secrets
<1> HIDE DEF A, B
<1>6. Tree!Secrets(u) = Tree!Secrets(t)
    BY <1>4, <1>5
<1> QED
    BY <1>3, <1>6

TreeKept == TreeInv' /\ Tree!SandboxHolds

(* A change within the base keeps the invariant and spares the outside.     *)
LEMMA TreeKeeps ==
    ASSUME TreeInv, TreeFrom(tree, tree', Tree!Secrets(tree)), DOMAIN tree' \subseteq Paths,
           upload' = Tree!Nowhere \/ (upload' \in Paths /\ TreeBelow(upload')),
           treeServed' \subseteq Nat, treeServed' \cap Tree!Secrets(tree) = {},
           reply' \in {"ok", "error"}, changes' \in 0 .. MaxChanges,
           treeFaults' \in 0 .. TreeMaxFaults
    PROVE  TreeKept
<1> DEFINE X == Tree!Secrets(tree)
           Y == Tree!Secrets(tree')
           t == tree
           u == tree'
<1>1. TreeGood(t, X) /\ TreeSecret(X)
    BY DEF TreeInv
<1>2. TreeGood(u, X) /\ TreeTame(t, u)
    BY DEF TreeFrom
<1>3. TreeTyped(t) /\ TreeTyped(u) /\ Base \in DOMAIN u
    BY <1>1, <1>2 DEF TreeGood
<1>4. /\ Tree!Outside(u) = Tree!Outside(t) /\ \A p \in Tree!Outside(t) : u[p] = t[p]
      /\ Y = X
    BY <1>2, <1>3, TreeTamed
<1>5. Tree!SandboxHolds
    BY <1>3, <1>4 DEF Tree!SandboxHolds
<1>6. TreeRest'
    BY <1>4 DEF TreeRest
<1>7. TreeGood(u, Y) /\ TreeSecret(Y)
    BY <1>1, <1>2, <1>4
<1>8. TreeInv'
    BY <1>6, <1>7 DEF TreeInv
<1> QED
    BY <1>5, <1>8 DEF TreeKept

(* What the invariant says of the tree.                                     *)
LEMMA TreeHas ==
    ASSUME TreeInv
    PROVE  /\ TreeGood(tree, Tree!Secrets(tree)) /\ TreeSecret(Tree!Secrets(tree)) /\ TreeRest
           /\ TreeTyped(tree) /\ DOMAIN tree \subseteq Paths /\ Tree!Nowhere \notin DOMAIN tree
           /\ Base \in DOMAIN tree /\ tree[Base].kind = "dir"
BY TreeBounded DEF TreeInv, TreeGood, TreeRest

(* A request that changes the tree and answers.                             *)
LEMMA TreeChanges ==
    ASSUME TreeInv, NEW t, TreeFrom(tree, t, Tree!Secrets(tree)), Tree!Change(t)
    PROVE  TreeKept
<1>1. tree' = t /\ DOMAIN t \subseteq Paths /\ reply' = "ok" /\ treeServed' = {}
    BY DEF Tree!Change
<1>2. upload' = upload /\ treeFaults' = treeFaults
    BY DEF Tree!Change
<1>3. changes' \in 0 .. MaxChanges
    BY TreeHas, TreeBounded DEF Tree!Change, Tree!Count, TreeRest
<1>4. /\ upload' = Tree!Nowhere \/ (upload' \in Paths /\ TreeBelow(upload'))
      /\ treeFaults' \in 0 .. TreeMaxFaults
    BY <1>2, TreeHas DEF TreeRest
<1>5. treeServed' \subseteq Nat /\ treeServed' \cap Tree!Secrets(tree) = {}
    BY <1>1
<1> QED
    BY <1>1, <1>3, <1>4, <1>5, TreeKeeps

(* A request that may have failed in its loop.                              *)
LEMMA TreeFinishes ==
    ASSUME TreeInv, NEW e, TreeFrom(tree, e.t, Tree!Secrets(tree)), Tree!Finish(e)
    PROVE  TreeKept
<1>1. tree' = e.t /\ DOMAIN e.t \subseteq Paths /\ reply' \in {"ok", "error"} /\ treeServed' = {}
    BY DEF Tree!Finish
<1>2. upload' = upload /\ treeFaults' = treeFaults
    BY DEF Tree!Finish
<1>3. changes' \in 0 .. MaxChanges
    BY TreeHas, TreeBounded DEF Tree!Finish, Tree!Count, TreeRest
<1>4. /\ upload' = Tree!Nowhere \/ (upload' \in Paths /\ TreeBelow(upload'))
      /\ treeFaults' \in 0 .. TreeMaxFaults
    BY <1>2, TreeHas DEF TreeRest
<1>5. treeServed' \subseteq Nat /\ treeServed' \cap Tree!Secrets(tree) = {}
    BY <1>1
<1> QED
    BY <1>1, <1>3, <1>4, <1>5, TreeKeeps

(* A file is written, or cut and not written.                               *)
LEMMA TreeSaves ==
    ASSUME TreeInv, NEW v \in TreePath, TreeIn(v), Tree!CanOpen(tree, v), v \in Paths,
           NEW c \in Tree!Content, TreeClean(c, Tree!Secrets(tree)), NEW at,
           tree' = Tree!Write(tree, v, IF at = "write" THEN Tree!Empty ELSE c),
           reply' \in {"ok", "error"}, treeServed' = {}, upload' = upload,
           Tree!Count, Tree!Charge(at)
    PROVE  TreeKept
<1> DEFINE d == IF at = "write" THEN Tree!Empty ELSE c
           X == Tree!Secrets(tree)
<1>1. Tree!Empty \in Tree!Content /\ TreeClean(Tree!Empty, X)
    BY TreeHas DEF TreeSecret, Tree!Empty, Tree!Content
<1>2. d \in Tree!Content /\ TreeClean(d, X)
    BY <1>1
<1>3. tree' = Tree!Write(tree, v, d)
    OBVIOUS
<1> HIDE DEF d
<1>4. TreeFrom(tree, Tree!Write(tree, v, d), X) /\ DOMAIN Tree!Write(tree, v, d) = DOMAIN tree \cup {v}
    BY <1>2, TreeHas, TreeWrites
<1>5. TreeFrom(tree, tree', X) /\ DOMAIN tree' \subseteq Paths
    BY <1>3, <1>4, TreeHas
<1>6. changes' \in 0 .. MaxChanges
    BY TreeHas, TreeBounded DEF Tree!Count, TreeRest
<1>7. treeFaults' \in 0 .. TreeMaxFaults
    BY TreeHas, TreeBounded DEF Tree!Charge, TreeRest
<1>8. upload' = Tree!Nowhere \/ (upload' \in Paths /\ TreeBelow(upload'))
    BY TreeHas DEF TreeRest
<1>9. treeServed' \subseteq Nat /\ treeServed' \cap X = {}
    OBVIOUS
<1> QED
    BY <1>5, <1>6, <1>7, <1>8, <1>9, TreeKeeps

(* Texts below the base path are shown.                                     *)
LEMMA TreeServes ==
    ASSUME TreeInv, NEW texts, Tree!Serve(texts),
           \A x \in texts : \E q \in DOMAIN tree : TreeIn(q) /\ x = tree[q].content.text
    PROVE  TreeKept
<1> DEFINE X == Tree!Secrets(tree)
<1>1. tree' = tree /\ upload' = upload /\ changes' = changes /\ treeFaults' = treeFaults
      /\ reply' = "ok" /\ treeServed' = texts
    BY DEF Tree!Serve
<1>2. \A q \in DOMAIN tree : TreeIn(q) => tree[q].content.text \in Nat /\ tree[q].content.text \notin X
  <2> SUFFICES ASSUME NEW q \in DOMAIN tree, TreeIn(q)
               PROVE  tree[q].content.text \in Nat /\ tree[q].content.text \notin X
      OBVIOUS
  <2> DEFINE c == tree[q].content
  <2>1. c \in Tree!Content /\ TreeClean(c, X)
      BY TreeHas, TreeTyping DEF TreeGood
  <2> HIDE DEF c
  <2>2. c.text \in Nat /\ c.text \notin X
      BY <2>1, TreeClears
  <2> QED
      BY <2>2 DEF c
<1>3. treeServed' \subseteq Nat /\ treeServed' \cap X = {}
    BY <1>1, <1>2
<1>4. TreeFrom(tree, tree', X)
    BY <1>1, TreeHas, TreeTameSelf DEF TreeFrom
<1>5. /\ DOMAIN tree' \subseteq Paths /\ changes' \in 0 .. MaxChanges
      /\ treeFaults' \in 0 .. TreeMaxFaults
      /\ upload' = Tree!Nowhere \/ (upload' \in Paths /\ TreeBelow(upload'))
    BY <1>1, TreeHas DEF TreeRest
<1> QED
    BY <1>1, <1>3, <1>4, <1>5, TreeKeeps

(* A validated path that exists is below the base path.                     *)
LEMMA TreeValid ==
    ASSUME TreeInv, NEW p \in TreePath
    PROVE  /\ Tree!ValidatePath(tree, p) # Tree!Nowhere =>
                 Tree!ValidatePath(tree, p) \in TreePath /\ TreeIn(Tree!ValidatePath(tree, p))
           /\ Tree!ValidatePath(tree, p) \in DOMAIN tree =>
                 Tree!ValidatePath(tree, p) \in TreePath /\ TreeIn(Tree!ValidatePath(tree, p))
BY TreeHas, TreeResolves


(* Mkdir.                                                                   *)
LEMMA TreeMkdir == ASSUME TreeInv, NEW p \in TreePath, Tree!Mkdir(p) PROVE TreeKept
<1> DEFINE v == Tree!ValidatePath(tree, p)
<1>1. v # Tree!Nowhere /\ Tree!Change(Tree!MkdirAll(tree, v))
    BY DEF Tree!Mkdir
<1>2. v \in TreePath /\ TreeIn(v)
    BY <1>1, TreeValid
<1> HIDE DEF v
<1>3. TreeFrom(tree, Tree!MkdirAll(tree, v), Tree!Secrets(tree))
    BY <1>2, TreeHas, PathLeadsSelf, TreeDirs
<1> QED
    BY <1>1, <1>3, TreeChanges

(* WriteContent, whose write may stop behind the truncation.                *)
LEMMA TreeWriteContent ==
    ASSUME TreeInv, NEW p \in TreePath, NEW c \in Uploads, NEW at, Tree!WriteContent(p, c, at)
    PROVE  TreeKept
<1> DEFINE v == Tree!ValidatePath(tree, p)
<1>1. /\ v # Tree!Nowhere /\ Tree!CanOpen(tree, v) /\ v \in Paths
      /\ tree' = Tree!Write(tree, v, IF at = "write" THEN Tree!Empty ELSE c)
      /\ reply' \in {"ok", "error"} /\ treeServed' = {} /\ upload' = upload
      /\ Tree!Count /\ Tree!Charge(at)
    BY DEF Tree!WriteContent
<1>2. v \in TreePath /\ TreeIn(v)
    BY <1>1, TreeValid
<1> HIDE DEF v
<1>3. c \in Tree!Content /\ TreeClean(c, Tree!Secrets(tree))
    BY TreeHas, TreeBounded DEF TreeSecret
<1> QED
    BY <1>1, <1>2, <1>3, TreeSaves

(* ReadContent.                                                             *)
LEMMA TreeReadContent == ASSUME TreeInv, NEW p \in TreePath, Tree!ReadContent(p) PROVE TreeKept
<1> DEFINE v == Tree!ValidatePath(tree, p)
           texts == {tree[v].content.text}
<1>1. v \in DOMAIN tree /\ Tree!Serve(texts)
    BY DEF Tree!ReadContent, Tree!Is
<1>2. TreeIn(v)
    BY <1>1, TreeValid
<1> HIDE DEF v
<1>3. \A x \in texts : \E q \in DOMAIN tree : TreeIn(q) /\ x = tree[q].content.text
    BY <1>1, <1>2
<1> HIDE DEF texts
<1> QED
    BY <1>1, <1>3, TreeServes

(* Delete.                                                                  *)
LEMMA TreeDelete ==
    ASSUME TreeInv, NEW p \in TreePath, NEW recursive, Tree!Delete(p, recursive)
    PROVE  TreeKept
<1> DEFINE v == Tree!ValidatePath(tree, p)
           X == Tree!Secrets(tree)
<1>1. /\ v # Base /\ v \in DOMAIN tree
      /\ Tree!Change(IF recursive THEN Tree!OsRemoveAll(tree, v) ELSE Tree!OsRemove(tree, v))
    BY DEF Tree!Delete
<1>2. v \in TreePath /\ TreeBelow(v)
    BY <1>1, TreeValid DEF TreeBelow
<1> HIDE DEF v
<1>3. TreeFrom(tree, Tree!OsRemoveAll(tree, v), X)
    BY <1>1, <1>2, TreeHas, TreeRemovesAll
<1>4. TreeFrom(tree, Tree!OsRemove(tree, v), X)
    BY <1>2, TreeHas, TreeRemoves
<1> DEFINE t == IF recursive THEN Tree!OsRemoveAll(tree, v) ELSE Tree!OsRemove(tree, v)
<1>5. TreeFrom(tree, t, X)
    BY <1>3, <1>4, Zenon
<1> HIDE DEF t
<1>6. Tree!Change(t)
    BY <1>1 DEF t
<1> QED
    BY <1>5, <1>6, TreeChanges

(* Rename.                                                                  *)
LEMMA TreeRename ==
    ASSUME TreeInv, NEW p \in TreePath, NEW q \in TreePath, Tree!Rename(p, q)
    PROVE  TreeKept
<1> DEFINE v == Tree!ValidatePath(tree, p)
           w == Tree!ValidatePath(tree, q)
<1>1. /\ v # Tree!Nowhere /\ w # Tree!Nowhere /\ Tree!CanRename(tree, v, w)
      /\ Tree!Change(Tree!OsRename(tree, v, w))
    BY DEF Tree!Rename
<1>2. v \in TreePath /\ TreeIn(v) /\ w \in TreePath /\ TreeIn(w)
    BY <1>1, TreeValid
<1> HIDE DEF v, w
<1>3. v \in DOMAIN tree
    BY <1>1 DEF Tree!CanRename
<1>4. TreeFrom(tree, Tree!OsRename(tree, v, w), Tree!Secrets(tree))
    BY <1>1, <1>2, <1>3, TreeHas, TreeRenames
<1> QED
    BY <1>1, <1>4, TreeChanges

(* Copy.                                                                    *)
LEMMA TreeCopy ==
    ASSUME TreeInv, NEW p \in TreePath, NEW q \in TreePath, NEW at, Tree!Copy(p, q, at)
    PROVE  TreeKept
<1> DEFINE v == Tree!ValidatePath(tree, p)
           w == Tree!ValidatePath(tree, q)
           c == tree[v].content
<1>1. /\ v \in DOMAIN tree /\ w # Tree!Nowhere /\ Tree!CanOpen(tree, w) /\ w \in Paths
      /\ tree' = Tree!Write(tree, w, IF at = "write" THEN Tree!Empty ELSE c)
      /\ reply' \in {"ok", "error"} /\ treeServed' = {} /\ upload' = upload
      /\ Tree!Count /\ Tree!Charge(at)
    BY DEF Tree!Copy, Tree!Is
<1>2. TreeIn(v) /\ w \in TreePath /\ TreeIn(w)
    BY <1>1, TreeValid
<1> HIDE DEF v, w
<1>3. c \in Tree!Content /\ TreeClean(c, Tree!Secrets(tree))
    BY <1>1, <1>2, TreeHas, TreeTyping DEF TreeGood
<1> HIDE DEF c
<1> QED
    BY <1>1, <1>2, <1>3, TreeSaves

(* Move of two paths.                                                       *)
LEMMA TreeMove ==
    ASSUME TreeInv, NEW p \in TreePath, NEW q \in TreePath, NEW d \in TreePath,
           Tree!Move(<<p, q>>, d)
    PROVE  TreeKept
<1> DEFINE ps == <<p, q>>
           w == Tree!ValidatePath(tree, d)
           vs == [i \in DOMAIN ps |-> Tree!ValidatePath(tree, ps[i])]
           t == Tree!MkdirAll(tree, w)
           e == Tree!moveAll(t, vs, w)
           X == Tree!Secrets(tree)
<1>1. w # Tree!Nowhere /\ Tree!Nowhere \notin Tree!ToSet(vs) /\ Tree!Finish(e)
    BY DEF Tree!Move
<1>2. w \in TreePath /\ TreeIn(w)
    BY <1>1, TreeValid
<1> HIDE DEF w
<1>3. ps \in Seq(TreePath) /\ DOMAIN ps = 1 .. 2
    OBVIOUS
<1>4. DOMAIN vs = 1 .. 2 /\ \A i \in 1 .. 2 : vs[i] = Tree!ValidatePath(tree, ps[i]) /\ ps[i] \in TreePath
    BY <1>3
<1> HIDE DEF ps
<1>5. \A i \in 1 .. 2 : vs[i] # Tree!Nowhere
    BY <1>1, <1>4 DEF Tree!ToSet
<1>6. \A i \in 1 .. 2 : vs[i] \in TreePath /\ TreeIn(vs[i])
    BY <1>4, <1>5, TreeValid
<1>7. vs \in Seq(TreePath) /\ Len(vs) = 2
    BY <1>3, <1>6
<1> HIDE DEF vs
<1>8. TreeFrom(tree, t, X)
    BY <1>2, TreeHas, PathLeadsSelf, TreeDirs
<1> HIDE DEF t
<1>9. e \in MoveStates(t, X)
    BY <1>2, <1>6, <1>7, <1>8, TreeMoves DEF TreeFrom
<1> HIDE DEF e
<1>10. TreeFrom(tree, e.t, X)
    BY <1>8, <1>9, TreeTameOn DEF MoveStates, TreeFrom
<1> QED
    BY <1>1, <1>10, TreeFinishes

(* SearchContent shows what is under the base.                              *)
LEMMA TreeSearch ==
    ASSUME TreeInv, NEW root \in TreePath, NEW limit, Tree!SearchContent(root, limit)
    PROVE  TreeKept
<1> DEFINE v == Tree!ValidatePath(tree, root)
<1> DEFINE found == {q \in Tree!Visited(tree, v) : tree[q].kind = "file"}
           shown == {q \in found : Tree!Cardinality({r \in found : Tree!Before(r, q)}) <= limit}
           texts == {tree[q].content.text : q \in shown}
<1>0. v \in DOMAIN tree /\ Tree!Serve(texts)
    BY Zenon DEF Tree!SearchContent
<1>a. \A q \in shown : q \in Tree!Visited(tree, v)
    OBVIOUS
<1>b. \A x \in texts : \E q \in shown : x = tree[q].content.text
    OBVIOUS
<1> HIDE DEF shown, texts
<1>1. /\ v \in DOMAIN tree /\ Tree!Serve(texts)
      /\ \A x \in texts : \E q \in Tree!Visited(tree, v) : x = tree[q].content.text
    BY <1>0, <1>a, <1>b, Zenon
<1>2. v \in TreePath /\ TreeIn(v)
    BY <1>1, TreeValid
<1> HIDE DEF v
<1>3. \A q \in Tree!Visited(tree, v) : q \in DOMAIN tree /\ Tree!IsPrefix(v, q)
    BY DEF Tree!Visited
<1>4. \A q \in Tree!Visited(tree, v) : q \in DOMAIN tree /\ TreeIn(q)
    BY <1>2, <1>3, TreeHas, TreeBounded, PathLeadsOn DEF TreeIn, TreeTyped
<1>5. \A x \in texts : \E q \in DOMAIN tree : TreeIn(q) /\ x = tree[q].content.text
    BY <1>1, <1>4, Zenon
<1> QED
    BY <1>1, <1>5, TreeServes

(* Extract: one that fails leaves at most the directory it was asked for.   *)
LEMMA TreeExtract ==
    ASSUME TreeInv, NEW p \in TreePath, NEW d \in TreePath, Tree!Extract(p, d)
    PROVE  /\ TreeKept
           /\ reply' = "error" =>
                  DOMAIN tree' \subseteq DOMAIN Tree!MkdirAll(tree, Tree!ValidatePath(tree, d))
<1> DEFINE v == Tree!ValidatePath(tree, p)
           w == Tree!ValidatePath(tree, d)
           t == Tree!MkdirAll(tree, w)
           e == Tree!extractFrom(t, v, w)
           X == Tree!Secrets(tree)
<1>1. v # Tree!Nowhere /\ w # Tree!Nowhere /\ Tree!Is(tree, v, "file") /\ Tree!Finish(e)
    BY DEF Tree!Extract
<1>2. v \in TreePath /\ TreeIn(v) /\ w \in TreePath /\ TreeIn(w)
    BY <1>1, TreeValid
<1> HIDE DEF v
<1>3. v \in DOMAIN tree /\ v \in Paths /\ TreeBelow(v)
    BY <1>1, <1>2, TreeHas DEF Tree!Is, TreeBelow
<1> HIDE DEF w
<1>4. TreeFrom(tree, t, X) /\ DOMAIN tree \subseteq DOMAIN t
    BY <1>2, TreeHas, PathLeadsSelf, TreeDirs
<1> HIDE DEF t
<1>5. TreeEnds(t, e, X)
    BY <1>2, <1>3, <1>4, TreeHas, TreeExtracts DEF TreeFrom
<1> HIDE DEF e
<1>6. TreeFrom(tree, e.t, X)
    BY <1>4, <1>5, TreeTameOn DEF TreeEnds, TreeFrom
<1>7. TreeKept
    BY <1>1, <1>6, TreeFinishes
<1>8. tree' = e.t /\ reply' = IF e.bad THEN "error" ELSE "ok"
    BY <1>1 DEF Tree!Finish
<1>9. reply' = "error" => e.bad
    BY <1>8
<1>10. reply' = "error" => DOMAIN tree' \subseteq DOMAIN t
    BY <1>5, <1>8, <1>9 DEF TreeEnds
<1> QED
    BY <1>7, <1>10 DEF t, w


(* Entries are packed from what is below the base path.                     *)
LEMMA TreePacks ==
    ASSUME NEW t, NEW X, TreeGood(t, X), TreeSecret(X), NEW v \in TreePath, TreeIn(v), v # Base,
           NEW q \in DOMAIN t, Tree!IsPrefix(v, q)
    PROVE  Tree!packed(t, v, q) \in Tree!ArchiveEntry /\ Tree!packed(t, v, q).text \notin X
<1> DEFINE n == Len(v) - 1
           path == SubSeq(q, Len(v), Len(q))
           kind == IF t[q].kind = "dir" THEN "dir" ELSE "file"
           text == IF t[q].kind = "file" THEN t[q].content.text ELSE 0
           e == Tree!packed(t, v, q)
<1>1. q \in TreePath /\ Base \in TreePath /\ t[q].content \in Tree!Content
    BY TreeTyping, TreeBounded DEF TreeGood
<1>2. TreeIn(q)
    BY <1>1, PathLeadsOn DEF TreeIn
<1>3. t[q].content.text \in Nat /\ t[q].content.text \notin X
    BY <1>1, <1>2, TreeClears DEF TreeGood
<1>4. 0 \notin X
    BY DEF TreeSecret, TreeClean, Tree!Texts, Tree!Empty
<1>5. n \in 0 .. Len(q) /\ n + 1 = Len(v)
  <2>1. Len(Base) \in Nat /\ Len(v) \in Nat /\ Len(q) \in Nat /\ Len(v) <= Len(q)
      BY <1>1, PathLen, PathLeads
  <2>2. Len(Base) < Len(v)
      BY <1>1, PathFrontLeads DEF TreeIn
  <2> QED
      BY <2>1, <2>2
<1>6. SubSeq(q, n + 1, Len(q)) \in TreePath
  <2> HIDE DEF n
  <2> QED
      BY <1>1, <1>5, PathTail
<1>7. path \in TreePath
    BY <1>5, <1>6
<1>8. kind \in {"dir", "file"}
    BY Zenon
<1>9. text \in Nat /\ text \notin X
    BY <1>3, <1>4
<1>10. e = [path |-> path, kind |-> kind, text |-> text]
    BY DEF Tree!packed
<1> HIDE DEF path, kind, text, e
<1>11. kind \in {"dir", "file", "link", "hardlink", "big"}
    BY <1>8
<1>12. e \in Tree!ArchiveEntry /\ e.text \notin X
    BY <1>7, <1>9, <1>10, <1>11 DEF Tree!ArchiveEntry, TreePath
<1> QED
    BY <1>12 DEF e

(* A path leads to one with a name more.                                    *)
LEMMA PathAddsAny ==
    ASSUME NEW p \in TreePath, NEW x, Append(p, x) \in TreePath
    PROVE  Tree!IsPrefix(p, Append(p, x))
<1> DEFINE S == STRING \cup {x}
           r == Append(p, x)
<1>1. Len(p) \in Nat /\ p \in Seq(S)
  <2>1. Len(p) \in Nat /\ \A i \in 1 .. Len(p) : p[i] \in S
      BY PathLen
  <2>2. p = [i \in 1 .. Len(p) |-> p[i]]
      BY DEF TreePath
  <2> QED
      BY <2>1, <2>2
<1>2. Len(r) = Len(p) + 1 /\ \A i \in 1 .. Len(p) : r[i] = p[i]
    BY <1>1, AppendProperties
<1> HIDE DEF r
<1>3. r \in TreePath
    BY DEF r
<1>4. Tree!IsPrefix(p, r)
    BY <1>1, <1>2, <1>3, PathLeads
<1> QED
    BY <1>4 DEF r

(* The paths can be counted.                                                *)
LEMMA TreeCounted ==
    ASSUME NEW S, S \subseteq Paths
    PROVE  Tree!Cardinality(S) \in Nat
<1>1. IsFiniteSet(Paths)
    BY TreeAssumption DEF Tree!TreeBounds, Tree!IsFiniteSet, IsFiniteSet
<1>2. Tree!Cardinality(S) = Cardinality(S)
    BY DEF Tree!Cardinality, Cardinality
<1> QED
    BY <1>1, <1>2, FS_Subset, FS_CardinalityType

(* Compress packs what is under the base.                                   *)
LEMMA TreeCompress ==
    ASSUME TreeInv, NEW p \in TreePath, NEW d \in TreePath, Tree!Compress(p, d)
    PROVE  TreeKept
<1> DEFINE v == Tree!ValidatePath(tree, p)
           x == Tree!ValidatePath(tree, d)
           f == Tree!Front(x)
           w == Append(f, ZipOf[Tree!Last(x)])
           t == Tree!Write(tree, w, Tree!Empty)
           X == Tree!Secrets(tree)
<1>1. /\ x # Tree!Nowhere /\ x # Base /\ v # Base
      /\ Tree!CanOpen(tree, w) /\ v \in DOMAIN t
      /\ \E visited \in Tree!Walk(t, v) :
            Tree!Change(Tree!Write(tree, w, [text |-> 0, entries |->
                [i \in DOMAIN visited |-> Tree!packed(t, v, visited[i])]]))
    BY Zenon DEF Tree!Compress
<1>2. PICK visited \in Tree!Walk(t, v) :
            Tree!Change(Tree!Write(tree, w, [text |-> 0, entries |->
                [i \in DOMAIN visited |-> Tree!packed(t, v, visited[i])]]))
    BY <1>1, Zenon
<1> DEFINE es == [i \in DOMAIN visited |-> Tree!packed(t, v, visited[i])]
           c == [text |-> 0, entries |-> es]
<1>3. Tree!Change(Tree!Write(tree, w, c))
    BY <1>2
<1>4. x \in TreePath /\ TreeIn(x)
    BY <1>1, TreeValid
<1>5. v # Tree!Nowhere => v \in TreePath /\ TreeIn(v)
    BY TreeValid
<1> HIDE DEF v, x
<1>6. f \in TreePath /\ Tree!IsPrefix(Base, f)
    BY <1>1, <1>4, PathFrontAny, TreeBounded, PathFrontLeads DEF TreeIn
<1> HIDE DEF f, c
<1>7. DOMAIN Tree!Write(tree, w, c) = DOMAIN tree \cup {w} /\ DOMAIN t = DOMAIN tree \cup {w}
    BY DEF Tree!Write, Tree!With
<1>8. DOMAIN Tree!Write(tree, w, c) \subseteq Paths
    BY <1>3 DEF Tree!Change
<1>9. w \in Paths /\ DOMAIN t \subseteq Paths /\ w \in TreePath
    BY <1>7, <1>8, TreeBounded
<1>10. TreeIn(w)
  <2>1. Tree!IsPrefix(f, w)
      BY <1>6, <1>9, PathAddsAny
  <2> HIDE DEF w
  <2> QED
      BY <1>6, <1>9, <2>1, TreeBounded, PathLeadsOn DEF TreeIn
<1> HIDE DEF w
<1>11. v \in TreePath /\ TreeIn(v)
    BY <1>1, <1>5, <1>9, TreeBounded
<1>12. Tree!Empty \in Tree!Content /\ TreeClean(Tree!Empty, X)
    BY TreeHas DEF TreeSecret, Tree!Empty, Tree!Content
<1>13. TreeGood(t, X)
    BY <1>1, <1>9, <1>10, <1>12, TreeHas, TreeWrites DEF TreeFrom
<1> DEFINE S == Tree!Visited(t, v)
           n == Tree!Cardinality(S)
<1>14. \A q \in S : q \in DOMAIN t /\ Tree!IsPrefix(v, q)
    BY DEF Tree!Visited
<1>15. visited \in [1 .. n -> S]
    BY <1>2 DEF Tree!Walk
<1> HIDE DEF t, S
<1>16. n \in Nat
    BY <1>9, <1>14, TreeCounted
<1> HIDE DEF n
<1>17. \A q \in S : Tree!packed(t, v, q) \in Tree!ArchiveEntry /\ Tree!packed(t, v, q).text \notin X
    BY <1>1, <1>11, <1>13, <1>14, TreeHas, TreePacks
<1>18. DOMAIN es = 1 .. n /\ \A i \in 1 .. n : es[i] \in Tree!ArchiveEntry /\ es[i].text \notin X
    BY <1>15, <1>17
<1>19. es \in Seq(Tree!ArchiveEntry)
    BY <1>15, <1>16, <1>17
<1> HIDE DEF es
<1>20. c \in Tree!Content
    BY <1>19 DEF c, Tree!Content
<1>21. TreeClean(c, X)
  <2>1. 0 \notin X
      BY <1>12 DEF TreeClean, Tree!Texts, Tree!Empty
  <2>2. Tree!Texts(c) = {0} \cup {es[i].text : i \in DOMAIN es}
      BY DEF Tree!Texts, c
  <2> QED
      BY <1>18, <2>1, <2>2 DEF TreeClean
<1>22. TreeFrom(tree, Tree!Write(tree, w, c), X)
    BY <1>1, <1>9, <1>10, <1>20, <1>21, TreeHas, TreeWrites
<1> QED
    BY <1>3, <1>22, TreeChanges

(* An upload opens its file.                                                *)
LEMMA TreeUploadOpen == ASSUME TreeInv, NEW p \in TreePath, Tree!UploadOpen(p) PROVE TreeKept
<1> DEFINE v == Tree!ValidatePath(tree, p)
           X == Tree!Secrets(tree)
           f == Tree!File(Tree!Empty, TRUE)
<1>1. /\ v # Tree!Nowhere /\ Tree!CanOpen(tree, v) /\ v \in Paths
      /\ tree' = Tree!With(tree, v, f) /\ upload' = v
      /\ Tree!Count /\ treeServed' = treeServed /\ reply' = reply /\ treeFaults' = treeFaults
    BY DEF Tree!UploadOpen
<1>2. v \in TreePath /\ TreeIn(v)
    BY <1>1, TreeValid, SMTT(40)
<1> HIDE DEF v
<1>3. Tree!Front(v) \in DOMAIN tree /\ v # Base
    BY <1>1, TreeHas DEF Tree!CanOpen, Tree!Is
<1>4. TreeBelow(v)
    BY <1>2, <1>3 DEF TreeBelow
<1>5. f \in Tree!Node /\ f.content = Tree!Empty
    BY DEF Tree!File, Tree!Node, Tree!Empty, Tree!Content
<1>6. TreeClean(f.content, X)
    BY <1>5, TreeHas DEF TreeSecret
<1> HIDE DEF f
<1>7. TreeFrom(tree, Tree!With(tree, v, f), X)
    BY <1>2, <1>3, <1>4, <1>5, <1>6, TreeHas, TreePuts
<1>8. DOMAIN tree' \subseteq Paths
    BY <1>1, TreeHas DEF Tree!With
<1>9. changes' \in 0 .. MaxChanges
    BY <1>1, TreeHas, TreeBounded DEF Tree!Count, TreeRest
<1>10. /\ treeServed' \subseteq Nat /\ treeServed' \cap X = {} /\ reply' \in {"ok", "error"}
       /\ treeFaults' \in 0 .. TreeMaxFaults
    BY <1>1, TreeHas DEF TreeRest
<1> QED
    BY <1>1, <1>4, <1>7, <1>8, <1>9, <1>10, TreeKeeps

(* Contents below the base path are replaced.                               *)
LEMMA TreeRewrites ==
    ASSUME NEW t, NEW X, TreeGood(t, X), NEW u, DOMAIN u = DOMAIN t,
           u = [q \in DOMAIN u |-> u[q]],
           \A q \in DOMAIN t :
              /\ u[q] \in Tree!Node /\ u[q].kind = t[q].kind
              /\ TreeIn(q) => TreeClean(u[q].content, X)
              /\ ~ TreeIn(q) => u[q] = t[q]
    PROVE  TreeFrom(t, u, X)
<1>1. TreeTyped(u)
    BY DEF TreeGood, TreeTyped
<1>2. \A q \in DOMAIN u : u[q].fd => TreeIn(q)
    BY DEF TreeGood
<1>3. TreeGood(u, X)
    BY <1>1, <1>2 DEF TreeGood
<1>4. TreeTame(t, u)
    BY DEF TreeTame
<1> QED
    BY <1>3, <1>4 DEF TreeFrom

(* The upload is copied into its file, wherever that was moved to.          *)
LEMMA TreeUploadCopy ==
    ASSUME TreeInv, NEW c \in Uploads, NEW end, Tree!UploadCopy(c, end)
    PROVE  TreeKept
<1> DEFINE X == Tree!Secrets(tree)
           t == [q \in DOMAIN tree |-> IF tree[q].fd THEN [tree[q] EXCEPT !.content = c] ELSE tree[q]]
           r == Tree!OsRemove(t, upload)
           u == IF end = "toobig" THEN r ELSE t
           z == Tree!Closed(u)
<1>1. /\ upload # Tree!Nowhere /\ tree' = z /\ upload' = Tree!Nowhere /\ treeServed' = {}
      /\ reply' = (IF end = "ok" THEN "ok" ELSE "error")
      /\ changes' = changes /\ treeFaults' = treeFaults
    BY DEF Tree!UploadCopy
<1>2. TreeGood(tree, X) /\ TreeTyped(tree) /\ TreeRest
    BY TreeHas
<1>3. c \in Tree!Content /\ TreeClean(c, X)
    BY TreeHas, TreeBounded DEF TreeSecret
<1>4. TreeFrom(tree, t, X)
  <2>1. \A q \in DOMAIN tree : t[q] = IF tree[q].fd THEN [tree[q] EXCEPT !.content = c] ELSE tree[q]
      OBVIOUS
  <2>2. DOMAIN t = DOMAIN tree /\ t = [q \in DOMAIN t |-> t[q]]
      OBVIOUS
  <2> HIDE DEF t
  <2>3. ASSUME NEW q \in DOMAIN tree
        PROVE  /\ t[q] \in Tree!Node /\ t[q].kind = tree[q].kind
               /\ TreeIn(q) => TreeClean(t[q].content, X)
               /\ ~ TreeIn(q) => t[q] = tree[q]
    <3>1. tree[q] \in Tree!Node
        BY <1>2, TreeTyping
    <3>2. CASE tree[q].fd
      <4>1. t[q] = [tree[q] EXCEPT !.content = c] /\ TreeIn(q)
          BY <1>2, <2>1, <3>2 DEF TreeGood
      <4>2. t[q] \in Tree!Node /\ t[q].kind = tree[q].kind /\ t[q].content = c
          BY <1>3, <3>1, <4>1 DEF Tree!Node
      <4> QED
          BY <1>3, <4>1, <4>2
    <3>3. CASE ~ tree[q].fd
      <4>1. t[q] = tree[q]
          BY <2>1, <3>3
      <4> QED
          BY <1>2, <3>1, <4>1 DEF TreeGood
    <3> QED
        BY <3>2, <3>3
  <2> QED
      BY <1>2, <2>2, <2>3, TreeRewrites
<1>5. DOMAIN t = DOMAIN tree
    OBVIOUS
<1> HIDE DEF t
<1>6. upload \in TreePath /\ TreeBelow(upload)
    BY <1>1, <1>2, TreeBounded DEF TreeRest
<1>7. TreeFrom(t, r, X) /\ DOMAIN r \subseteq DOMAIN t
    BY <1>4, <1>6, TreeRemoves DEF TreeFrom
<1> HIDE DEF r
<1>8. TreeFrom(tree, r, X)
    BY <1>4, <1>7, TreeTameOn DEF TreeFrom
<1>9. TreeFrom(tree, u, X) /\ DOMAIN u \subseteq DOMAIN tree
    BY <1>4, <1>5, <1>7, <1>8
<1> HIDE DEF u
<1>10. TreeGood(u, X) /\ TreeTyped(u)
    BY <1>9 DEF TreeFrom, TreeGood
<1>11. TreeFrom(u, z, X) /\ DOMAIN z = DOMAIN u
  <2>1. /\ DOMAIN z = DOMAIN u /\ z = [q \in DOMAIN z |-> z[q]]
        /\ \A q \in DOMAIN u : z[q] = [u[q] EXCEPT !.fd = FALSE]
      BY DEF Tree!Closed
  <2> HIDE DEF z
  <2>2. ASSUME NEW q \in DOMAIN u
        PROVE  /\ z[q] \in Tree!Node /\ z[q].kind = u[q].kind
               /\ TreeIn(q) => TreeClean(z[q].content, X)
               /\ ~ TreeIn(q) => z[q] = u[q]
    <3>1. /\ u[q] = [kind |-> u[q].kind, content |-> u[q].content, to |-> u[q].to, fd |-> u[q].fd]
          /\ u[q] \in Tree!Node /\ u[q].fd \in BOOLEAN
        BY <1>10, TreeTyping
    <3>2. z[q] = [kind |-> u[q].kind, content |-> u[q].content, to |-> u[q].to, fd |-> FALSE]
        BY <2>1, <3>1
    <3>3. z[q] \in Tree!Node /\ z[q].kind = u[q].kind /\ z[q].content = u[q].content
        BY <3>1, <3>2 DEF Tree!Node
    <3>4. TreeIn(q) => TreeClean(z[q].content, X)
        BY <1>10, <3>3 DEF TreeGood
    <3>5. ~ TreeIn(q) => u[q].fd = FALSE
        BY <1>10, <3>1 DEF TreeGood
    <3>6. ~ TreeIn(q) => z[q] = u[q]
        BY <3>1, <3>2, <3>5
    <3> QED
        BY <3>3, <3>4, <3>6
  <2> QED
      BY <1>10, <2>1, <2>2, TreeRewrites
<1> HIDE DEF z
<1>12. TreeFrom(tree, z, X)
    BY <1>9, <1>11, TreeTameOn DEF TreeFrom
<1>13. TreeFrom(tree, tree', X) /\ DOMAIN tree' \subseteq Paths
    BY <1>1, <1>9, <1>11, <1>12, TreeHas
<1>14. reply' \in {"ok", "error"}
    BY <1>1
<1>15. changes' \in 0 .. MaxChanges /\ treeFaults' \in 0 .. TreeMaxFaults
    BY <1>1, <1>2 DEF TreeRest
<1>16. treeServed' \subseteq Nat /\ treeServed' \cap X = {}
    BY <1>1
<1> QED
    BY <1>1, <1>13, <1>14, <1>15, <1>16, TreeKeeps


(* The invariant holds at the start.                                        *)
LEMMA TreeInit == Tree!Init => TreeInv
<1> SUFFICES ASSUME Tree!Init PROVE TreeInv
    OBVIOUS
<1> DEFINE X == Tree!Secrets(tree)
           t == tree
<1>1. /\ t \in InitTrees /\ upload = Tree!Nowhere /\ treeServed = {} /\ reply = "ok"
      /\ changes = 0 /\ treeFaults = 0
    BY DEF Tree!Init
<1>2. /\ t \in [DOMAIN t -> Tree!Node] /\ DOMAIN t \subseteq Paths /\ Tree!Is(t, Base, "dir")
      /\ \A p \in DOMAIN t : ~ t[p].fd /\ \A i \in 0 .. Len(p) : SubSeq(p, 1, i) \in DOMAIN t
      /\ \A c \in Uploads \cup {Tree!Empty} \cup {t[p].content : p \in DOMAIN t \ Tree!Outside(t)} :
            Tree!Texts(c) \cap X = {}
    BY <1>1, TreeAssumption DEF Tree!TreeBounds
<1> HIDE DEF X
<1>3. TreeTyped(t) /\ TreeClosed(DOMAIN t) /\ Base \in DOMAIN t /\ t[Base].kind = "dir"
    BY <1>2, TreeBounded DEF TreeTyped, TreeClosed, Tree!Is
<1>4. \A p \in DOMAIN t : TreeIn(p) => TreeClean(t[p].content, X)
  <2> SUFFICES ASSUME NEW p \in DOMAIN t, TreeIn(p) PROVE TreeClean(t[p].content, X)
      OBVIOUS
  <2>1. p \in DOMAIN t \ Tree!Outside(t)
      BY DEF Tree!Outside, TreeIn
  <2> QED
      BY <1>2, <2>1 DEF TreeClean
<1>5. TreeGood(t, X)
    BY <1>2, <1>3, <1>4 DEF TreeGood
<1>6. TreeSecret(X)
    BY <1>2 DEF TreeSecret, TreeClean
<1>7. TreeRest
    BY <1>1, <1>2, TreeBounded DEF TreeRest
<1> QED
    BY <1>5, <1>6, <1>7 DEF TreeInv, X

(* Every request keeps the invariant and spares the outside.                *)
LEMMA TreeStep == TreeInv /\ Tree!Next => TreeKept
<1> SUFFICES ASSUME TreeInv, Tree!Next PROVE TreeKept
    OBVIOUS
<1>0. Tree!Asked \subseteq TreePath
    BY TreeAsked
<1>1. CASE Tree!PostMkdir
    BY <1>0, <1>1, TreeMkdir DEF Tree!PostMkdir
<1>2. CASE Tree!GetContent \/ Tree!Download
    BY <1>0, <1>2, TreeReadContent DEF Tree!GetContent, Tree!Download
<1>3. CASE Tree!SaveContent
    BY <1>0, <1>3, TreeWriteContent DEF Tree!SaveContent
<1>4. CASE Tree!DeleteFile
    BY <1>0, <1>4, TreeDelete DEF Tree!DeleteFile
<1>5. CASE Tree!PutRename
    BY <1>0, <1>5, TreeRename DEF Tree!PutRename
<1>6. CASE Tree!PostMove
    BY <1>0, <1>6, TreeMove DEF Tree!PostMove
<1>7. CASE Tree!PostCopy
    BY <1>0, <1>7, TreeCopy DEF Tree!PostCopy
<1>8. CASE Tree!GetSearch
    BY <1>0, <1>8, TreeSearch DEF Tree!GetSearch
<1>9. CASE Tree!PostCompress
    BY <1>0, <1>9, TreeCompress DEF Tree!PostCompress
<1>10. CASE Tree!PostExtract
    BY <1>0, <1>10, TreeExtract DEF Tree!PostExtract
<1>11. CASE Tree!PostUpload
    BY <1>0, <1>11, TreeUploadOpen DEF Tree!PostUpload
<1>12. CASE Tree!UploadEnds
    BY <1>12, TreeUploadCopy DEF Tree!UploadEnds
<1> QED
    BY <1>1, <1>2, <1>3, <1>4, <1>5, <1>6, <1>7, <1>8, <1>9, <1>10, <1>11, <1>12, Zenon DEF Tree!Next

(* FailedExtractLeavesNothing, of every step.                               *)
LEMMA TreeCleans == TreeInv => Tree!FailedExtractLeavesNothing
<1> SUFFICES ASSUME TreeInv, NEW p \in Tree!Asked, NEW d \in Tree!Asked, reply' = "error",
                    Tree!Extract(p, d)
             PROVE  DOMAIN tree' \subseteq DOMAIN Tree!MkdirAll(tree, Tree!ValidatePath(tree, d))
    BY DEF Tree!FailedExtractLeavesNothing
<1> QED
    BY TreeAsked, TreeExtract

(* The invariant holds on while the part does nothing.                      *)
LEMMA TreeStutter == TreeInv /\ UNCHANGED treeVars => TreeInv'
BY DEF treeVars, TreeInv, TreeRest

(* What the invariant says of a state.                                      *)
LEMMA TreeShows == TreeInv => Tree!TypeOK /\ Tree!NothingLeaks
<1> SUFFICES ASSUME TreeInv PROVE Tree!TypeOK /\ Tree!NothingLeaks
    OBVIOUS
<1>1. TreeRest /\ TreeTyped(tree)
    BY TreeHas
<1>2. \A p \in DOMAIN tree : tree[p].kind \in {"dir", "file", "link"} /\ tree[p].fd \in BOOLEAN
    BY <1>1, TreeTyping
<1> QED
    BY <1>1, <1>2 DEF TreeRest, Tree!TypeOK, Tree!NothingLeaks

-----------------------------------------------------------------------------
(* The parts together.                                                      *)
IInv ==
    /\ SiteTyped /\ BanTyped /\ EngineTyped /\ RunTyped /\ PkgTyped
    /\ AlInv /\ BoxInv /\ TreeInv

(* The invariant holds in the initial states.                               *)
LEMMA IInit == Init => IInv
<1> SUFFICES ASSUME Init PROVE IInv
    OBVIOUS
<1>1. Tree!Init
    BY DEF Init
<1> QED
    BY <1>1, SiteTypedInit, BanTypedInit, EngineTypedInit, RunTypedInit, PkgTypedInit, AlInit,
       BoxInit, TreeInit DEF IInv

(* A part that does nothing keeps its invariant.                            *)
LEMMA IStutter ==
    ASSUME IInv
    PROVE  /\ UNCHANGED siteVars => SiteTyped'
           /\ UNCHANGED banVars => BanTyped'
           /\ UNCHANGED boxVars => BoxInv'
           /\ UNCHANGED engineVars => EngineTyped'
           /\ UNCHANGED runVars => RunTyped'
           /\ UNCHANGED pkgVars => PkgTyped'
           /\ UNCHANGED treeVars => TreeInv'
           /\ UNCHANGED alertVars => AlInv'
<1> USE DEF IInv
<1>1. UNCHANGED siteVars => SiteTyped'
    BY SiteTypedStutter
<1>2. UNCHANGED banVars => BanTyped'
    BY BanTypedStutter
<1>3. UNCHANGED boxVars => BoxInv'
    BY BoxStutters
<1>4. UNCHANGED engineVars => EngineTyped'
    BY EngineTypedStutter
<1>5. UNCHANGED runVars => RunTyped'
    BY RunTypedStutter
<1>6. UNCHANGED pkgVars => PkgTyped'
    BY PkgTypedStutter
<1>7. UNCHANGED treeVars => TreeInv'
    BY TreeStutter
<1>8. UNCHANGED alertVars => AlInv'
    BY AlStutter
<1> QED
    BY <1>1, <1>2, <1>3, <1>4, <1>5, <1>6, <1>7, <1>8

(* A step of one part keeps its invariant and leaves the other parts alone. *)
LEMMA IStep == IInv /\ [Next]_vars => IInv'
<1> SUFFICES ASSUME IInv, [Next]_vars PROVE IInv'
    OBVIOUS
<1> USE IStutter
<1>0. /\ SiteTyped /\ BanTyped /\ EngineTyped /\ RunTyped /\ PkgTyped
      /\ BoxInv /\ TreeInv /\ AlInv
    BY DEF IInv
<1>1. CASE Web!Next /\ UNCHANGED <<banVars, boxVars, engineVars, runVars, pkgVars, treeVars, alertVars>>
    BY <1>0, <1>1, SiteTypedStep DEF IInv
<1>2. CASE Ban!Next /\ UNCHANGED <<siteVars, boxVars, engineVars, runVars, pkgVars, treeVars, alertVars>>
    BY <1>0, <1>2, BanTypedStep DEF IInv
<1>3. CASE Box!Next /\ UNCHANGED <<siteVars, banVars, engineVars, runVars, pkgVars, treeVars, alertVars>>
    BY <1>0, <1>3, BoxStep DEF IInv
<1>4. CASE Engine!Next /\ UNCHANGED <<siteVars, banVars, boxVars, runVars, pkgVars, treeVars, alertVars>>
    BY <1>0, <1>4, EngineTypedStep DEF IInv
<1>5. CASE Run!Next /\ UNCHANGED <<siteVars, banVars, boxVars, engineVars, pkgVars, treeVars, alertVars>>
    BY <1>0, <1>5, RunTypedStep DEF IInv
<1>6. CASE Pkg!Next /\ UNCHANGED <<siteVars, banVars, boxVars, engineVars, runVars, treeVars, alertVars>>
    BY <1>0, <1>6, PkgTypedStep DEF IInv
<1>7. CASE Tree!Next /\ UNCHANGED <<siteVars, banVars, boxVars, engineVars, runVars, pkgVars, alertVars>>
    BY <1>0, <1>7, TreeStep DEF IInv, TreeKept
<1>8. CASE Alert!Next /\ UNCHANGED <<siteVars, banVars, boxVars, engineVars, runVars, pkgVars, treeVars>>
    BY <1>0, <1>8, AlStep DEF IInv
<1>9. CASE UNCHANGED <<siteVars, banVars, boxVars, engineVars, runVars, pkgVars, treeVars, alertVars>>
    BY <1>9 DEF IInv
<1> QED
    BY <1>1, <1>2, <1>3, <1>4, <1>5, <1>6, <1>7, <1>8, <1>9, Zenon DEF Next, vars

(* The invariant holds throughout.                                          *)
THEOREM Invariance == Spec => []IInv
BY IInit, IStep, PTL DEF Spec

(* The variables of every part have their types, for every number of sites, *)
(* bans, containers, packages and files, through all requests and failures. *)
THEOREM TypeCorrect == Spec => []TypeOK
<1>1. IInv => TypeOK
  <2> SUFFICES ASSUME IInv PROVE TypeOK
      OBVIOUS
  <2> QED
      BY SiteTypedShows, BanTypedShows, EngineTypedShows, RunTypedShows, PkgTypedShows, AlTyped,
         BoxShows, TreeShows DEF IInv, TypeOK
<1> QED
    BY <1>1, Invariance, PTL

(* A request changes only what is its own: no container that it inspected   *)
(* and that is the database module's (rejectManaged), nothing outside the   *)
(* base path and nothing shown of it (ValidatePath), and an extraction that *)
(* fails leaves nothing of what it made (rollback).                         *)
THEOREM HandsStayOff == Spec => HandsOff
<1>1. IInv /\ IInv' /\ [Next]_vars =>
      [/\ part = "box" => Box!InspectedIsSpared
       /\ part = "tree" => /\ Tree!SandboxHolds
                           /\ Tree!FailedExtractLeavesNothing
                           /\ Tree!NothingLeaks']_vars
  <2> SUFFICES ASSUME IInv, IInv', Next
               PROVE  /\ part = "box" => Box!InspectedIsSpared
                      /\ part = "tree" => /\ Tree!SandboxHolds
                                          /\ Tree!FailedExtractLeavesNothing
                                          /\ Tree!NothingLeaks'
      OBVIOUS
  <2>1. BoxInv /\ TreeInv /\ TreeInv'
      BY DEF IInv
  <2>2. ASSUME part = "box" PROVE Box!Next
      BY <2>2 DEF Next
  <2>3. ASSUME part = "tree" PROVE Tree!Next
      BY <2>3 DEF Next
  <2>4. part = "box" => Box!InspectedIsSpared
      BY <2>1, <2>2, BoxSpares
  <2>5. part = "tree" => Tree!SandboxHolds
      BY <2>1, <2>3, TreeStep DEF TreeKept
  <2>6. Tree!FailedExtractLeavesNothing
      BY <2>1, TreeCleans
  <2>7. Tree!NothingLeaks'
      BY <2>1 DEF TreeInv, TreeRest, Tree!NothingLeaks
  <2> QED
      BY <2>4, <2>5, <2>6, <2>7
<1> QED
    BY <1>1, Invariance, PTL DEF Spec, HandsOff

(* While every file could be written, the links in sites-enabled are those  *)
(* of the active sites, each to a file, whatever creates, renames, enables, *)
(* disables and deletes led here; no file has an empty proxy_pass, and a    *)
(* site of an application is proxied to a port (Update,                     *)
(* recalcProxyDefaults, nginxProxyTemplate).                                *)
THEOREM SitesStayWhole == Spec => []SitesWhole
<1>1. IInv => SitesWhole
    BY SiteShows DEF IInv, SiteTyped, SitesWhole
<1> QED
    BY <1>1, Invariance, PTL

(* What a request reported as done is what the daemon works by: a site that *)
(* Disable marked is not served, nginx denies exactly the addresses some    *)
(* ban names (refreshBannedIPsConfig), and Docker runs with the registry    *)
(* settings that SetRegistryConfig reported as saved.                       *)
THEOREM SavedStaysLive == Spec => []SavedIsLive
<1>1. IInv => SavedIsLive
    BY SiteShows, BanShows, EngineShows DEF IInv, SiteTyped, BanTyped, EngineTyped, SavedIsLive
<1> QED
    BY <1>1, Invariance, PTL

(* A runtime version with its marker is complete on disk unless an          *)
(* uninstall has begun on it (runInstall, runUninstall), and a package that *)
(* was reported as installed stays in the list of its runtime until a       *)
(* request removes it (ListPackages).                                       *)
THEOREM InstalledStaysWhole == Spec => []InstalledIsWhole
<1>1. IInv => InstalledIsWhole
    BY PkgShows DEF IInv, RunTyped, RunInv, PkgTyped, InstalledIsWhole
<1> QED
    BY <1>1, Invariance, PTL

(* A metric that has stayed above its threshold for the rule's duration and *)
(* a cooldown has been alerted since it rose, unless the rules were         *)
(* replaced meanwhile, and a rule's notification is not repeated within the *)
(* hour (Evaluate, CreateIfNotExists).                                      *)
THEOREM AlertsInTime == Spec => []AlertedInTime
<1>1. IInv => AlertedInTime
    BY AlShows DEF IInv, AlertedInTime
<1> QED
    BY <1>1, Invariance, PTL
=============================================================================
