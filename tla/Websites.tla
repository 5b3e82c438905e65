------------------------------ MODULE Websites ------------------------------
(* One nginx server of the panel and its sites (internal/domain/web): the   *)
(* rows, the configuration files, the links that enable them and what the   *)
(* running nginx has loaded.  The server's status column is a cache that    *)
(* only some requests refresh.  Requests are handled one at a time; the     *)
(* step `at` of a request fails, "none" if none does.                       *)
EXTENDS Naturals, FiniteSets

CONSTANTS
    Domains,      \* names of sites
    Reqs,         \* sites asked for: [domain, port, type, app, custom]
    Edits,        \* changes asked for: functions on some of those fields
    MaxId,        \* bound: sites ever created
    MaxFaults     \* bound: steps that fail, and changes made outside the panel

VARIABLES
    server,       \* [status, installed, active]: the column, and the truth
    sites,        \* websites: id -> row
    lastId,       \* ids given so far
    files,        \* domain -> configuration written for it
    links,        \* domains linked in sites-enabled
    served,       \* domains nginx serves: those linked when it last loaded
    icons,        \* domains with an icon file
    banFile,      \* banned_ips.conf exists
    rejected,     \* nginx -t has refused the files at some reload
    faults

vars == <<server, sites, lastId, files, links, served, icons, banFile, rejected, faults>>

Types == {"static", "nodejs", "python", "java", "proxy", "php"}

(* What the proofs assume of the constants: a template of the user's own is *)
(* none that the panel has.                                                 *)
Custom == STRING \ {"static", "php", "proxy"}
SiteBounds ==
    /\ {MaxId, MaxFaults} \subseteq Nat
    /\ Reqs \subseteq [domain : Domains, port : Nat, type : Types, app : Nat, custom : Custom]
    /\ \A e \in Edits :
         /\ DOMAIN e \subseteq {"domain", "port", "type", "app", "custom"}
         /\ "domain" \in DOMAIN e => e.domain \in Domains
         /\ "port" \in DOMAIN e => e.port \in Nat
         /\ "type" \in DOMAIN e => e.type \in Types
         /\ "app" \in DOMAIN e => e.app \in Nat
         /\ "custom" \in DOMAIN e => e.custom \in Custom
Without(f, x) == [y \in DOMAIN f \ {x} |-> f[y]]
With(f, x, v) == [y \in DOMAIN f \cup {x} |-> IF y = x THEN v ELSE f[y]]
Charge(at) == faults' = faults + (IF at = "none" THEN 0 ELSE 1) /\ faults' <= MaxFaults

(* What the requests on sites change, as one record.                        *)
World == [sites |-> sites, files |-> files, links |-> links, served |-> served,
          rejected |-> rejected]
SetWorld(w) == /\ sites' = w.sites /\ files' = w.files /\ links' = w.links
               /\ served' = w.served /\ rejected' = w.rejected

----------------------------------------------------------------------------
(* The table of sites.                                                      *)
CountByDomain(domain, id) == Cardinality({i \in DOMAIN sites \ {id} : sites[i].domain = domain})
CountByPort(port, id) == Cardinality({i \in DOMAIN sites \ {id} : sites[i].port = port})
CountWebsitesByServerID == Cardinality(DOMAIN sites)
repoCreate(w, id, row) == [w EXCEPT !.sites = With(@, id, row)]
repoUpdate(w, id, row) == [w EXCEPT !.sites[id] = row]
repoDelete(w, id) == [w EXCEPT !.sites = Without(@, id)]
UpdateStatus(w, id, status) == [w EXCEPT !.sites[id].status = status]
UpdateSSL(w, id) == [w EXCEPT !.sites[id].ssl = TRUE]

----------------------------------------------------------------------------
(* The port of the application behind a site, and where it is proxied to    *)
(* (0: nowhere).                                                            *)
DefaultApp(type) ==
    CASE type = "nodejs" -> 3000 [] type = "python" -> 8000 [] type = "java" -> 8080
      [] type = "php" -> 9000 [] OTHER -> 0

AppOf(type, app) == IF app = 0 THEN DefaultApp(type) ELSE app

(* Bug variant: the row keeps the proxy settings of its former type.        *)
recalcNothing(row) == row

recalcProxyDefaults(row) ==
    [row EXCEPT !.app = AppOf(row.type, @),
                !.pass = CASE row.type \in {"static", "php"} -> 0
                           [] row.type = "proxy" -> IF @ = 0 THEN row.app ELSE @
                           [] OTHER -> AppOf(row.type, row.app)]

NewSite(req) ==
    recalcProxyDefaults([domain |-> req.domain, port |-> IF req.port = 0 THEN 80 ELSE req.port,
                         type |-> req.type, app |-> req.app, pass |-> 0, custom |-> req.custom,
                         ssl |-> FALSE, status |-> "active"])

----------------------------------------------------------------------------
(* The templates.  php knows no certificate; a proxy without a target falls *)
(* back to static; the files of static and php sites include banned_ips.conf.*)
nginxSSLConfig(row) == row.ssl
nginxFaviconBlock(domain) == domain \in icons
nginxStaticTemplate(row) ==
    [tpl |-> "static", pass |-> 0, ssl |-> nginxSSLConfig(row), icon |-> nginxFaviconBlock(row.domain)]
nginxPHPTemplate(row) ==
    [tpl |-> "php", pass |-> 0, ssl |-> FALSE, icon |-> nginxFaviconBlock(row.domain)]

(* Bug variant: the proxy template is filled in whatever the target is.     *)
nginxProxyUnchecked(row) ==
    [tpl |-> "proxy", pass |-> row.pass, ssl |-> nginxSSLConfig(row),
     icon |-> nginxFaviconBlock(row.domain)]

nginxProxyTemplate(row) ==
    IF row.pass = 0 THEN nginxStaticTemplate(row)
    ELSE [tpl |-> "proxy", pass |-> row.pass, ssl |-> nginxSSLConfig(row),
          icon |-> nginxFaviconBlock(row.domain)]

Rendered(row) ==
    CASE row.custom # "" -> [tpl |-> row.custom, pass |-> 0, ssl |-> FALSE, icon |-> FALSE]
      [] row.custom = "" /\ row.type = "php" -> nginxPHPTemplate(row)
      [] row.custom = "" /\ row.type = "static" -> nginxStaticTemplate(row)
      [] OTHER -> nginxProxyTemplate(row)

(* nginx -t reads the files that are linked.                                *)
ValidFile(c) == /\ c.tpl # "bad"
                /\ c.tpl = "proxy" => c.pass # 0
                /\ c.tpl \in {"static", "php"} => banFile

TestConfig(w) == \A d \in w.links : d \in DOMAIN w.files /\ ValidFile(w.files[d])

writeConfigForServer(w, row) == [w EXCEPT !.files = With(@, row.domain, Rendered(row))]
Linked(w, domain) == [w EXCEPT !.links = @ \cup {domain}]
Unlinked(w, domain) == [w EXCEPT !.links = @ \ {domain}]

removeConfigForServer(w, domain) == [Unlinked(w, domain) EXCEPT !.files = Without(@, domain)]

(* A refused configuration and a failed reload are only logged.             *)
reloadWebServer(w) ==
    IF ~server.installed \/ ~TestConfig(w) THEN [w EXCEPT !.rejected = TRUE]
    ELSE IF server.active THEN [w EXCEPT !.served = w.links] ELSE w

reloadIfRunning(w) == IF server.status = "running" THEN reloadWebServer(w) ELSE w

----------------------------------------------------------------------------
(* Sites.                                                                   *)
Create(w, req, id, at) ==
    LET row == NewSite(req)
        inserted == repoCreate(w, id, row)
        written == IF at = "write" THEN inserted ELSE writeConfigForServer(inserted, row)
    IN reloadIfRunning(Linked(written, row.domain))

(* The link of a renamed site is made again when the site is active.        *)
Update(w, id, edit, at) ==
    LET old == w.sites[id]
        set == [f \in DOMAIN old |-> IF f \in DOMAIN edit THEN edit[f] ELSE old[f]]
        row == IF set.type # old.type THEN recalcProxyDefaults(set) ELSE set
        saved == repoUpdate(w, id, row)
        moved == IF row.domain # old.domain THEN removeConfigForServer(saved, old.domain) ELSE saved
        written == writeConfigForServer(moved, row)
    IN IF at = "write" THEN moved
       ELSE reloadIfRunning(IF row.status = "active" /\ row.domain # old.domain
                            THEN Linked(written, row.domain) ELSE written)

Enable(w, id) ==
    UpdateStatus(reloadWebServer(Linked(writeConfigForServer(w, w.sites[id]), w.sites[id].domain)),
                 id, "active")

(* Bug variant: the link is removed and nginx is not told.                  *)
DisableWithoutReload(w, id) ==
    UpdateStatus(Unlinked(w, w.sites[id].domain), id, "disabled")

Disable(w, id) ==
    UpdateStatus(reloadWebServer(Unlinked(w, w.sites[id].domain)), id, "disabled")

(* Bug variant: the link stays behind.                                      *)
DeleteKeepsLink(w, id) ==
    repoDelete([w EXCEPT !.files = Without(@, w.sites[id].domain)], id)

(* nginx is not reloaded.                                                   *)
Delete(w, id) == repoDelete(removeConfigForServer(w, w.sites[id].domain), id)

UploadSSL(w, id) ==
    LET saved == UpdateSSL(w, id)
    IN reloadIfRunning(writeConfigForServer(saved, saved.sites[id]))

(* certbot writes the certificate into the file itself and reloads.         *)
ApplySSL(w, id) ==
    LET d == w.sites[id].domain
    IN UpdateSSL(reloadWebServer([w EXCEPT !.files[d].ssl = TRUE]), id)

CreateWebsite ==
    \E req \in Reqs, at \in {"none", "write"} :
        /\ lastId < MaxId /\ lastId' = lastId + 1
        /\ server.status # "not_installed"
        /\ CountByDomain(req.domain, 0) = 0 /\ CountByPort(NewSite(req).port, 0) = 0
        /\ SetWorld(Create(World, req, lastId', at)) /\ Charge(at)
        /\ UNCHANGED <<server, icons, banFile>>

UpdateWebsite ==
    \E id \in DOMAIN sites, edit \in Edits, at \in {"none", "write"} :
        /\ "domain" \in DOMAIN edit => CountByDomain(edit.domain, id) = 0
        /\ "port" \in DOMAIN edit => CountByPort(edit.port, id) = 0
        /\ SetWorld(Update(World, id, edit, at)) /\ Charge(at)
        /\ UNCHANGED <<server, lastId, icons, banFile>>

OnSite(Op(_, _)) ==
    \E id \in DOMAIN sites :
        SetWorld(Op(World, id)) /\ UNCHANGED <<server, lastId, icons, banFile, faults>>

DeleteWebsite == OnSite(Delete)
DisableWebsite == OnSite(Disable)
EnableWebsite == server.status = "running" /\ OnSite(Enable)
UploadWebsiteSSL == OnSite(UploadSSL)
ApplyWebsiteSSL ==
    /\ server.status = "running" /\ server.active
    /\ \E id \in DOMAIN sites : /\ sites[id].domain \in links \cap DOMAIN files
                                /\ TestConfig(World)
                                /\ SetWorld(ApplySSL(World, id))
    /\ UNCHANGED <<server, lastId, icons, banFile, faults>>

(* Icons are kept by domain: one file, found whatever its extension.        *)
regenerateConfig(w, row) == reloadWebServer(writeConfigForServer(w, row))

UploadIcon ==
    \E id \in DOMAIN sites :
        /\ icons' = icons \cup {sites[id].domain}
        /\ SetWorld(regenerateConfig(World, sites[id]))
        /\ UNCHANGED <<server, lastId, banFile, faults>>

DeleteIcon ==
    \E id \in DOMAIN sites :
        /\ sites[id].domain \in icons
        /\ icons' = icons \ {sites[id].domain}
        /\ SetWorld(regenerateConfig(World, sites[id]))
        /\ UNCHANGED <<server, lastId, banFile, faults>>

----------------------------------------------------------------------------
(* The server.  Whenever nginx is started it reads the links.               *)
StatusNow(installed, active) ==
    IF ~installed THEN "not_installed" ELSE IF active THEN "running" ELSE "stopped"
SetServer(status, installed, active) ==
    server' = [status |-> status, installed |-> installed, active |-> active]
RestUnchanged == UNCHANGED <<sites, lastId, files, links, icons, banFile>>

(* The status is refreshed when all went well; enable and start fail after  *)
(* the package is there, start also because nginx refuses the files.        *)
Install ==
    \E at \in {"none", "install", "enable", "start"} :
        LET there == server.installed \/ at # "install"
            up    == server.active \/ at = "none"
        IN /\ at = "none" => TestConfig(World)
           /\ SetServer(IF at = "none" THEN "running" ELSE server.status, there, up)
           /\ served' = IF at = "none" /\ ~server.active THEN links ELSE served
           /\ Charge(IF at = "start" /\ ~TestConfig(World) THEN "none" ELSE at)
           /\ RestUnchanged /\ UNCHANGED rejected

(* Bug variant: the package goes while the service still runs.              *)
UninstallWithoutStop ==
    /\ CountWebsitesByServerID = 0
    /\ SetServer("not_installed", FALSE, server.active)
    /\ Charge("none") /\ RestUnchanged /\ UNCHANGED <<served, rejected>>

(* Stopping is best effort; apt stops the service as well.                  *)
Uninstall ==
    \E at \in {"none", "stop", "remove"} :
        /\ CountWebsitesByServerID = 0
        /\ SetServer(IF at = "remove" THEN server.status ELSE "not_installed",
                     server.installed /\ at = "remove", FALSE)
        /\ served' = {} /\ Charge(at) /\ RestUnchanged /\ UNCHANGED rejected

Start ==
    /\ server.installed /\ TestConfig(World)
    /\ SetServer("running", TRUE, TRUE)
    /\ served' = IF server.active THEN served ELSE links
    /\ RestUnchanged /\ UNCHANGED <<rejected, faults>>

Stop ==
    /\ server.installed
    /\ SetServer("stopped", TRUE, FALSE) /\ served' = {}
    /\ RestUnchanged /\ UNCHANGED <<rejected, faults>>

(* A restart that fails has stopped the server; the column keeps its value. *)
Restart ==
    /\ server.installed
    /\ IF TestConfig(World)
       THEN SetServer("running", TRUE, TRUE) /\ served' = links
       ELSE SetServer(server.status, TRUE, FALSE) /\ served' = {}
    /\ RestUnchanged /\ UNCHANGED <<rejected, faults>>

Reload ==
    /\ server.installed /\ server.active /\ TestConfig(World)
    /\ served' = links
    /\ RestUnchanged /\ UNCHANGED <<server, rejected, faults>>

RefreshStatus ==
    /\ SetServer(StatusNow(server.installed, server.active), server.installed, server.active)
    /\ RestUnchanged /\ UNCHANGED <<served, rejected, faults>>

(* nginx stops or is started outside the panel; the first ban writes the    *)
(* file the sites include.                                                  *)
OutsidePanel ==
    /\ server.installed
    /\ \/ /\ server.active /\ SetServer(server.status, TRUE, FALSE) /\ served' = {}
       \/ /\ ~server.active /\ TestConfig(World)
          /\ SetServer(server.status, TRUE, TRUE) /\ served' = links
    /\ Charge("outside") /\ RestUnchanged /\ UNCHANGED rejected

FirstBan == ~banFile /\ banFile' = TRUE
            /\ UNCHANGED <<server, sites, lastId, files, links, served, icons, rejected, faults>>

----------------------------------------------------------------------------
(* SeedPredefinedWebServers has put the row there.                          *)
Init ==
    /\ server = [status |-> "not_installed", installed |-> FALSE, active |-> FALSE]
    /\ sites = <<>> /\ lastId = 0 /\ files = <<>> /\ links = {} /\ served = {}
    /\ icons = {} /\ banFile \in BOOLEAN /\ rejected = FALSE /\ faults = 0

Next ==
    \/ CreateWebsite \/ UpdateWebsite \/ DeleteWebsite \/ EnableWebsite \/ DisableWebsite
    \/ UploadWebsiteSSL \/ ApplyWebsiteSSL \/ UploadIcon \/ DeleteIcon
    \/ Install \/ Uninstall \/ Start \/ Stop \/ Restart \/ Reload \/ RefreshStatus
    \/ OutsidePanel \/ FirstBan

----------------------------------------------------------------------------
TypeOK ==
    /\ server.status \in {"not_installed", "stopped", "running"}
    /\ server.active => server.installed
    /\ DOMAIN sites \subseteq 1 .. lastId /\ lastId \in 0 .. MaxId
    /\ \A i \in DOMAIN sites : sites[i].domain \in Domains /\ sites[i].type \in Types
    /\ DOMAIN files \subseteq Domains /\ links \subseteq Domains
    /\ served \subseteq Domains /\ icons \subseteq Domains

(* While every file could be written, the links in sites-enabled are those  *)
(* of the active sites, each to a file, whatever creates, renames, enables, *)
(* disables and deletes led here.                                           *)
LinksAreActiveSites ==
    faults = 0 =>
        /\ links = {sites[i].domain : i \in {j \in DOMAIN sites : sites[j].status = "active"}}
        /\ DOMAIN files = {sites[i].domain : i \in DOMAIN sites}

(* No request leaves a generated file with an empty "proxy_pass ;", and a   *)
(* site that runs an application is proxied to a port, also when its type   *)
(* was changed later (the comment of Update).                               *)
AppsAreProxied ==
    \A i \in DOMAIN sites :
        LET row == sites[i]
        IN /\ row.type \in {"nodejs", "python", "java"} => row.pass # 0
           /\ row.type \in {"static", "php"} => row.pass = 0
           /\ row.domain \in DOMAIN files /\ files[row.domain].tpl = "proxy" =>
                  files[row.domain].pass # 0

(* While nginx never refused the files and ran only as the panel asked, a   *)
(* site that is disabled is not served any more.                            *)
DisabledNotServed ==
    (~rejected /\ faults = 0) =>
        \A i \in DOMAIN sites : sites[i].status = "disabled" => sites[i].domain \notin served
=============================================================================
