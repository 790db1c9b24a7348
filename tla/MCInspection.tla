---------------------------- MODULE MCInspection ----------------------------
(***************************************************************************)
(* Three containers of two compose projects; in one of them a directory of *)
(* the whitelist with a file, a file nobody may read and a link that leads *)
(* to a directory outside it; one change of the host.                      *)
(***************************************************************************)
EXTENDS Inspection, TLC

Container(name, project, service, repo) ==
  [name |-> name, id |-> name, project |-> project, service |-> service,
   running |-> TRUE, repo |-> repo, tag |-> "old"]

\* Two containers of one service; two projects with a service of one name.
MCWorlds ==
  {[n \in Name |-> IF n = 3 THEN Container(3, "other", "web", "site")
                   ELSE Container(n, "shop", "web", IF n = 1 THEN "fork" ELSE "site")],
   [n \in Name |-> IF n = 1 THEN Container(1, "shop", "web", "site")
                   ELSE IF n = 2 THEN [Container(2, "other", "web", "site") EXCEPT !.running = FALSE]
                   ELSE NoContainer]}

App == << "app" >>
Log == << "app", "log" >>
Key  == << "app", "key" >>
Cur  == << "app", "cur" >>
Srv  == << "srv" >>
Conf == << "srv", "conf" >>
MCPath == {<< >>, App, Log, Key, Cur, Srv, Conf}

File(size, text, readable) ==
  [kind |-> "file", size |-> size, text |-> text, readable |-> readable, target |-> << >>]
Link(target) ==
  [kind |-> "link", size |-> 1, text |-> TRUE, readable |-> TRUE, target |-> target]
Image(file) == [kind |-> file.kind, version |-> 1, size |-> file.size, text |-> file.text,
                readable |-> file.readable, target |-> file.target]
MCImageTree == [p \in MCPath |-> Image(CASE p = Log  -> File(2, TRUE, TRUE)
                                         [] p = Key  -> File(2, TRUE, FALSE)
                                         [] p = Cur  -> Link(Srv)
                                         [] p = Conf -> File(1, TRUE, TRUE)
                                         [] OTHER    -> Directory)]
MCNewFile == {File(3, TRUE, TRUE), File(1, FALSE, TRUE), File(3, TRUE, FALSE), Link(Conf),
              [Directory EXCEPT !.readable = FALSE]}

Raw(parts) == [absolute |-> TRUE, parts |-> parts]
MCRawPath == {Raw(App), Raw(<< "app", ".", "log" >>), Raw(Key), Raw(Srv),
              Raw(<< "app", "..", "srv" >>), Raw(<< "app", "cur", "conf" >>),
              [absolute |-> FALSE, parts |-> Log]}

MCVolume == {[name |-> i, dangling |-> i # 1, anonymous |-> i = 2, prefixed |-> i # 2] : i \in 1..3}

Source(key, docker, target, project, prefixes) ==
  [key |-> key, docker |-> docker, target |-> target, project |-> project,
   service |-> IF docker THEN "web" ELSE "", prefixes |-> prefixes]
Shop  == Source("shop", TRUE, 1, "shop", << App >>)
Other == Source("other", TRUE, 2, "other", << >>)
Cron  == Source("cron", FALSE, 0, "", << >>)
Site  == [service \in {"web"} |-> "site"]

MCManifest == {[sources |-> << Shop, Cron >>, repos |-> Site, tagged |-> TRUE],
               [sources |-> << Shop, Other >>, repos |-> << >>, tagged |-> FALSE],
               [sources |-> << Cron >>, repos |-> Site, tagged |-> TRUE],
               [sources |-> << Cron >>, repos |-> << >>, tagged |-> TRUE]}
MCNoPath == [absolute |-> FALSE, parts |-> << "nowhere" >>]
=============================================================================
