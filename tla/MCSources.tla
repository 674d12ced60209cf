------------------------------ MODULE MCSources ------------------------------
(* A config as a reader writes one: a cache and a local file, a preference, and a  *)
(* comment between the sources and inside one; the same with a header the editors *)
(* do not recognise; one with the local file alone; and none.                     *)
EXTENDS Sources

Home(header) ==
    <<header, Key("name", "home"), Comment, Key("type", "kdbx"), Key("path", "path"),
      Key("writable", "true"), Blank>>

File(header) ==
    << <<Key("default", "work"), Blank>>,
       PleasantBlock("work", "work", "ca") \o <<Blank, Comment>>,
       Home(header) >>

HomeOnly == << <<Key("default", "home"), Blank>>, Home(Header) >>

TheConfigs == {File(Header), File(OddHeader), HomeOnly, NoFile}
===============================================================================
