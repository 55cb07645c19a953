------------------------------- MODULE MCImage -------------------------------
(* Archives with everything that a search may meet, lists of three sections    *)
(* that are kept and one that is not, and records at the limits of the fields. *)
EXTENDS Image, TLC

m == "m.o"
n == "long_name.o"

Ask(a, o, at)     == [aname |-> a, oname |-> o, offset |-> at]
Mem(k, name, size) == [kind |-> k, name |-> name, at |-> 0, size |-> size]
Table  == Mem("names", NoName, 10)
Full   == <<Mem("symbols", NoName, 7), Table, Mem("short", "x.o", 5),
            Mem("long", n, 301), Mem("unknown", NoName, 2), Mem("short", m, 9),
            Mem("short", m, 4)>>
\* Its table of long names is the last member; the other has less than 256 bytes
\* behind the table.
Late   == <<Mem("long", n, 2), Mem("short", m, 3), Table>>
Small  == <<Table, Mem("long", n, 20), Mem("short", m, 3)>>
NoFmt  == <<>>
Empty  == <<Mem("symbols", NoName, 0)>>

MCArchives == "full.a" :> Full @@ "late.a" :> Late @@ "small.a" :> Small
              @@ "none.a" :> NoFmt @@ "empty.a" :> Empty
\* In the data of the long member of full.a.
MCStrays == "full.a" :> {[at |-> 300, member |-> Mem("short", m, 8)],
                         [at |-> 400, member |-> Mem("long", n, 8)]}
sub == "m.o/sub"
MCStem == [x \in {m, n, "x.o", "/m.o", sub} |-> IF x = sub THEN m ELSE x]
MCRequests ==
  {Ask(a, o, at) : a \in DOMAIN MCArchives \union {"gone.a"}, o \in {m, n},
                   at \in {0, 3, 8, 146, 212, 300, 400, 574, 10000}}
    \union {Ask("full.a", sub, 0)}
    \union {Ask(NoName, m, 0), Ask(NoName, "/m.o", 0)}
MCDisks == {{<<"d1", a>> : a \in DOMAIN MCArchives} \union {<<"d2", m>>, <<NoDir, "/m.o">>},
            {<<"d2", a>> : a \in DOMAIN MCArchives} \union {<<"d1", m>>, <<"d2", m>>}}
MCPaths == {<<"d1">>, <<"d1", "d2">>, <<"d2", "d1">>}
MCAbsolute == {"/m.o"}

Head3(t, f, size, al, info) ==
  [type |-> t, flags |-> f, name |-> t, size |-> size, offset |-> 0,
   addralign |-> al, info |-> info]
Null     == Head3("NULL", {}, 0, 0, 0)
Drop     == Head3("PROGBITS", {}, 3, 1, 0)
Loadable == {<<"PROGBITS", {"ALLOC", "EXECINSTR"}>>, <<"PROGBITS", {"ALLOC", "WRITE"}>>,
             <<"PROGBITS", {"ALLOC"}>>, <<"NOBITS", {"ALLOC", "WRITE"}>>}
Contents == {[Head3(k[1], k[2], size, al, 0) EXCEPT !.offset = size + 10 * al,
                    !.name = IF k[2] = {"ALLOC", "WRITE"} THEN ".ctors" ELSE k[1]] :
               k \in Loadable, size \in {0, 3, 9}, al \in {1, 4}}
MCRegions == <<0, 1000, 2000, 3000>>

MCHeaderLists ==
  {<<Null, x, Drop, y, z, Head3("REL", {}, 8, 4, 1), Head3("RELA", {}, 8, 4, 3)>> :
     x, y, z \in Contents}
MCRelocated == {headers \in MCHeaderLists :
                  /\ headers[2] = headers[4] /\ headers[2] = headers[5]
                  /\ headers[2].size = 3 /\ headers[2].addralign = 4}

MCRecords ==
  {Record("NONE", s, thumb, a, p, w, b) :
     s \in {0, 1028, 33554428, 33554436, 100000000}, a \in {-4, 9, 1048576},
     p \in {8, 4096, 67108864}, b \in {0, 2048}, thumb \in BOOLEAN,
     w \in {-335544322, -352321536, 176160767, 1258291200, 16777215, 0}}
=============================================================================
