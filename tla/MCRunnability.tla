---------------------------- MODULE MCRunnability ----------------------------
(***************************************************************************)
(* An instance of Runnability for TLC: a host that runs a 32-bit and, with *)
(* an emulator, a foreign architecture.                                    *)
(***************************************************************************)
EXTENDS Runnability, TLC

Ref(a, b) == [arch |-> a, branch |-> b]
Platform(a) == "Platform/" \o a

MCListing == <<Ref("aarch64", "stable"), Ref("x86_64", "beta"), Ref("x86_64", "stable")>>
MCRefs == ToSet(MCListing)
MCRuntimes ==
  {Platform("aarch64"), Platform("x86_64"),
   "GL/x86_64/24", "GL/x86_64/23", "Locale/x86_64/stable"}
MCDeclares ==
  (MCListing[1] :> Platform("aarch64")) @@ (MCListing[2] :> Null)
    @@ (MCListing[3] :> Platform("x86_64"))

Group(id, optional, suffixed, versions, version) ==
  [id |-> id, noAutodownload |-> optional, subdirectories |-> suffixed,
   versions |-> versions, version |-> version]

\* An extension of two branches, one of the branch of the app, and what names
\* nothing to install.
MCExtensions ==
  (MCListing[1] :> <<>>) @@ (MCListing[2] :> <<Group("GL", FALSE, FALSE, <<>>, "24")>>)
    @@ (MCListing[3] :>
         <<Group("GL", FALSE, FALSE, <<"", "24", "23">>, "22"), Group("", FALSE, FALSE, <<>>, ""),
           Group("Debug", TRUE, FALSE, <<>>, ""), Group("Themes", FALSE, TRUE, <<>>, ""),
           Group("Locale", FALSE, FALSE, <<>>, "")>>)

Registration(name, fixed) ==
  [name |-> name, interpreter |-> name, enabled |-> TRUE, fixBinary |-> fixed, exists |-> TRUE]

\* An emulator under a name of the user's, one that a sandbox cannot reach,
\* and one for no architecture.
MCRegistrations ==
  {[Registration("mine", TRUE) EXCEPT !.interpreter = "aarch64"],
   Registration("aarch64", FALSE), Registration("wine", TRUE)}
=============================================================================
