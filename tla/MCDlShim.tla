------------------------------ MODULE MCDlShim ------------------------------
(* Small instances of DlShim for TLC.                                      *)
EXTENDS DlShim, TLC

CONSTANTS t1, t2, ocl, tracer, plugin, codec, r1, r2, r3, r4, clname, plugname

MCThread  == {t1, t2}
MCLibrary == {ocl, tracer, plugin, codec}
\* the program may open libOpenCL and the plug-in twice
MCReopen == {ocl, plugin}
MCSymbol  == {clname, plugname}
MCRef     == {r1, r2, r3, r4}
MCRefOne  == {r1, r2, r3}
\* libOpenCL has the real functions, ocltrace the wrappers, the plug-in a name
\* of its own
MCExports == (ocl :> {clname}) @@ (tracer :> {clname}) @@ (plugin :> {plugname})
               @@ (codec :> {})

MCGlobal  == {tracer}
\* the program opens its plug-ins with RTLD_GLOBAL
MCGlobalAll == {tracer, plugin}
MCMemory == {"ends", "wild", "nomem"}
MCMemorySafe == {}
MCMemoryWild == {"wild"}

Symmetry == Permutations(MCThread) \union Permutations({r3, r4})
=============================================================================
