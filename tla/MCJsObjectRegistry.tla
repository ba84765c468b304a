-------------------------- MODULE MCJsObjectRegistry --------------------------
EXTENDS JsObjectRegistry, TLC

CONSTANTS o1, o2, n1, n2, f1, f2

MCObjects == {o1, o2}
MCNames == {n1, n2}
MCFrames == {f1, f2}
=============================================================================
