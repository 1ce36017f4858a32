--------------------------- MODULE MCBrowserPool ---------------------------
(* BrowserPool for TLC; the sizes are in the .cfg files.                    *)
EXTENDS BrowserPool

Nobody == {}
First == {1}
FourAndTwo == <<4, 2>>
QueueOrder == {<<1, 2, 3>>}
EitherOrder == {<<1, 2>>, <<2, 1>>}
ThreeEach == <<3, 3, 3>>
=============================================================================
