------------------------- MODULE MCPlaybackFeedback -------------------------
EXTENDS PlaybackFeedback

CONSTANTS t1, like, dislike

OneTrack == {t1}
TwoValues == {like, dislike}
=============================================================================
