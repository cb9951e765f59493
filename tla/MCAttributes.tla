---------------------------- MODULE MCAttributes ----------------------------
EXTENDS Attributes

MCWatched == {"color", "min_size", "title", "text", "img", "callback"}

=============================================================================
