CONSTANTS
    Headers <- MCHeaders
    NonceInts <- MCNonceInts
    NonceTexts <- MCNonceTexts
    HeaderTexts <- MCHeaderTexts
SPECIFICATION Spec
INVARIANT HashOfEncoding
